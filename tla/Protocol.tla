------------------------------ MODULE Protocol ------------------------------
(***************************************************************************)
(* The message protocol, src/network/protocol.c: a message is written by   *)
(* sprintf into a text of conversions separated by blanks and read back by *)
(* sscanf.  A text is a sequence of tokens: <<"d", n>> is the decimal      *)
(* number n, <<"w", k>> any other word.  A string field is the sequence of *)
(* its words, so << >> is the empty string and a longer one holds blanks.  *)
(* Each message has two layouts, translated from its serializer (out) and  *)
(* from its deserializer (in).                                             *)
(*                                                                         *)
(* Numbers are counted modulo Modulus (2^32): %d prints them signed, and   *)
(* reads them back modulo Modulus.  What malloc leaves in a field that     *)
(* sscanf does not reach is Junk.  Left out: the lengths of texts and      *)
(* strings, and the bytes of payloads, which are copied at offset 256 on   *)
(* both sides with the length that payload_bytes says.                     *)
(*                                                                         *)
(* A registration of a process manager is the one message of several       *)
(* lines.  It is cut into lines by strtok, whose position is one for the   *)
(* whole process, while the workers of the pool deserialize their messages *)
(* side by side: saved is that position, and Others are the texts that     *)
(* other workers may be cutting meanwhile.                                 *)
(***************************************************************************)
EXTENDS Integers, Sequences

CONSTANTS
    Modulus,       \* the number of values of a uint32_t
    Numbers,       \* the values numeric fields take
    Strings,       \* the values string fields take
    MaxApplications, \* bound: applications of a process manager
    Others         \* the texts, by lines, that other workers deserialize

ASSUME ProtocolAssumption ==
    /\ Modulus \in Nat
    /\ Numbers \subseteq 0..(Modulus - 1)
    /\ Strings \subseteq Seq({"d", "w"} \X Int)
    /\ MaxApplications \in 0..(Modulus - 1)
    /\ Others \subseteq Seq(Seq({"d", "w"} \X Int))

VARIABLES
    phase,         \* new, sent, lines (a registration being read), received or crashed
    type,          \* the message's type
    msg,           \* its fields
    applications,  \* of a register_process_manager_msg
    text,          \* the lines of the text
    got,           \* the fields that were read
    got_applications,
    expected,      \* application_count of the registration being read
    saved,         \* strtok's position: the lines after it
    overlapped     \* history: another worker called strtok since the first line

pvars == <<phase, type, msg, applications, text, got, got_applications, expected, saved, overlapped>>

-----------------------------------------------------------------------------
(* Conversions *)

D(f) == [conv |-> "d", field |-> f]
S(f) == [conv |-> "s", field |-> f]
T(f) == [conv |-> "t", field |-> f]  \* a time_t passed to %d

Junk == Modulus
JunkOf(conv) ==
    CASE conv = "d" -> Junk [] conv = "s" -> <<<<"w", 0>>>> [] conv = "t" -> <<Junk, Junk>>

Signed(v) == IF 2 * v >= Modulus THEN v - Modulus ELSE v

Unsigned(v) == v % Modulus

\* sprintf of one field; of a time_t <<high, low>> it takes the low half
Written(conv, v) ==
    CASE conv = "d" -> <<<<"d", Signed(v)>>>>
      [] conv = "t" -> <<<<"d", Signed(v[2])>>>>
      [] conv = "s" -> v

\* ... and of the fields one after the other
Sprintf(format, m) ==
    LET upto[k \in 0..Len(format)] ==
            IF k = 0 THEN << >>
            ELSE upto[k - 1] \o Written(format[k].conv, m[format[k].field])
    IN  upto[Len(format)]

\* %s takes any token; %d takes a number, and of a time_t it stores the low
\* half only.
Takes(conv, token) == conv = "s" \/ token[1] = "d"
Converted(conv, token) ==
    CASE conv = "d" -> Unsigned(token[2])
      [] conv = "t" -> <<Junk, Unsigned(token[2])>>
      [] conv = "s" -> <<token>>

FieldsOf(format) == {format[k].field : k \in 1..Len(format)}
Place(format, f) == CHOOSE k \in 1..Len(format) : format[k].field = f

\* Each conversion takes one token, so that the k-th takes the k-th, and sscanf
\* stops for good at the first that fails.
Reaches(format, tokens, k) ==
    \A j \in 1..k : j <= Len(tokens) /\ Takes(format[j].conv, tokens[j])

Sscanf(format, tokens) ==
    [f \in FieldsOf(format) |->
        LET k == Place(format, f) IN
        IF Reaches(format, tokens, k) THEN Converted(format[k].conv, tokens[k])
                                      ELSE JunkOf(format[k].conv)]

-----------------------------------------------------------------------------
(* Layouts *)

Header == <<D("source_type"), D("message_type")>>

HeaderOnly == [out |-> Header, in |-> Header]

RegisterConnection ==
    [out |-> Header \o <<D("pid"), S("hostname")>>,
     in  |-> Header \o <<D("pid"), S("hostname")>>]

\* Mutant: the deserializer expects the error code before the host.
DeregisterConnectionSwapped ==
    [out |-> Header \o <<D("pid"), S("hostname"), D("error_code")>>,
     in  |-> Header \o <<D("pid"), D("error_code"), S("hostname")>>]

DeregisterConnection ==
    [out |-> Header \o <<D("pid"), S("hostname"), D("error_code")>>,
     in  |-> Header \o <<D("pid"), S("hostname"), D("error_code")>>]

ResourceOffer ==
    [out |-> Header \o <<D("application_index"), D("partition_index"), D("node_count"),
                         T("creation_time"), T("end_time")>>,
     in  |-> Header \o <<D("application_index"), D("partition_index"), D("node_count"),
                         T("creation_time"), T("end_time")>>]

CreateTbon ==
    [out |-> Header \o <<D("id"), D("degree"), D("total"), S("nodes")>>,
     in  |-> Header \o <<D("id"), D("degree"), D("total"), S("nodes")>>]

\* READY_TBON, READY_DYNAMIC_PM and PROCESSES_DONE
Ready ==
    [out |-> Header \o <<D("id"), D("subtree_ready_count"), D("error_code")>>,
     in  |-> Header \o <<D("id"), D("subtree_ready_count"), D("error_code")>>]

\* the first line; a line per application follows
RegisterProcessManager ==
    [out |-> Header \o <<D("pid"), S("hostname"), D("job_index"), D("application_count")>>,
     in  |-> Header \o <<D("pid"), S("hostname"), D("job_index"), D("application_count")>>]

Application ==
    [out |-> <<D("application_index"), D("malleability_mode"), D("node_count"), S("nodes")>>,
     in  |-> <<D("application_index"), D("malleability_mode"), D("node_count"), S("nodes")>>]

DeregisterProcessManager ==
    [out |-> Header \o <<D("pid"), S("hostname"), D("error_code")>>,
     in  |-> Header \o <<D("pid"), S("hostname"), D("error_code")>>]

AllocationRequest ==
    [out |-> Header \o <<D("application_index"), D("partition_index"), D("type"), D("node_count")>>,
     in  |-> Header \o <<D("application_index"), D("partition_index"), D("type"), D("node_count")>>]

ReallocationStart ==
    [out |-> Header \o <<D("application_index"), D("partition_index"), D("type"),
                         D("current_node_count"), S("current_nodes"), D("delta_node_count"),
                         S("delta_nodes"), D("updated_node_count"), S("updated_nodes")>>,
     in  |-> Header \o <<D("application_index"), D("partition_index"), D("type"),
                         D("current_node_count"), S("current_nodes"), D("delta_node_count"),
                         S("delta_nodes"), D("updated_node_count"), S("updated_nodes")>>]

ReallocationComplete ==
    [out |-> Header \o <<D("application_index"), D("partition_index"), D("type"),
                         D("node_count"), S("nodes"), D("status_code")>>,
     in  |-> Header \o <<D("application_index"), D("partition_index"), D("type"),
                         D("node_count"), S("nodes"), D("status_code")>>]

DynamicPmLaunch ==
    [out |-> Header \o <<D("id"), D("type"), D("payload_bytes")>>,
     in  |-> Header \o <<D("id"), D("type"), D("payload_bytes")>>]

DynamicIoOut ==
    [out |-> Header \o <<D("id"), S("host"), D("payload_bytes")>>,
     in  |-> Header \o <<D("id"), S("host"), D("payload_bytes")>>]

ReportProcessData ==
    [out |-> Header \o <<D("id"), D("job_index"), D("application_index"),
                         D("malleability_mode"), D("payload_bytes")>>,
     in  |-> Header \o <<D("id"), D("job_index"), D("application_index"),
                         D("malleability_mode"), D("payload_bytes")>>]

Layouts ==
    [HEADER |-> HeaderOnly, REGISTER_CONNECTION |-> RegisterConnection,
     DEREGISTER_CONNECTION |-> DeregisterConnection, OFFER_RESOURCES |-> ResourceOffer,
     CREATE_TBON |-> CreateTbon, READY |-> Ready,
     REGISTER_PROCESS_MANAGER |-> RegisterProcessManager,
     DEREGISTER_PROCESS_MANAGER |-> DeregisterProcessManager,
     ALLOCATION_REQUEST |-> AllocationRequest, REALLOCATION_START |-> ReallocationStart,
     REALLOCATION_COMPLETE |-> ReallocationComplete, DYNAMIC_PM_LAUNCH |-> DynamicPmLaunch,
     DYNAMIC_IO_OUT |-> DynamicIoOut, REPORT_PROCESS_DATA |-> ReportProcessData]

-----------------------------------------------------------------------------
(* A message on its way *)

OfConv(format, conv) ==
    {format[k].field : k \in {j \in 1..Len(format) : format[j].conv = conv}}

\* A message of this layout, with its numbers n, strings s and times t
Filled(format, n, s, t) ==
    [f \in FieldsOf(format) |-> CASE f \in OfConv(format, "d") -> n[f]
                                [] f \in OfConv(format, "s") -> s[f]
                                [] f \in OfConv(format, "t") -> t[f]]

Contents(format) ==
    {Filled(format, n, s, t) : n \in [OfConv(format, "d") -> Numbers],
                               s \in [OfConv(format, "s") -> Strings],
                               t \in [OfConv(format, "t") -> Numbers \X Numbers]}

IsRegistration == type = "REGISTER_PROCESS_MANAGER"

ProtocolInit ==
    /\ phase = "new"
    /\ type \in DOMAIN Layouts
    /\ applications \in IF IsRegistration
                        THEN UNION {[1..n -> Contents(Application.out)] : n \in 0..MaxApplications}
                        ELSE {<< >>}
    /\ \E m \in Contents(Layouts[type].out) :
          msg = IF IsRegistration THEN [m EXCEPT !.application_count = Len(applications)] ELSE m
    /\ text = << >> /\ got = << >> /\ got_applications = << >>
    /\ expected = 0 /\ saved = << >> /\ overlapped = FALSE

\* The loop over the applications starts at the uninitialized variable app: a
\* line is written for those from first on.  The comparison with the unsigned
\* application_count makes a negative app a large one, which ends the loop at
\* once.
Serialize(first) ==
    /\ phase = "new"
    /\ text' = <<Sprintf(Layouts[type].out, msg)>> \o
               [k \in 1..(Len(applications) - first) |->
                    Sprintf(Application.out, applications[first + k])]
    /\ phase' = "sent"
    /\ UNCHANGED <<type, msg, applications, got, got_applications, expected, saved, overlapped>>

Deserialize ==
    /\ phase = "sent" /\ ~IsRegistration
    /\ got' = Sscanf(Layouts[type].in, text[1])
    /\ phase' = "received"
    /\ UNCHANGED <<type, msg, applications, text, got_applications, expected, saved, overlapped>>

\* strtok(char_buff) cuts off the first line, which says how many follow; the
\* count is any number when sscanf did not reach it.
ReadFirstLine(count) ==
    /\ phase = "sent" /\ IsRegistration
    /\ got' = Sscanf(Layouts[type].in, text[1])
    /\ got'.application_count # Junk => count = got'.application_count
    /\ expected' = count
    /\ saved' = Tail(text)
    /\ phase' = "lines"
    /\ UNCHANGED <<type, msg, applications, text, got_applications, overlapped>>

\* Mutant: a missing line ends the list.
ReadLineStops ==
    /\ phase = "lines" /\ Len(got_applications) < expected
    /\ IF saved = << >>
       THEN phase' = "received" /\ UNCHANGED <<got_applications, saved>>
       ELSE /\ got_applications' = Append(got_applications, Sscanf(Application.in, Head(saved)))
            /\ saved' = Tail(saved)
            /\ UNCHANGED phase
    /\ UNCHANGED <<type, msg, applications, text, got, expected, overlapped>>

\* strtok(NULL) goes on from its position, wherever that is by now; with no
\* line left it returns NULL, which sscanf does not survive.
ReadLine ==
    /\ phase = "lines" /\ Len(got_applications) < expected
    /\ IF saved = << >>
       THEN phase' = "crashed" /\ UNCHANGED <<got_applications, saved>>
       ELSE /\ got_applications' = Append(got_applications, Sscanf(Application.in, Head(saved)))
            /\ saved' = Tail(saved)
            /\ UNCHANGED phase
    /\ UNCHANGED <<type, msg, applications, text, got, expected, overlapped>>

EndOfLines ==
    /\ phase = "lines" /\ Len(got_applications) = expected
    /\ phase' = "received"
    /\ UNCHANGED <<type, msg, applications, text, got, got_applications, expected, saved, overlapped>>

\* The positions in the text t of a worker that has read its first line
Positions(t) == {SubSeq(t, k, Len(t)) : k \in 2..(Len(t) + 1)}

\* Another worker deserializes a registration: its calls of strtok move the
\* position into its own text or, when it finds the position here, over a line
\* of this one; two of them at once, a data race, leave it at an earlier or a
\* later line of either.  With no line left its sscanf brings the process down.
OtherWorker ==
    /\ phase = "lines"
    /\ \/ /\ \E t \in Others \cup {text} : saved' \in Positions(t)
          /\ UNCHANGED phase
       \/ /\ saved = << >>
          /\ phase' = "crashed" /\ UNCHANGED saved
    /\ overlapped' = TRUE
    /\ UNCHANGED <<type, msg, applications, text, got, got_applications, expected>>

ProtocolNext ==
    \/ \E first \in 0..Len(applications) : Serialize(first)
    \/ Deserialize
    \/ \E count \in 0..(Modulus - 1) : ReadFirstLine(count)
    \/ ReadLine
    \/ EndOfLines
    \/ OtherWorker

ProtocolSpec == ProtocolInit /\ [][ProtocolNext]_pvars

-----------------------------------------------------------------------------
(* Properties *)

WellFormed(c, m) == c.conv = "s" => Len(m[c.field]) = 1

\* of a time_t only the low half is carried
SameValue(c, m, g) ==
    IF c.conv = "t" THEN g[c.field][2] = m[c.field][2] ELSE g[c.field] = m[c.field]

\* What was read agrees with what was written up to the first string that is
\* empty or has a blank in it.
IntactUntilMalformed(format, m, g) ==
    \A k \in 1..Len(format) :
        (\A j \in 1..k : WellFormed(format[j], m)) => SameValue(format[k], m, g)

\* Every field of every message is read back as it was written, negative and
\* large numbers included, until the first empty string or string with blanks;
\* a malformed string in the line of one application reaches no other line.
\* Only the lines of applications depend on what else the process does: they
\* may be another registration's when another worker called strtok between the
\* first line of this one and its last.
FieldsIntact ==
    phase = "received" =>
        /\ IntactUntilMalformed(Layouts[type].out, msg, got)
        /\ ~overlapped => \A k \in DOMAIN got_applications :
               (\A j \in 1..Len(Layouts[type].out) : WellFormed(Layouts[type].out[j], msg)) =>
                   IntactUntilMalformed(Application.out, applications[k], got_applications[k])

\* Whatever the uninitialized loop variable of the serializer held, and wherever
\* other workers left strtok's position, a process manager with a proper host
\* name is registered with as many applications as it has or the server crashes;
\* when no other registration was being read meanwhile, they are its own.
WholeOrCrash ==
    phase = "received" /\ IsRegistration /\ Len(msg.hostname) = 1 =>
        /\ Len(got_applications) = Len(applications)
        /\ ~overlapped => \A k \in DOMAIN applications :
               got_applications[k].application_index = applications[k].application_index
=============================================================================
