------------------------------ MODULE EventWire ------------------------------
(***************************************************************************)
(* The event stream's portable shape: one event written to a journal by    *)
(* EncodeEvent, read back by DecodeEvent, and perhaps passed on to another *)
(* journal.  A record may also come from another build, or be damaged.     *)
(*                                                                         *)
(* Enums are numbers in an event and names in a record, through the tables *)
(* of the source.  An error is the framework sentinels and host values its *)
(* chain holds, and a text; every other payload is one text, and everything*)
(* a handle carries besides its round and kind is one text too.            *)
(***************************************************************************)
EXTENDS Integers, Sequences, SequencesExt

CONSTANTS
    Nil,        \* a nil pointer, or a record that is no JSON at all
    Kinds,      \* the values of Event.Kind to try, unnamed ones included
    States,     \* the values of Event.State to try
    Rulings,    \* the values of SandboxVerdict.Ruling to try
    Asks,       \* the values of Session.kind to try
    Strings,    \* the strings events and records may hold
    Errors,     \* the errors an event or a verdict may carry
    MaxHops     \* bound: journals an event passes through

ASSUME TablesAssumption ==
    Kinds \cup States \cup Rulings \cup Asks \subseteq Int /\ MaxHops \in Nat

eventVersion   == 2
sessionVersion == 4

eventKindNames == <<"text", "tool-call", "tool-result", "state", "done", "error",
                    "usage", "sandbox", "wait-input", "paused", "replace", "config">>
loopStateNames == <<"idle", "thinking", "acting", "paused", "waiting", "done", "error">>
verdictNames   == <<"deny", "allow", "ask">>
waitKindNames  == <<"pause", "tool", "call-ask", "utterance-ask">>
frameworkErrs  == <<"max-rounds", "foreign-session", "cell-closed">>

EventState == 3

NoName == ""

(* The name of an enum value; a value outside the table has none. *)
NameOf(names, v) == IF v \in 0 .. Len(names) - 1 THEN names[v + 1] ELSE NoName

Named(names, name) == name \in ToSet(names)
ValueOfName(names, name) == CHOOSE v \in 0 .. Len(names) - 1 : names[v + 1] = name

(* JSON carries UTF-8: other bytes become replacement characters. *)
JSON(text) == IF text = "bytes" THEN "replaced" ELSE text

-----------------------------------------------------------------------------
(* Errors.  `is' holds what errors.Is finds in the chain: sentinels, and    *)
(* "host" for a value of the host's.                                        *)

(* The first sentinel of the table the chain holds, if any. *)
wireOfErr(err) ==
    LET held == {i \in DOMAIN frameworkErrs : frameworkErrs[i] \in err.is}
    IN  [code |-> IF held = {} THEN NoName ELSE frameworkErrs[Min(held)], text |-> JSON(err.text)]

(* A known code restores its sentinel, wrapped if the text is not its own;  *)
(* any other error is a fresh value with the same text.                     *)
errOf(w) ==
    [is |-> IF Named(frameworkErrs, w.code) THEN {w.code} ELSE {}, text |-> w.text]

IdentityLost(w) == w # Nil /\ ~Named(frameworkErrs, w.code)

(* A pointer is followed by f unless it is nil. *)
OrNil(p, f(_)) == IF p = Nil THEN Nil ELSE f(p)

-----------------------------------------------------------------------------
(* Suspension handles, through Marshal and UnmarshalSession. *)
ZeroSession == [round |-> 0, kind |-> 0, load |-> "clean"]

valid(s) == s.round >= 1

Marshals(s) == valid(s) /\ NameOf(waitKindNames, s.kind) # NoName

Marshal(s) == [version |-> sessionVersion, round |-> s.round,
               ask |-> NameOf(waitKindNames, s.kind), load |-> JSON(s.load)]

(* Mutant: the version of a handle goes unread. *)
UnmarshalsAnyVersion(j) == Named(waitKindNames, j.ask) /\ j.round >= 1

Unmarshals(j) ==
    j.version = sessionVersion /\ Named(waitKindNames, j.ask) /\ j.round >= 1

UnmarshalSession(j) ==
    [round |-> j.round, kind |-> ValueOfName(waitKindNames, j.ask), load |-> j.load]

-----------------------------------------------------------------------------
(* Events into records. *)
Encodable(e) ==
    /\ NameOf(eventKindNames, e.kind) # NoName
    /\ IF e.kind = EventState THEN NameOf(loopStateNames, e.state) # NoName ELSE e.state = 0
    /\ e.verdict # Nil => NameOf(verdictNames, e.verdict.ruling) # NoName
    /\ e.wait # Nil => Marshals(e.wait)

encodeVerdict(v) == [ruling |-> NameOf(verdictNames, v.ruling),
                     err |-> OrNil(v.err, wireOfErr)]

EncodeEvent(e) ==
    [version |-> eventVersion,
     kind    |-> NameOf(eventKindNames, e.kind),
     state   |-> IF e.kind = EventState THEN NameOf(loopStateNames, e.state) ELSE NoName,
     err     |-> OrNil(e.err, wireOfErr),
     verdict |-> OrNil(e.verdict, encodeVerdict),
     wait    |-> OrNil(e.wait, LAMBDA s : [session |-> Marshal(s)]),
     text    |-> JSON(e.text),
     dropped |-> e.dropped]

-----------------------------------------------------------------------------
(* Records into events. *)

(* A state record has a state name, and no other record has one. *)
StateDecodable(w) ==
    IF w.kind = eventKindNames[EventState + 1] THEN Named(loopStateNames, w.state)
                                               ELSE w.state = NoName

(* An absent handle is read as the zero one. *)
Decodable(w) ==
    /\ w # Nil
    /\ w.version = eventVersion
    /\ Named(eventKindNames, w.kind) /\ StateDecodable(w)
    /\ w.verdict # Nil => Named(verdictNames, w.verdict.ruling)
    /\ w.wait # Nil /\ w.wait.session # Nil => Unmarshals(w.wait.session)

(* Mutant: the loss is reported on every hop. *)
ReportLossAgain(dropped, lost, what) == IF lost THEN Append(dropped, what) ELSE dropped

(* A value that arrived as a shadow is named once, however often it travels.*)
reportLoss(dropped, lost, what) ==
    IF lost /\ what \notin ToSet(dropped) THEN Append(dropped, what) ELSE dropped

decodeVerdict(v) == [ruling |-> ValueOfName(verdictNames, v.ruling),
                     err |-> OrNil(v.err, errOf)]

decodeWait(w) == IF w.session = Nil THEN ZeroSession ELSE UnmarshalSession(w.session)

DecodeEvent(w) ==
    [kind    |-> ValueOfName(eventKindNames, w.kind),
     state   |-> IF w.state = NoName THEN 0 ELSE ValueOfName(loopStateNames, w.state),
     err     |-> OrNil(w.err, errOf),
     verdict |-> OrNil(w.verdict, decodeVerdict),
     wait    |-> OrNil(w.wait, decodeWait),
     text    |-> w.text,
     dropped |-> reportLoss(reportLoss(w.dropped, IdentityLost(w.err), "err.identity"),
                            w.verdict # Nil /\ IdentityLost(w.verdict.err),
                            "verdict.err.identity")]

-----------------------------------------------------------------------------
(* Types: an event in memory, and a record as a reader finds it.  Text that *)
(* went through JSON is UTF-8.                                              *)
UTF8 == Strings \ {"bytes"}

ErrorValues   == [is : SUBSET Strings, text : Strings]
SessionValues == [round : Int, kind : Int, load : Strings]
VerdictValues == [ruling : Int, err : {Nil} \cup ErrorValues]
EventValues   == [kind : Int, state : Int, err : {Nil} \cup ErrorValues,
                  verdict : {Nil} \cup VerdictValues, wait : {Nil} \cup SessionValues,
                  text : Strings, dropped : Seq(Strings)]

WireErrors   == [code : Strings, text : UTF8]
WireSessions == [version : Int, round : Int, ask : Strings, load : UTF8]
WireVerdicts == [ruling : Strings, err : {Nil} \cup WireErrors]
WireWaits    == [session : {Nil} \cup WireSessions]
Records      == [version : Int, kind : Strings, state : Strings,
                 err : {Nil} \cup WireErrors, verdict : {Nil} \cup WireVerdicts,
                 wait : {Nil} \cup WireWaits, text : UTF8, dropped : Seq(Strings)]

(* A pointer that is nil points to nothing. *)
ASSUME NilAssumption ==
    /\ Nil \notin ErrorValues \cup SessionValues \cup VerdictValues
    /\ Nil \notin WireErrors \cup WireSessions \cup WireVerdicts
    /\ Nil \notin WireWaits \cup Records
ASSUME ErrorsAssumption == Errors \subseteq ErrorValues

(* The strings this module names. *)
Literals == {NoName, "clean", "bytes", "replaced", "heartbeat", "sleeping", "budget-spent",
             "defer", "timer", "err.identity", "verdict.err.identity"}

ASSUME StringsAssumption ==
    /\ Literals \cup ToSet(eventKindNames) \cup ToSet(loopStateNames) \subseteq Strings
    /\ ToSet(verdictNames) \cup ToSet(waitKindNames) \cup ToSet(frameworkErrs) \subseteq Strings

-----------------------------------------------------------------------------
VARIABLES
    event,     \* the event as the loop yielded it
    current,   \* the event as the holder at this hop has it
    record,    \* what the journal of this hop holds
    foreign,   \* the record is not what this build wrote
    hops,      \* journals passed through
    pc

vars == <<event, current, record, foreign, hops, pc>>

(* The loop's own events, with a state where none belongs and unnamed values *)
(* besides: the codec refuses those.  A live event has lost nothing.        *)
Sessions == {ZeroSession} \cup [round : {1, 2}, kind : Asks, load : {"clean", "bytes"}]

Verdicts == [ruling : Rulings, err : {Nil} \cup Errors]

Bare == [kind |-> 0, state |-> 0, err |-> Nil, verdict |-> Nil, wait |-> Nil,
         text |-> "clean", dropped |-> << >>]

Said(k, s, t)     == [Bare EXCEPT !.kind = k, !.state = s, !.text = t]
Reported(k, x, v) == [Bare EXCEPT !.kind = k, !.err = x, !.verdict = v]
Awaited(k, w)     == [Bare EXCEPT !.kind = k, !.wait = w]

Yielded ==
    {Said(k, s, t) : k \in Kinds, s \in States, t \in {"clean", "bytes"}}
    \cup {Reported(k, x, v) : k \in Kinds, x \in {Nil} \cup Errors, v \in {Nil} \cup Verdicts}
    \cup {Awaited(k, w) : k \in Kinds, w \in Sessions}

Init ==
    /\ event \in Yielded
    /\ current = event /\ record = Nil /\ foreign = FALSE /\ hops = 0 /\ pc = "live"

Encode ==
    /\ pc = "live"
    /\ IF Encodable(current) THEN record' = EncodeEvent(current) /\ pc' = "written"
                             ELSE UNCHANGED record /\ pc' = "refused"
    /\ UNCHANGED <<event, current, foreign, hops>>

(* What another build, or a crash in the middle of a line, leaves instead.  *)
Altered(w) ==
    {Nil}
    \cup {[w EXCEPT !.version = v] : v \in {eventVersion - 1, eventVersion + 1}}
    \cup {[w EXCEPT !.kind = k]  : k \in {NoName, "heartbeat", "state", "text"}}
    \cup {[w EXCEPT !.state = s] : s \in {NoName, "sleeping", "done"}}
    \cup (IF w.err = Nil THEN {} ELSE {[w EXCEPT !.err.code = "budget-spent"]})
    \cup (IF w.verdict = Nil THEN {} ELSE {[w EXCEPT !.verdict.ruling = "defer"]})
    \cup (IF w.wait = Nil THEN {}
          ELSE {[w EXCEPT !.wait.session = Nil],
                [w EXCEPT !.wait.session.version = sessionVersion - 1],
                [w EXCEPT !.wait.session.round = 0],
                [w EXCEPT !.wait.session.ask = "timer"]})

Alter ==
    /\ pc = "written" /\ ~foreign
    /\ \E w \in Altered(record) : w # record /\ record' = w
    /\ foreign' = TRUE /\ UNCHANGED <<event, current, hops, pc>>

Decode ==
    /\ pc = "written"
    /\ IF Decodable(record) THEN current' = DecodeEvent(record) /\ pc' = "read"
                            ELSE UNCHANGED current /\ pc' = "rejected"
    /\ UNCHANGED <<event, record, foreign, hops>>

(* A restored event is journalled again, by a relay or a replay. *)
Relay ==
    /\ pc = "read" /\ hops < MaxHops
    /\ hops' = hops + 1 /\ pc' = "live"
    /\ UNCHANGED <<event, current, record, foreign>>

Next == Encode \/ Alter \/ Decode \/ Relay

Spec == Init /\ [][Next]_vars
=============================================================================
