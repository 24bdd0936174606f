--------------------------- MODULE EventWireProofs ---------------------------
(***************************************************************************)
(* The portable shape of events, for every enum value, error and handle,   *)
(* and for any number of journals an event goes through: what comes back   *)
(* is the event with its losses named, and every record that is read is    *)
(* written again as it was.                                                *)
(***************************************************************************)
EXTENDS EventWireProperties, FiniteSetTheorems, SequenceTheorems, TLAPS

-----------------------------------------------------------------------------
(* Tables: no name twice, none empty. *)

Table(names) ==
    /\ names \in Seq(Strings)
    /\ \A i, j \in 1 .. Len(names) : names[i] = names[j] => i = j
    /\ \A i \in 1 .. Len(names) : names[i] # NoName

LEMMA NamesAreNamed ==
    NoName \notin {"text", "tool-call", "tool-result", "state", "done", "error", "usage",
                  "sandbox", "wait-input", "paused", "replace", "config", "idle",
                  "thinking", "acting", "waiting", "deny", "allow", "ask", "pause", "tool",
                  "call-ask", "utterance-ask", "max-rounds", "foreign-session",
                  "cell-closed", "bytes", "replaced"}
  BY Zenon DEF NoName

LEMMA KindTable == Table(eventKindNames)
<1>1. Len(eventKindNames) = 12 /\ 1 .. 12 = {1, 2, 3, 4, 5, 6, 7, 8, 9, 10, 11, 12}
  BY DEF eventKindNames
<1>2. ToSet(eventKindNames) \subseteq Strings
  BY StringsAssumption
<1>3. DOMAIN eventKindNames = 1 .. 12 /\ eventKindNames \in Seq(Strings)
  BY <1>1, <1>2 DEF eventKindNames, ToSet
<1>4. \A i \in 1 .. Len(eventKindNames) : eventKindNames[i] # NoName
  BY <1>1, NamesAreNamed DEF eventKindNames
<1>5. QED
  BY <1>1, <1>3, <1>4 DEF Table, eventKindNames

LEMMA StateTable == Table(loopStateNames)
<1>1. Len(loopStateNames) = 7 /\ 1 .. 7 = {1, 2, 3, 4, 5, 6, 7}
  BY DEF loopStateNames
<1>2. ToSet(loopStateNames) \subseteq Strings
  BY StringsAssumption
<1>3. DOMAIN loopStateNames = 1 .. 7 /\ loopStateNames \in Seq(Strings)
  BY <1>1, <1>2 DEF loopStateNames, ToSet
<1>4. \A i \in 1 .. Len(loopStateNames) : loopStateNames[i] # NoName
  BY <1>1, NamesAreNamed DEF loopStateNames
<1>5. QED
  BY <1>1, <1>3, <1>4 DEF Table, loopStateNames

LEMMA RulingTable == Table(verdictNames)
<1>1. Len(verdictNames) = 3 /\ 1 .. 3 = {1, 2, 3}
  BY DEF verdictNames
<1>2. ToSet(verdictNames) \subseteq Strings
  BY StringsAssumption
<1>3. DOMAIN verdictNames = 1 .. 3 /\ verdictNames \in Seq(Strings)
  BY <1>1, <1>2 DEF verdictNames, ToSet
<1>4. \A i \in 1 .. Len(verdictNames) : verdictNames[i] # NoName
  BY <1>1, NamesAreNamed DEF verdictNames
<1>5. QED
  BY <1>1, <1>3, <1>4 DEF Table, verdictNames

LEMMA AskTable == Table(waitKindNames)
<1>1. Len(waitKindNames) = 4 /\ 1 .. 4 = {1, 2, 3, 4}
  BY DEF waitKindNames
<1>2. ToSet(waitKindNames) \subseteq Strings
  BY StringsAssumption
<1>3. DOMAIN waitKindNames = 1 .. 4 /\ waitKindNames \in Seq(Strings)
  BY <1>1, <1>2 DEF waitKindNames, ToSet
<1>4. \A i \in 1 .. Len(waitKindNames) : waitKindNames[i] # NoName
  BY <1>1, NamesAreNamed DEF waitKindNames
<1>5. QED
  BY <1>1, <1>3, <1>4 DEF Table, waitKindNames

(* A name that is not empty is in the table and stands for its value. *)
LEMMA NameRestores ==
    ASSUME NEW names, Table(names), NEW v \in Int, NameOf(names, v) # NoName
    PROVE  /\ NameOf(names, v) \in Strings /\ Named(names, NameOf(names, v))
           /\ ValueOfName(names, NameOf(names, v)) = v
<1>1. Len(names) \in Nat /\ v \in 0 .. Len(names) - 1 /\ NameOf(names, v) = names[v + 1]
  BY DEF NameOf, Table
<1>2. v + 1 \in 1 .. Len(names) /\ DOMAIN names = 1 .. Len(names)
  BY <1>1 DEF Table
<1>3. names[v + 1] \in Strings /\ Named(names, names[v + 1])
  BY <1>1, <1>2 DEF Table, Named, ToSet
<1>4. \A u \in 0 .. Len(names) - 1 : names[u + 1] = names[v + 1] => u = v
  <2> SUFFICES ASSUME NEW u \in 0 .. Len(names) - 1, names[u + 1] = names[v + 1] PROVE u = v
    OBVIOUS
  <2>1. u + 1 \in 1 .. Len(names)
    BY <1>1
  <2>2. u + 1 = v + 1
    BY <1>2, <2>1 DEF Table
  <2>3. QED
    BY <1>1, <2>2
<1>5. QED
  BY <1>1, <1>3, <1>4 DEF ValueOfName

(* The value of a name in the table has that name. *)
LEMMA ValueRestores ==
    ASSUME NEW names, Table(names), NEW n, Named(names, n)
    PROVE  /\ ValueOfName(names, n) \in Int /\ NameOf(names, ValueOfName(names, n)) = n
           /\ n \in Strings /\ n # NoName
<1>1. Len(names) \in Nat /\ DOMAIN names = 1 .. Len(names)
  BY DEF Table
<1>2. PICK i \in 1 .. Len(names) : names[i] = n
  BY <1>1 DEF Named, ToSet
<1>3. i - 1 \in 0 .. Len(names) - 1 /\ names[(i - 1) + 1] = n
  BY <1>1, <1>2
<1>4. ValueOfName(names, n) \in 0 .. Len(names) - 1 /\ names[ValueOfName(names, n) + 1] = n
  BY <1>3 DEF ValueOfName
<1>5. QED
  BY <1>1, <1>2, <1>4 DEF NameOf, Table

-----------------------------------------------------------------------------
(* Text and errors. *)

LEMMA JSONText ==
    /\ \A t \in Strings : JSON(t) \in UTF8
    /\ \A t \in UTF8 : t \in Strings /\ JSON(t) = t
  BY StringsAssumption DEF JSON, UTF8, Literals

(* The error that comes back: its text, and the sentinel the table named. *)
LostError(x) == x.is \cap Sentinels = {}

LEMMA SentinelCodes ==
    /\ Sentinels = {frameworkErrs[1], frameworkErrs[2], frameworkErrs[3]}
    /\ DOMAIN frameworkErrs = {1, 2, 3} /\ NoName \notin Sentinels /\ Sentinels \subseteq Strings
    /\ \A c : Named(frameworkErrs, c) <=> c \in Sentinels
<1>1. DOMAIN frameworkErrs = {1, 2, 3}
  BY DEF frameworkErrs
<1>2. QED
  BY <1>1, StringsAssumption, NamesAreNamed DEF Sentinels, ToSet, Named, frameworkErrs

LEMMA ErrorWritten ==
    ASSUME NEW x \in ErrorValues
    PROVE  /\ wireOfErr(x) \in WireErrors /\ wireOfErr(x).text = JSON(x.text)
           /\ IF LostError(x) THEN wireOfErr(x).code = NoName
                              ELSE wireOfErr(x).code \in Sentinels \cap x.is
<1> DEFINE found == {i \in DOMAIN frameworkErrs : frameworkErrs[i] \in x.is}
<1>1. LostError(x) <=> found = {}
  BY SentinelCodes DEF LostError
<1>2. found # {} => Min(found) \in found
  <2>1. found \subseteq {1, 2, 3}
    BY SentinelCodes
  <2>2. found # {} => \E i \in found : \A j \in found : i <= j
    BY <2>1
  <2>3. QED
    BY <2>2 DEF Min
<1>3. wireOfErr(x) = [code |-> IF found = {} THEN NoName ELSE frameworkErrs[Min(found)],
                      text |-> JSON(x.text)]
  BY DEF wireOfErr
<1>4. found # {} => frameworkErrs[Min(found)] \in Sentinels \cap x.is
  BY <1>2, SentinelCodes
<1>5. x.text \in Strings
  BY DEF ErrorValues
<1>6. QED
  <2>1. NoName \in Strings /\ Sentinels \subseteq Strings /\ JSON(x.text) \in UTF8
    BY <1>5, SentinelCodes, JSONText, StringsAssumption DEF Literals
  <2>2. CASE found = {}
    BY <1>1, <1>3, <2>1, <2>2 DEF WireErrors
  <2>3. CASE found # {}
    BY <1>1, <1>3, <1>4, <2>1, <2>3 DEF WireErrors
  <2>4. QED
    BY <2>2, <2>3

LEMMA ErrorRead ==
    ASSUME NEW w \in WireErrors
    PROVE  /\ errOf(w) \in ErrorValues /\ errOf(w).text = w.text
           /\ errOf(w).is = IF w.code \in Sentinels THEN {w.code} ELSE {}
           /\ LostError(errOf(w)) <=> w.code \notin Sentinels
  BY SentinelCodes, JSONText DEF errOf, WireErrors, ErrorValues, LostError

(* Written again, an error that was read is the same record, without a code *)
(* no table holds.                                                          *)
LEMMA ErrorRewritten ==
    ASSUME NEW w \in WireErrors
    PROVE  wireOfErr(errOf(w)) = [w EXCEPT !.code = IF @ \in Sentinels THEN @ ELSE NoName]
<1>1. errOf(w) \in ErrorValues /\ w.text \in UTF8
  BY ErrorRead DEF WireErrors
<1>2. wireOfErr(errOf(w)).text = w.text
  BY <1>1, ErrorWritten, ErrorRead, JSONText
<1>3. wireOfErr(errOf(w)).code = IF w.code \in Sentinels THEN w.code ELSE NoName
  BY <1>1, ErrorWritten, ErrorRead
<1>4. QED
  BY <1>1, <1>2, <1>3, ErrorWritten DEF WireErrors

(* A pointer to an error: what is written is nil where it was, and carries  *)
(* no code but a sentinel's.                                                *)
OwnCode(w) == w # Nil => w.code \in Sentinels \cup {NoName}

LEMMA PointerWritten ==
    ASSUME NEW x \in {Nil} \cup ErrorValues
    PROVE  LET w == OrNil(x, wireOfErr)
           IN  /\ w \in {Nil} \cup WireErrors /\ OwnCode(w) /\ (w = Nil <=> x = Nil)
               /\ x # Nil => w = wireOfErr(x) /\ x \in ErrorValues
  BY ErrorWritten, NilAssumption DEF OrNil, OwnCode

LEMMA PointerRead ==
    ASSUME NEW w \in {Nil} \cup WireErrors
    PROVE  LET x == OrNil(w, errOf)
           IN  /\ x \in {Nil} \cup ErrorValues /\ (w = Nil <=> x = Nil)
               /\ w # Nil => x = errOf(w) /\ w \in WireErrors
               /\ OrNil(x, wireOfErr) = KnownCode(w)
<1>1. CASE w = Nil
  BY <1>1 DEF OrNil, KnownCode
<1>2. CASE w # Nil
  <2>1. w \in WireErrors /\ errOf(w) \in ErrorValues /\ errOf(w) # Nil
    BY <1>2, ErrorRead, NilAssumption
  <2>2. wireOfErr(errOf(w)) = KnownCode(w)
    BY <1>2, <2>1, ErrorRewritten DEF KnownCode, WireErrors
  <2>3. QED
    BY <1>2, <2>1, <2>2 DEF OrNil
<1>3. QED
  BY <1>1, <1>2

LEMMA OwnCodeKnown ==
    ASSUME NEW w \in {Nil} \cup WireErrors, OwnCode(w)
    PROVE  KnownCode(w) = w
<1>1. CASE w # Nil /\ w.code \notin Sentinels
  <2>1. w \in WireErrors /\ w.code = NoName
    BY <1>1 DEF OwnCode
  <2>2. QED
    BY <1>1, <2>1 DEF KnownCode, WireErrors
<1>2. QED
  BY <1>1 DEF KnownCode

-----------------------------------------------------------------------------
(* Verdicts and handles. *)

LEMMA VerdictWritten ==
    ASSUME NEW v \in VerdictValues, NameOf(verdictNames, v.ruling) # NoName
    PROVE  LET w == encodeVerdict(v)
           IN  /\ w \in WireVerdicts /\ Named(verdictNames, w.ruling) /\ OwnCode(w.err)
               /\ w.err = OrNil(v.err, wireOfErr)
               /\ ValueOfName(verdictNames, w.ruling) = v.ruling
<1>1. v.ruling \in Int /\ v.err \in {Nil} \cup ErrorValues
  BY DEF VerdictValues
<1>2. /\ NameOf(verdictNames, v.ruling) \in Strings
      /\ Named(verdictNames, NameOf(verdictNames, v.ruling))
      /\ ValueOfName(verdictNames, NameOf(verdictNames, v.ruling)) = v.ruling
  BY <1>1, RulingTable, NameRestores
<1>3. encodeVerdict(v) = [ruling |-> NameOf(verdictNames, v.ruling),
                          err |-> OrNil(v.err, wireOfErr)]
  BY DEF encodeVerdict
<1>4. OrNil(v.err, wireOfErr) \in {Nil} \cup WireErrors /\ OwnCode(OrNil(v.err, wireOfErr))
  BY <1>1, PointerWritten
<1>5. QED
  BY <1>2, <1>3, <1>4 DEF WireVerdicts

LEMMA VerdictRead ==
    ASSUME NEW w \in WireVerdicts, Named(verdictNames, w.ruling)
    PROVE  LET v == decodeVerdict(w)
           IN  /\ v \in VerdictValues /\ v.ruling = ValueOfName(verdictNames, w.ruling)
               /\ v.err = OrNil(w.err, errOf)
               /\ NameOf(verdictNames, v.ruling) # NoName
               /\ encodeVerdict(v) = [w EXCEPT !.err = KnownCode(@)]
<1>1. w.err \in {Nil} \cup WireErrors
  BY DEF WireVerdicts
<1>2. /\ ValueOfName(verdictNames, w.ruling) \in Int
      /\ NameOf(verdictNames, ValueOfName(verdictNames, w.ruling)) = w.ruling
      /\ w.ruling # NoName
  BY RulingTable, ValueRestores
<1>3. decodeVerdict(w) = [ruling |-> ValueOfName(verdictNames, w.ruling),
                          err |-> OrNil(w.err, errOf)]
  BY DEF decodeVerdict
<1>4. /\ OrNil(w.err, errOf) \in {Nil} \cup ErrorValues
      /\ OrNil(OrNil(w.err, errOf), wireOfErr) = KnownCode(w.err)
  BY <1>1, PointerRead
<1>5. decodeVerdict(w) \in VerdictValues
  BY <1>2, <1>3, <1>4 DEF VerdictValues
<1>6. encodeVerdict(decodeVerdict(w)) = [ruling |-> w.ruling, err |-> KnownCode(w.err)]
  BY <1>2, <1>3, <1>4 DEF encodeVerdict
<1>7. [w EXCEPT !.err = KnownCode(@)] = [ruling |-> w.ruling, err |-> KnownCode(w.err)]
  BY DEF WireVerdicts
<1>8. QED
  BY <1>2, <1>3, <1>5, <1>6, <1>7

LEMMA SessionWritten ==
    ASSUME NEW s \in SessionValues, Marshals(s)
    PROVE  /\ Marshal(s) \in WireSessions /\ Unmarshals(Marshal(s))
           /\ UnmarshalSession(Marshal(s)) = [s EXCEPT !.load = JSON(@)]
<1>1. s.round \in Int /\ s.kind \in Int /\ s.load \in Strings /\ s.round >= 1
  BY DEF SessionValues, Marshals, valid
<1>2. /\ NameOf(waitKindNames, s.kind) \in Strings
      /\ Named(waitKindNames, NameOf(waitKindNames, s.kind))
      /\ ValueOfName(waitKindNames, NameOf(waitKindNames, s.kind)) = s.kind
  BY <1>1, AskTable, NameRestores DEF Marshals
<1>3. JSON(s.load) \in UTF8
  BY <1>1, JSONText
<1>4. Marshal(s) = [version |-> sessionVersion, round |-> s.round,
                    ask |-> NameOf(waitKindNames, s.kind), load |-> JSON(s.load)]
  BY DEF Marshal
<1>5. sessionVersion \in Int
  BY DEF sessionVersion
<1>6. Marshal(s) \in WireSessions /\ Unmarshals(Marshal(s))
  BY <1>1, <1>2, <1>3, <1>4, <1>5 DEF WireSessions, Unmarshals
<1>7. UnmarshalSession(Marshal(s)) = [round |-> s.round, kind |-> s.kind, load |-> JSON(s.load)]
  BY <1>2, <1>4 DEF UnmarshalSession
<1>8. [s EXCEPT !.load = JSON(@)] = [round |-> s.round, kind |-> s.kind, load |-> JSON(s.load)]
  BY DEF SessionValues
<1>9. QED
  BY <1>6, <1>7, <1>8

LEMMA SessionRead ==
    ASSUME NEW j \in WireSessions, Unmarshals(j)
    PROVE  /\ UnmarshalSession(j) \in SessionValues /\ Marshals(UnmarshalSession(j))
           /\ Marshal(UnmarshalSession(j)) = j
<1>1. /\ j.version = sessionVersion /\ j.round \in Int /\ j.round >= 1 /\ j.load \in UTF8
      /\ Named(waitKindNames, j.ask)
  BY DEF WireSessions, Unmarshals
<1>2. /\ ValueOfName(waitKindNames, j.ask) \in Int
      /\ NameOf(waitKindNames, ValueOfName(waitKindNames, j.ask)) = j.ask
      /\ j.ask # NoName
  BY <1>1, AskTable, ValueRestores
<1>3. j.load \in Strings /\ JSON(j.load) = j.load
  BY <1>1, JSONText
<1>4. UnmarshalSession(j) = [round |-> j.round, kind |-> ValueOfName(waitKindNames, j.ask),
                             load |-> j.load]
  BY DEF UnmarshalSession
<1>5. UnmarshalSession(j) \in SessionValues /\ Marshals(UnmarshalSession(j))
  BY <1>1, <1>2, <1>3, <1>4 DEF SessionValues, Marshals, valid
<1>6. Marshal(UnmarshalSession(j)) = [version |-> j.version, round |-> j.round,
                                      ask |-> j.ask, load |-> j.load]
  BY <1>1, <1>2, <1>3, <1>4 DEF Marshal
<1>7. j = [version |-> j.version, round |-> j.round, ask |-> j.ask, load |-> j.load]
  BY DEF WireSessions
<1>8. QED
  BY <1>5, <1>6, <1>7

-----------------------------------------------------------------------------
(* Events and records, field by field. *)

(* Codes and handles as this build writes them. *)
OwnWords(w) ==
    /\ OwnCode(w.err) /\ (w.verdict # Nil => OwnCode(w.verdict.err))
    /\ w.wait # Nil => w.wait.session # Nil

(* A record of a wait without a handle. *)
Handleless(w) == w.wait # Nil /\ w.wait.session = Nil

LEMMA KindIsState ==
    ASSUME NEW k \in Int, NameOf(eventKindNames, k) # NoName
    PROVE  NameOf(eventKindNames, k) = eventKindNames[EventState + 1] <=> k = EventState
<1>1. NameOf(eventKindNames, EventState) = eventKindNames[EventState + 1]
  BY DEF NameOf, EventState, eventKindNames
<1>2. NameOf(eventKindNames, EventState) # NoName
  BY <1>1, NamesAreNamed DEF EventState, eventKindNames
<1>3. EventState \in Int
  BY DEF EventState
<1>4. QED
  BY <1>1, <1>2, <1>3, KindTable, NameRestores

LEMMA StateWritten ==
    ASSUME NEW e \in EventValues, Encodable(e)
    PROVE  LET w == EncodeEvent(e)
           IN  /\ w.kind \in Strings /\ Named(eventKindNames, w.kind)
               /\ ValueOfName(eventKindNames, w.kind) = e.kind
               /\ w.state \in Strings /\ StateDecodable(w)
               /\ (IF w.state = NoName THEN 0 ELSE ValueOfName(loopStateNames, w.state)) = e.state
<1> DEFINE w == EncodeEvent(e)
<1>1. /\ e.kind \in Int /\ e.state \in Int /\ NameOf(eventKindNames, e.kind) # NoName
      /\ e.kind = EventState => NameOf(loopStateNames, e.state) # NoName
      /\ e.kind # EventState => e.state = 0
  BY DEF EventValues, Encodable
<1>2. /\ w.kind = NameOf(eventKindNames, e.kind)
      /\ w.state = IF e.kind = EventState THEN NameOf(loopStateNames, e.state) ELSE NoName
  BY DEF EncodeEvent
<1>3. /\ w.kind \in Strings /\ Named(eventKindNames, w.kind)
      /\ ValueOfName(eventKindNames, w.kind) = e.kind
      /\ w.kind = eventKindNames[EventState + 1] <=> e.kind = EventState
  BY <1>1, <1>2, KindTable, NameRestores, KindIsState
<1>4. CASE e.kind = EventState
  <2>1. /\ w.state \in Strings /\ Named(loopStateNames, w.state) /\ w.state # NoName
        /\ ValueOfName(loopStateNames, w.state) = e.state
    BY <1>1, <1>2, <1>4, StateTable, NameRestores
  <2>2. QED
    BY <1>3, <1>4, <2>1 DEF StateDecodable
<1>5. CASE e.kind # EventState
  <2>1. w.state = NoName /\ NoName \in Strings /\ e.state = 0
    BY <1>1, <1>2, <1>5, StringsAssumption DEF Literals
  <2>2. QED
    BY <1>3, <1>5, <2>1 DEF StateDecodable
<1>6. QED
  BY <1>4, <1>5

LEMMA StateRead ==
    ASSUME NEW w \in Records, Decodable(w)
    PROVE  LET e == DecodeEvent(w)
           IN  /\ e.kind \in Int /\ NameOf(eventKindNames, e.kind) # NoName /\ e.state \in Int
               /\ IF e.kind = EventState THEN NameOf(loopStateNames, e.state) # NoName
                                         ELSE e.state = 0
               /\ EncodeEvent(e).kind = w.kind /\ EncodeEvent(e).state = w.state
<1> DEFINE e == DecodeEvent(w)
<1>1. /\ Named(eventKindNames, w.kind) /\ StateDecodable(w)
      /\ e.kind = ValueOfName(eventKindNames, w.kind)
      /\ e.state = IF w.state = NoName THEN 0 ELSE ValueOfName(loopStateNames, w.state)
  BY DEF Decodable, DecodeEvent
<1>2. /\ e.kind \in Int /\ NameOf(eventKindNames, e.kind) = w.kind /\ w.kind # NoName
      /\ w.kind = eventKindNames[EventState + 1] <=> e.kind = EventState
  BY <1>1, KindTable, ValueRestores, KindIsState
<1>3. /\ EncodeEvent(e).kind = NameOf(eventKindNames, e.kind)
      /\ EncodeEvent(e).state = IF e.kind = EventState
                                THEN NameOf(loopStateNames, e.state) ELSE NoName
  BY DEF EncodeEvent
<1>4. CASE e.kind = EventState
  <2>1. Named(loopStateNames, w.state)
    BY <1>1, <1>2, <1>4 DEF StateDecodable
  <2>2. /\ ValueOfName(loopStateNames, w.state) \in Int /\ w.state # NoName
        /\ NameOf(loopStateNames, ValueOfName(loopStateNames, w.state)) = w.state
    BY <2>1, StateTable, ValueRestores
  <2>3. QED
    BY <1>1, <1>2, <1>3, <1>4, <2>2
<1>5. CASE e.kind # EventState
  <2>1. w.state = NoName
    BY <1>1, <1>2, <1>5 DEF StateDecodable
  <2>2. QED
    BY <1>1, <1>2, <1>3, <1>5, <2>1
<1>6. QED
  BY <1>4, <1>5

LEMMA WaitWritten ==
    ASSUME NEW s \in {Nil} \cup SessionValues, s # Nil => Marshals(s)
    PROVE  LET w == OrNil(s, LAMBDA x : [session |-> Marshal(x)])
           IN  /\ w \in {Nil} \cup WireWaits /\ (w = Nil <=> s = Nil)
               /\ w # Nil => w.session # Nil /\ Unmarshals(w.session)
               /\ OrNil(w, decodeWait) = IF s = Nil THEN Nil ELSE [s EXCEPT !.load = JSON(@)]
<1>1. CASE s = Nil
  BY <1>1 DEF OrNil
<1>2. CASE s # Nil
  <2>1. /\ s \in SessionValues /\ Marshal(s) \in WireSessions /\ Unmarshals(Marshal(s))
        /\ UnmarshalSession(Marshal(s)) = [s EXCEPT !.load = JSON(@)]
    BY <1>2, SessionWritten
  <2>2. Marshal(s) # Nil /\ [session |-> Marshal(s)] \in WireWaits
    BY <2>1, NilAssumption DEF WireWaits
  <2>3. [session |-> Marshal(s)] # Nil
    BY <2>2, NilAssumption
  <2>4. decodeWait([session |-> Marshal(s)]) = [s EXCEPT !.load = JSON(@)]
    BY <2>1, <2>2 DEF decodeWait
  <2>5. QED
    BY <1>2, <2>1, <2>2, <2>3, <2>4 DEF OrNil
<1>3. QED
  BY <1>1, <1>2

LEMMA WaitRead ==
    ASSUME NEW w \in {Nil} \cup WireWaits, w # Nil /\ w.session # Nil => Unmarshals(w.session)
    PROVE  LET s == OrNil(w, decodeWait)
           IN  /\ s \in {Nil} \cup SessionValues /\ (s = Nil <=> w = Nil)
               /\ w # Nil => (Marshals(s) <=> w.session # Nil)
               /\ w # Nil /\ w.session # Nil =>
                     OrNil(s, LAMBDA x : [session |-> Marshal(x)]) = w
<1>1. CASE w = Nil
  BY <1>1 DEF OrNil
<1>2. CASE w # Nil /\ w.session = Nil
  <2>1. OrNil(w, decodeWait) = ZeroSession
    BY <1>2 DEF OrNil, decodeWait
  <2>2. ZeroSession \in SessionValues /\ ~Marshals(ZeroSession)
    BY StringsAssumption DEF ZeroSession, SessionValues, Marshals, valid, Literals
  <2>3. QED
    BY <1>2, <2>1, <2>2, NilAssumption
<1>3. CASE w # Nil /\ w.session # Nil
  <2>1. w \in WireWaits /\ w.session \in WireSessions
    BY <1>3 DEF WireWaits
  <2>2. OrNil(w, decodeWait) = UnmarshalSession(w.session)
    BY <1>3 DEF OrNil, decodeWait
  <2>3. /\ UnmarshalSession(w.session) \in SessionValues /\ Marshals(UnmarshalSession(w.session))
        /\ Marshal(UnmarshalSession(w.session)) = w.session
    BY <1>3, <2>1, SessionRead
  <2>4. [session |-> w.session] = w
    BY <2>1 DEF WireWaits
  <2>5. UnmarshalSession(w.session) # Nil
    BY <2>3, NilAssumption
  <2>6. QED
    BY <1>3, <2>2, <2>3, <2>4, <2>5 DEF OrNil
<1>4. QED
  BY <1>1, <1>2, <1>3

LEMMA VerdictPointer ==
    /\ \A v \in {Nil} \cup VerdictValues :
          (v # Nil => NameOf(verdictNames, v.ruling) # NoName) =>
             /\ OrNil(v, encodeVerdict) \in {Nil} \cup WireVerdicts
             /\ OrNil(v, encodeVerdict) = Nil <=> v = Nil
             /\ v # Nil => v \in VerdictValues /\ OrNil(v, encodeVerdict) = encodeVerdict(v)
    /\ \A w \in {Nil} \cup WireVerdicts :
          (w # Nil => Named(verdictNames, w.ruling)) =>
             /\ OrNil(w, decodeVerdict) \in {Nil} \cup VerdictValues
             /\ OrNil(w, decodeVerdict) = Nil <=> w = Nil
             /\ w # Nil => w \in WireVerdicts /\ OrNil(w, decodeVerdict) = decodeVerdict(w)
<1>1. \A v \in VerdictValues : NameOf(verdictNames, v.ruling) # NoName =>
         encodeVerdict(v) \in WireVerdicts
  BY VerdictWritten
<1>2. \A w \in WireVerdicts : Named(verdictNames, w.ruling) =>
         decodeVerdict(w) \in VerdictValues
  BY VerdictRead
<1>3. QED
  BY <1>1, <1>2, NilAssumption DEF OrNil

(* What this build writes is a record it reads. *)
LEMMA EventWritten ==
    ASSUME NEW e \in EventValues, Encodable(e)
    PROVE  LET w == EncodeEvent(e) IN w \in Records /\ Decodable(w) /\ OwnWords(w)
<1> DEFINE w == EncodeEvent(e)
<1>1. /\ e.err \in {Nil} \cup ErrorValues /\ e.verdict \in {Nil} \cup VerdictValues
      /\ e.wait \in {Nil} \cup SessionValues /\ e.text \in Strings
      /\ e.dropped \in Seq(Strings)
      /\ e.verdict # Nil => NameOf(verdictNames, e.verdict.ruling) # NoName
      /\ e.wait # Nil => Marshals(e.wait)
  BY DEF EventValues, Encodable
<1>2. /\ w.version = eventVersion /\ w.text = JSON(e.text) /\ w.dropped = e.dropped
      /\ w.err = OrNil(e.err, wireOfErr) /\ w.verdict = OrNil(e.verdict, encodeVerdict)
      /\ w.wait = OrNil(e.wait, LAMBDA s : [session |-> Marshal(s)])
  BY DEF EncodeEvent
<1>3. w.err \in {Nil} \cup WireErrors /\ OwnCode(w.err)
  BY <1>1, <1>2, PointerWritten
<1>4. /\ w.verdict \in {Nil} \cup WireVerdicts
      /\ w.verdict # Nil => Named(verdictNames, w.verdict.ruling) /\ OwnCode(w.verdict.err)
  BY <1>1, <1>2, VerdictPointer, VerdictWritten
<1>5. /\ w.wait \in {Nil} \cup WireWaits
      /\ w.wait # Nil => w.wait.session # Nil /\ Unmarshals(w.wait.session)
  BY <1>1, <1>2, WaitWritten
<1>6. w.text \in UTF8 /\ w.version \in Int
  <2>1. eventVersion \in Int
    BY DEF eventVersion
  <2>2. QED
    BY <1>1, <1>2, <2>1, JSONText
<1>7. w.kind \in Strings /\ Named(eventKindNames, w.kind) /\ w.state \in Strings
      /\ StateDecodable(w)
  BY StateWritten
<1>8. w = [version |-> w.version, kind |-> w.kind, state |-> w.state, err |-> w.err,
           verdict |-> w.verdict, wait |-> w.wait, text |-> w.text, dropped |-> w.dropped]
  BY DEF EncodeEvent
<1>9. w \in Records
  BY <1>1, <1>2, <1>3, <1>4, <1>5, <1>6, <1>7, <1>8 DEF Records
<1>10. w # Nil
  BY <1>9, NilAssumption
<1>11. QED
  BY <1>2, <1>3, <1>4, <1>5, <1>7, <1>9, <1>10 DEF Decodable, OwnWords

LEMMA LossNamed ==
    ASSUME NEW d \in Seq(Strings), NEW lost, NEW what \in Strings
    PROVE  reportLoss(d, lost, what) \in Seq(Strings)
  BY DEF reportLoss

(* What is read is an event, and written again it is the record it was. *)
LEMMA EventRead ==
    ASSUME NEW w \in Records, Decodable(w)
    PROVE  /\ DecodeEvent(w) \in EventValues
           /\ Encodable(DecodeEvent(w)) <=> ~Handleless(w)
<1> DEFINE e == DecodeEvent(w)
<1>1. /\ w.err \in {Nil} \cup WireErrors /\ w.verdict \in {Nil} \cup WireVerdicts
      /\ w.wait \in {Nil} \cup WireWaits /\ w.text \in UTF8 /\ w.dropped \in Seq(Strings)
      /\ w.verdict # Nil => Named(verdictNames, w.verdict.ruling)
      /\ w.wait # Nil /\ w.wait.session # Nil => Unmarshals(w.wait.session)
  BY DEF Records, Decodable
<1>2. /\ e.text = w.text /\ e.err = OrNil(w.err, errOf)
      /\ e.verdict = OrNil(w.verdict, decodeVerdict) /\ e.wait = OrNil(w.wait, decodeWait)
      /\ e.dropped = reportLoss(reportLoss(w.dropped, IdentityLost(w.err), "err.identity"),
                                w.verdict # Nil /\ IdentityLost(w.verdict.err),
                                "verdict.err.identity")
  BY DEF DecodeEvent
<1>3. e.err \in {Nil} \cup ErrorValues
  BY <1>1, <1>2, PointerRead
<1>4. /\ e.verdict \in {Nil} \cup VerdictValues
      /\ e.verdict # Nil => NameOf(verdictNames, e.verdict.ruling) # NoName
  BY <1>1, <1>2, VerdictPointer, VerdictRead
<1>5. /\ e.wait \in {Nil} \cup SessionValues /\ (e.wait = Nil <=> w.wait = Nil)
      /\ w.wait # Nil => (Marshals(e.wait) <=> w.wait.session # Nil)
  BY <1>1, <1>2, WaitRead
<1>6. e.text \in Strings
  BY <1>1, <1>2, JSONText
<1>7. e.dropped \in Seq(Strings)
  BY <1>1, <1>2, LossNamed, StringsAssumption DEF Literals
<1>8. /\ e.kind \in Int /\ NameOf(eventKindNames, e.kind) # NoName /\ e.state \in Int
      /\ IF e.kind = EventState THEN NameOf(loopStateNames, e.state) # NoName
                                ELSE e.state = 0
  BY StateRead
<1>9. e = [kind |-> e.kind, state |-> e.state, err |-> e.err, verdict |-> e.verdict,
           wait |-> e.wait, text |-> e.text, dropped |-> e.dropped]
  BY DEF DecodeEvent
<1>10. e \in EventValues
  BY <1>3, <1>4, <1>5, <1>6, <1>7, <1>8, <1>9 DEF EventValues
<1>11. Encodable(e) <=> ~Handleless(w)
  BY <1>4, <1>5, <1>8 DEF Encodable, Handleless
<1>12. QED
  BY <1>10, <1>11

SameBut(x, w, err, verdict, dropped) ==
    x = [w EXCEPT !.err = err, !.verdict = verdict, !.dropped = dropped]

LEMMA RecordExcept ==
    ASSUME NEW w \in Records, NEW x \in Records, x.version = w.version, x.kind = w.kind,
           x.state = w.state, x.wait = w.wait, x.text = w.text
    PROVE  SameBut(x, w, x.err, x.verdict, x.dropped)
<1> DEFINE y == [w EXCEPT !.err = x.err, !.verdict = x.verdict, !.dropped = x.dropped]
<1>1. y \in Records
  BY DEF Records
<1>2. /\ y.version = w.version /\ y.kind = w.kind /\ y.state = w.state /\ y.err = x.err
      /\ y.verdict = x.verdict /\ y.wait = w.wait /\ y.text = w.text /\ y.dropped = x.dropped
  BY DEF Records
<1> HIDE DEF y
<1>3. x = y
  BY <1>1, <1>2 DEF Records
<1>4. QED
  BY <1>3 DEF y, SameBut

LEMMA EventRewritten ==
    ASSUME NEW w \in Records, Decodable(w), ~Handleless(w)
    PROVE  EncodeEvent(DecodeEvent(w)) =
              [w EXCEPT !.err = KnownCode(w.err), !.verdict = KnownVerdict(w.verdict),
                        !.dropped = DecodeEvent(w).dropped]
<1> DEFINE e == DecodeEvent(w)
           x == EncodeEvent(e)
<1>1. /\ w.err \in {Nil} \cup WireErrors /\ w.verdict \in {Nil} \cup WireVerdicts
      /\ w.wait \in {Nil} \cup WireWaits /\ w.text \in UTF8 /\ w.version = eventVersion
      /\ w.verdict # Nil => Named(verdictNames, w.verdict.ruling)
      /\ w.wait # Nil => w.wait.session # Nil /\ Unmarshals(w.wait.session)
  BY DEF Records, Decodable, Handleless
<1>2. /\ e.text = w.text /\ e.err = OrNil(w.err, errOf)
      /\ e.verdict = OrNil(w.verdict, decodeVerdict) /\ e.wait = OrNil(w.wait, decodeWait)
  BY DEF DecodeEvent
<1>3. /\ x.version = eventVersion /\ x.text = JSON(e.text) /\ x.dropped = e.dropped
      /\ x.err = OrNil(e.err, wireOfErr) /\ x.verdict = OrNil(e.verdict, encodeVerdict)
      /\ x.wait = OrNil(e.wait, LAMBDA s : [session |-> Marshal(s)])
  BY DEF EncodeEvent
<1>4. x.kind = w.kind /\ x.state = w.state
  BY StateRead
<1>5. x.err = KnownCode(w.err)
  BY <1>1, <1>2, <1>3, PointerRead
<1>6. x.verdict = KnownVerdict(w.verdict)
  <2>1. CASE w.verdict = Nil
    BY <1>2, <1>3, <2>1 DEF OrNil, KnownVerdict
  <2>2. CASE w.verdict # Nil
    <3>1. e.verdict = decodeVerdict(w.verdict) /\ e.verdict # Nil /\ w.verdict \in WireVerdicts
      BY <1>1, <1>2, <2>2, VerdictPointer
    <3>2. x.verdict = encodeVerdict(decodeVerdict(w.verdict))
      BY <1>3, <3>1 DEF OrNil
    <3>3. QED
      BY <1>1, <2>2, <3>1, <3>2, VerdictRead DEF KnownVerdict
  <2>3. QED
    BY <2>1, <2>2
<1>7. x.wait = w.wait
  <2>1. CASE w.wait = Nil
    BY <1>2, <1>3, <2>1 DEF OrNil
  <2>2. CASE w.wait # Nil
    BY <1>1, <1>2, <1>3, <2>2, WaitRead
  <2>3. QED
    BY <2>1, <2>2
<1>8. x.text = w.text
  BY <1>1, <1>2, <1>3, JSONText
<1>9. x \in Records
  BY EventRead, EventWritten
<1>10. SameBut(x, w, x.err, x.verdict, x.dropped)
  BY <1>1, <1>3, <1>4, <1>7, <1>8, <1>9, RecordExcept
<1>11. x.dropped = DecodeEvent(w).dropped
  BY <1>3
<1> HIDE DEF e, x
<1>12. SameBut(x, w, KnownCode(w.err), KnownVerdict(w.verdict), DecodeEvent(w).dropped)
  BY <1>5, <1>6, <1>10, <1>11
<1>13. QED
  BY <1>12 DEF e, x, SameBut

-----------------------------------------------------------------------------
(* One journal after another: the losses are named on the first and stay.   *)

Restored(e) == DecodeEvent(EncodeEvent(e))

VerdictLost(w) == w.verdict # Nil /\ IdentityLost(w.verdict.err)

LEMMA PairAppended ==
    ASSUME NEW a, NEW b
    PROVE  Append(<<a>>, b) = <<a, b>>
<1> DEFINE S == {a, b}
           one == <<a>>
<1>1. one \in Seq(S) /\ Len(one) = 1 /\ one[1] = a /\ <<a, b>> \in Seq(S) /\ b \in S
  OBVIOUS
<1> HIDE DEF S, one
<1>2. /\ Append(one, b) \in Seq(S) /\ Len(Append(one, b)) = Len(one) + 1
      /\ \A i \in 1 .. Len(one) : Append(one, b)[i] = one[i]
      /\ Append(one, b)[Len(one) + 1] = b
  BY <1>1, AppendProperties
<1>3. Len(Append(one, b)) = 2 /\ Append(one, b)[1] = a /\ Append(one, b)[2] = b
  BY <1>1, <1>2
<1>4. Len(<<a, b>>) = 2 /\ <<a, b>>[1] = a /\ <<a, b>>[2] = b
  OBVIOUS
<1>5. \A i \in 1 .. Len(Append(one, b)) : Append(one, b)[i] = <<a, b>>[i]
  BY <1>3, <1>4
<1>6. Append(one, b) = <<a, b>>
  BY <1>1, <1>2, <1>3, <1>4, <1>5, SeqEqual
<1>7. QED
  BY <1>6 DEF one

LEMMA LossesListed ==
    ASSUME NEW w \in Records, w.dropped = << >>
    PROVE  LET d == DecodeEvent(w).dropped
           IN  /\ IdentityLost(w.err) /\ VerdictLost(w) =>
                     d = <<"err.identity", "verdict.err.identity">>
               /\ IdentityLost(w.err) /\ ~VerdictLost(w) => d = <<"err.identity">>
               /\ ~IdentityLost(w.err) /\ VerdictLost(w) => d = <<"verdict.err.identity">>
               /\ ~IdentityLost(w.err) /\ ~VerdictLost(w) => d = << >>
<1> DEFINE first == reportLoss(<< >>, IdentityLost(w.err), "err.identity")
<1>1. DecodeEvent(w).dropped = reportLoss(first, VerdictLost(w), "verdict.err.identity")
  BY DEF DecodeEvent, VerdictLost
<1>2. /\ IdentityLost(w.err) => first = <<"err.identity">>
      /\ ~IdentityLost(w.err) => first = << >>
  BY DEF reportLoss, ToSet
<1>3. "verdict.err.identity" \notin ToSet(<<"err.identity">>)
      /\ "verdict.err.identity" \notin ToSet(<< >>)
  BY DEF ToSet
<1>4. /\ Append(<<"err.identity">>, "verdict.err.identity")
            = <<"err.identity", "verdict.err.identity">>
      /\ Append(<< >>, "verdict.err.identity") = <<"verdict.err.identity">>
  BY PairAppended
<1> HIDE DEF first
<1>5. QED
  BY <1>1, <1>2, <1>3, <1>4 DEF reportLoss

LEMMA LossesStand ==
    ASSUME NEW w \in Records,
           IdentityLost(w.err) => "err.identity" \in ToSet(w.dropped),
           VerdictLost(w) => "verdict.err.identity" \in ToSet(w.dropped)
    PROVE  DecodeEvent(w).dropped = w.dropped
  BY DEF DecodeEvent, reportLoss, VerdictLost

LEMMA LossesCounted ==
    LET A == "err.identity"  B == "verdict.err.identity"
        Count(d, what) == Cardinality({i \in DOMAIN d : d[i] = what})
    IN  /\ Count(<<A, B>>, A) = 1 /\ Count(<<A, B>>, B) = 1
        /\ Count(<<A>>, A) = 1 /\ Count(<<A>>, B) = 0
        /\ Count(<<B>>, A) = 0 /\ Count(<<B>>, B) = 1
        /\ Count(<< >>, A) = 0 /\ Count(<< >>, B) = 0
<1> DEFINE A == "err.identity"
           B == "verdict.err.identity"
<1>1. /\ {i \in DOMAIN <<A, B>> : <<A, B>>[i] = A} = {1}
      /\ {i \in DOMAIN <<A, B>> : <<A, B>>[i] = B} = {2}
  OBVIOUS
<1>2. /\ {i \in DOMAIN <<A>> : <<A>>[i] = A} = {1}
      /\ {i \in DOMAIN <<A>> : <<A>>[i] = B} = {}
  OBVIOUS
<1>3. /\ {i \in DOMAIN <<B>> : <<B>>[i] = A} = {}
      /\ {i \in DOMAIN <<B>> : <<B>>[i] = B} = {1}
  OBVIOUS
<1>4. /\ {i \in DOMAIN << >> : << >>[i] = A} = {}
      /\ {i \in DOMAIN << >> : << >>[i] = B} = {}
  OBVIOUS
<1>5. Cardinality({1}) = 1 /\ Cardinality({2}) = 1 /\ Cardinality({}) = 0
  BY FS_Singleton, FS_EmptySet
<1>6. QED
  BY <1>1, <1>2, <1>3, <1>4, <1>5

(* A second journal changes nothing. *)
LEMMA RestoredAgain ==
    ASSUME NEW e \in EventValues, Encodable(e), e.dropped = << >>
    PROVE  /\ Restored(e) \in EventValues /\ Encodable(Restored(e))
           /\ Restored(Restored(e)) = Restored(e)
<1> DEFINE w == EncodeEvent(e)
           r == DecodeEvent(w)
           x == EncodeEvent(r)
<1>1. w \in Records /\ Decodable(w) /\ OwnWords(w) /\ w.dropped = << >>
  BY EventWritten DEF EncodeEvent
<1>2. ~Handleless(w)
  BY <1>1 DEF OwnWords, Handleless
<1>3. r \in EventValues /\ Encodable(r)
  BY <1>1, <1>2, EventRead
<1>4. x \in Records
  BY <1>3, EventWritten
<1>5. KnownCode(w.err) = w.err
  BY <1>1, OwnCodeKnown DEF OwnWords, Records
<1>6. KnownVerdict(w.verdict) = w.verdict
  <2>1. CASE w.verdict = Nil
    BY <2>1 DEF KnownVerdict
  <2>2. CASE w.verdict # Nil
    <3>1. w.verdict \in WireVerdicts
      BY <1>1, <2>2 DEF Records
    <3>2. w.verdict.err \in {Nil} \cup WireErrors /\ OwnCode(w.verdict.err)
      BY <1>1, <2>2, <3>1 DEF OwnWords, WireVerdicts
    <3>3. KnownCode(w.verdict.err) = w.verdict.err
      BY <3>2, OwnCodeKnown
    <3>4. QED
      BY <2>2, <3>1, <3>3 DEF KnownVerdict, WireVerdicts
  <2>3. QED
    BY <2>1, <2>2
<1>7. x = [w EXCEPT !.err = w.err, !.verdict = w.verdict, !.dropped = r.dropped]
  BY <1>1, <1>2, <1>5, <1>6, EventRewritten
<1> HIDE DEF w, r, x
<1>8. /\ x.kind = w.kind /\ x.state = w.state /\ x.err = w.err /\ x.verdict = w.verdict
      /\ x.wait = w.wait /\ x.text = w.text /\ x.dropped = r.dropped
  BY <1>1, <1>7 DEF Records
<1>9. /\ IdentityLost(w.err) => "err.identity" \in ToSet(r.dropped)
      /\ VerdictLost(w) => "verdict.err.identity" \in ToSet(r.dropped)
  BY <1>1, LossesListed DEF r, ToSet
<1>10. DecodeEvent(x).dropped = r.dropped
  BY <1>4, <1>8, <1>9, LossesStand DEF VerdictLost
<1>11. DecodeEvent(x) = r
  BY <1>8, <1>10 DEF DecodeEvent, r
<1>12. QED
  BY <1>3, <1>11 DEF Restored, w, r, x

-----------------------------------------------------------------------------
(* What the reader has, against what was sent.                              *)

(* An error came back as mere text. *)
Shadowed(x) == x # Nil /\ LostError(x)

LEMMA ErrorCarried ==
    ASSUME NEW x \in {Nil} \cup ErrorValues
    PROVE  LET w == OrNil(x, wireOfErr)
               y == OrNil(w, errOf)
           IN  /\ (y = Nil <=> x = Nil) /\ (IdentityLost(w) <=> Shadowed(x))
               /\ x # Nil =>
                     /\ y.text = JSON(x.text) /\ y.is \subseteq x.is
                     /\ Cardinality(x.is) = 1 /\ x.is \subseteq Sentinels => y.is = x.is
                     /\ y.is = {} <=> Shadowed(x)
<1>1. CASE x = Nil
  BY <1>1 DEF OrNil, IdentityLost, Shadowed
<1>2. CASE x # Nil
  <2> DEFINE w == wireOfErr(x)
  <2>1. x \in ErrorValues /\ w \in WireErrors /\ w # Nil /\ errOf(w) # Nil
    BY <1>2, ErrorWritten, ErrorRead, NilAssumption
  <2>2. /\ w.text = JSON(x.text)
        /\ IF LostError(x) THEN w.code = NoName ELSE w.code \in Sentinels \cap x.is
    BY <2>1, ErrorWritten
  <2>3. /\ errOf(w).text = w.text
        /\ errOf(w).is = IF w.code \in Sentinels THEN {w.code} ELSE {}
    BY <2>1, ErrorRead
  <2>4. w.code \in Sentinels <=> ~LostError(x)
    BY <2>2, SentinelCodes, NamesAreNamed
  <2>5. IdentityLost(w) <=> Shadowed(x)
    BY <1>2, <2>1, <2>4, SentinelCodes DEF IdentityLost, Shadowed
  <2>6. ASSUME Cardinality(x.is) = 1, x.is \subseteq Sentinels PROVE errOf(w).is = x.is
    <3>1. IsFiniteSet(Sentinels)
      <4>1. IsFiniteSet({frameworkErrs[1]} \cup {frameworkErrs[2]} \cup {frameworkErrs[3]})
        BY FS_Singleton, FS_Union
      <4>2. Sentinels = {frameworkErrs[1]} \cup {frameworkErrs[2]} \cup {frameworkErrs[3]}
        BY SentinelCodes
      <4>3. QED
        BY <4>1, <4>2
    <3>2. IsFiniteSet(x.is)
      BY <2>6, <3>1, FS_Subset
    <3>3. PICK s : x.is = {s}
      BY <2>6, <3>2, FS_Singleton
    <3>4. ~LostError(x)
      BY <2>6, <3>3 DEF LostError
    <3>5. QED
      BY <2>2, <2>3, <3>3, <3>4
  <2>7. errOf(w).is \subseteq x.is /\ (errOf(w).is = {} <=> Shadowed(x))
    BY <1>2, <2>2, <2>3, <2>4 DEF Shadowed
  <2>8. OrNil(x, wireOfErr) = w /\ OrNil(w, errOf) = errOf(w)
    BY <1>2, <2>1 DEF OrNil
  <2>9. QED
    BY <1>2, <2>1, <2>2, <2>3, <2>5, <2>6, <2>7, <2>8
<1>3. QED
  BY <1>1, <1>2

(* What was read once: the event, field by field, and its losses. *)
LEMMA EventCarried ==
    ASSUME NEW e \in EventValues, Encodable(e), e.dropped = << >>
    PROVE  LET r == Restored(e)
               lost == Shadowed(e.err)
               vlost == e.verdict # Nil /\ Shadowed(e.verdict.err)
           IN  /\ r.kind = e.kind /\ r.state = e.state /\ r.text = JSON(e.text)
               /\ r.err = OrNil(OrNil(e.err, wireOfErr), errOf)
               /\ r.verdict = Nil <=> e.verdict = Nil
               /\ e.verdict # Nil =>
                     /\ r.verdict.ruling = e.verdict.ruling
                     /\ r.verdict.err = OrNil(OrNil(e.verdict.err, wireOfErr), errOf)
               /\ r.wait = IF e.wait = Nil THEN Nil ELSE [e.wait EXCEPT !.load = JSON(@)]
               /\ lost /\ vlost => r.dropped = <<"err.identity", "verdict.err.identity">>
               /\ lost /\ ~vlost => r.dropped = <<"err.identity">>
               /\ ~lost /\ vlost => r.dropped = <<"verdict.err.identity">>
               /\ ~lost /\ ~vlost => r.dropped = << >>
<1> DEFINE w == EncodeEvent(e)
           r == DecodeEvent(w)
<1>1. w \in Records /\ Decodable(w)
  BY EventWritten
<1>2. /\ e.err \in {Nil} \cup ErrorValues /\ e.verdict \in {Nil} \cup VerdictValues
      /\ e.wait \in {Nil} \cup SessionValues
      /\ e.verdict # Nil => NameOf(verdictNames, e.verdict.ruling) # NoName
      /\ e.wait # Nil => Marshals(e.wait)
  BY DEF EventValues, Encodable
<1>3. /\ w.text = JSON(e.text) /\ w.dropped = << >> /\ w.err = OrNil(e.err, wireOfErr)
      /\ w.verdict = OrNil(e.verdict, encodeVerdict)
      /\ w.wait = OrNil(e.wait, LAMBDA s : [session |-> Marshal(s)])
  BY DEF EncodeEvent
<1>4. /\ r.text = w.text /\ r.err = OrNil(w.err, errOf)
      /\ r.verdict = OrNil(w.verdict, decodeVerdict) /\ r.wait = OrNil(w.wait, decodeWait)
      /\ r.kind = ValueOfName(eventKindNames, w.kind)
      /\ r.state = IF w.state = NoName THEN 0 ELSE ValueOfName(loopStateNames, w.state)
  BY DEF DecodeEvent
<1>5. r.kind = e.kind /\ r.state = e.state
  BY <1>4, StateWritten
<1>6. r.wait = IF e.wait = Nil THEN Nil ELSE [e.wait EXCEPT !.load = JSON(@)]
  BY <1>2, <1>3, <1>4, WaitWritten
<1>7. /\ r.verdict = Nil <=> e.verdict = Nil
      /\ VerdictLost(w) <=> e.verdict # Nil /\ Shadowed(e.verdict.err)
      /\ e.verdict # Nil =>
            /\ r.verdict.ruling = e.verdict.ruling
            /\ r.verdict.err = OrNil(OrNil(e.verdict.err, wireOfErr), errOf)
  <2>1. CASE e.verdict = Nil
    BY <1>3, <1>4, <2>1 DEF OrNil, VerdictLost
  <2>2. CASE e.verdict # Nil
    <3>1. e.verdict \in VerdictValues /\ w.verdict = encodeVerdict(e.verdict) /\ w.verdict # Nil
      BY <1>2, <1>3, <2>2, VerdictPointer
    <3>2. /\ w.verdict \in WireVerdicts /\ Named(verdictNames, w.verdict.ruling)
          /\ w.verdict.err = OrNil(e.verdict.err, wireOfErr)
          /\ ValueOfName(verdictNames, w.verdict.ruling) = e.verdict.ruling
      BY <1>2, <2>2, <3>1, VerdictWritten
    <3>3. r.verdict = decodeVerdict(w.verdict) /\ r.verdict # Nil
      BY <1>4, <3>1, <3>2, VerdictPointer
    <3>4. /\ r.verdict.ruling = ValueOfName(verdictNames, w.verdict.ruling)
          /\ r.verdict.err = OrNil(w.verdict.err, errOf)
      BY <3>2, <3>3, VerdictRead
    <3>5. e.verdict.err \in {Nil} \cup ErrorValues
      BY <3>1 DEF VerdictValues
    <3>6. IdentityLost(w.verdict.err) <=> Shadowed(e.verdict.err)
      BY <3>2, <3>5, ErrorCarried
    <3>7. QED
      BY <2>2, <3>1, <3>2, <3>3, <3>4, <3>6 DEF VerdictLost
  <2>3. QED
    BY <2>1, <2>2
<1>8. IdentityLost(w.err) <=> Shadowed(e.err)
  <2>1. e.err \in {Nil} \cup ErrorValues /\ w.err = OrNil(e.err, wireOfErr)
    BY <1>2, <1>3
  <2> HIDE DEF w
  <2>2. QED
    BY <2>1, ErrorCarried
<1>9. /\ IdentityLost(w.err) /\ VerdictLost(w) =>
            r.dropped = <<"err.identity", "verdict.err.identity">>
      /\ IdentityLost(w.err) /\ ~VerdictLost(w) => r.dropped = <<"err.identity">>
      /\ ~IdentityLost(w.err) /\ VerdictLost(w) => r.dropped = <<"verdict.err.identity">>
      /\ ~IdentityLost(w.err) /\ ~VerdictLost(w) => r.dropped = << >>
  BY <1>1, <1>3, LossesListed
<1>10. Restored(e) = r
  BY DEF Restored
<1> HIDE DEF r, w
<1>11. QED
  BY <1>3, <1>4, <1>5, <1>6, <1>7, <1>8, <1>9, <1>10

-----------------------------------------------------------------------------
(* The inductive invariant. *)

WireTypes ==
    /\ event \in EventValues /\ event.dropped = << >>
    /\ current \in EventValues /\ record \in {Nil} \cup Records
    /\ hops \in Nat /\ foreign \in BOOLEAN

(* A restored event is what its journal's record says. *)
Sourced ==
    pc = "read" \/ (pc = "live" /\ hops > 0) =>
        record \in Records /\ Decodable(record) /\ current = DecodeEvent(record)

(* Without a foreign record there are two events: as yielded, and restored. *)
Faithful ==
    ~foreign =>
        /\ pc = "live" /\ hops = 0 => current = event
        /\ pc = "read" \/ (pc = "live" /\ hops > 0) =>
              Encodable(event) /\ current = Restored(event)
        /\ pc = "written" =>
              /\ Encodable(event) /\ (current = event \/ current = Restored(event))
              /\ Encodable(current) /\ record = EncodeEvent(current)

Refusals ==
    /\ pc = "rejected" => foreign
    /\ pc = "refused" /\ hops > 0 => foreign /\ Handleless(record)
    /\ pc = "live" /\ hops = 0 => ~foreign

WireInv == WireTypes /\ Sourced /\ Faithful /\ Refusals

(* Another build's records, and damaged ones, are still records. *)
LEMMA AlteredTypes ==
    ASSUME NEW w \in Records, ~Handleless(w)
    PROVE  Altered(w) \subseteq {Nil} \cup Records
<1>1. /\ NoName \in Strings /\ "heartbeat" \in Strings /\ "sleeping" \in Strings
      /\ "budget-spent" \in Strings /\ "defer" \in Strings /\ "timer" \in Strings
  BY StringsAssumption DEF Literals
<1>2. "state" \in Strings /\ "text" \in Strings /\ "done" \in Strings
  <2>1. eventKindNames[1] = "text" /\ eventKindNames[4] = "state" /\ loopStateNames[6] = "done"
    BY DEF eventKindNames, loopStateNames
  <2>2. Len(eventKindNames) = 12 /\ Len(loopStateNames) = 7
    BY DEF eventKindNames, loopStateNames
  <2>3. /\ eventKindNames[1] \in Strings /\ eventKindNames[4] \in Strings
        /\ loopStateNames[6] \in Strings
    <3>1. eventKindNames \in Seq(Strings) /\ loopStateNames \in Seq(Strings)
      BY KindTable, StateTable DEF Table
    <3>2. \A names \in Seq(Strings) : \A n \in 1 .. Len(names) : names[n] \in Strings
      BY ElementOfSeq
    <3>3. 1 \in 1 .. 12 /\ 4 \in 1 .. 12 /\ 6 \in 1 .. 7
      OBVIOUS
    <3>4. QED
      BY <2>2, <3>1, <3>2, <3>3, Zenon
  <2>4. QED
    BY <2>1, <2>3
<1>3. \A v \in Int : [w EXCEPT !.version = v] \in Records
  BY DEF Records
<1>4. \A k \in Strings : [w EXCEPT !.kind = k] \in Records /\ [w EXCEPT !.state = k] \in Records
  BY DEF Records
<1>5. eventVersion - 1 \in Int /\ eventVersion + 1 \in Int /\ sessionVersion - 1 \in Int
  BY DEF eventVersion, sessionVersion
<1>6. \A x \in WireErrors : [w EXCEPT !.err = x] \in Records
  BY DEF Records
<1>7. w.err # Nil => [w EXCEPT !.err.code = "budget-spent"] \in Records
  <2>1. w.err # Nil => [w.err EXCEPT !.code = "budget-spent"] \in WireErrors
    BY <1>1 DEF Records, WireErrors
  <2>2. QED
    BY <1>6, <2>1
<1>8. w.verdict # Nil => [w EXCEPT !.verdict.ruling = "defer"] \in Records
  <2>1. w.verdict # Nil => [w.verdict EXCEPT !.ruling = "defer"] \in WireVerdicts
    BY <1>1 DEF Records, WireVerdicts
  <2>2. \A x \in WireVerdicts : [w EXCEPT !.verdict = x] \in Records
    BY DEF Records
  <2>3. QED
    BY <2>1, <2>2
<1>9. w.wait # Nil => /\ [w EXCEPT !.wait.session = Nil] \in Records
                      /\ [w EXCEPT !.wait.session.version = sessionVersion - 1] \in Records
                      /\ [w EXCEPT !.wait.session.round = 0] \in Records
                      /\ [w EXCEPT !.wait.session.ask = "timer"] \in Records
  <2> SUFFICES ASSUME w.wait # Nil
               PROVE  /\ [w EXCEPT !.wait.session = Nil] \in Records
                      /\ [w EXCEPT !.wait.session.version = sessionVersion - 1] \in Records
                      /\ [w EXCEPT !.wait.session.round = 0] \in Records
                      /\ [w EXCEPT !.wait.session.ask = "timer"] \in Records
    OBVIOUS
  <2>1. w.wait \in WireWaits /\ w.wait.session # Nil
    BY DEF Records, Handleless
  <2>2. w.wait.session \in WireSessions
    BY <2>1 DEF WireWaits
  <2>3. /\ [w.wait.session EXCEPT !.version = sessionVersion - 1] \in WireSessions
        /\ [w.wait.session EXCEPT !.round = 0] \in WireSessions
        /\ [w.wait.session EXCEPT !.ask = "timer"] \in WireSessions
    BY <1>1, <1>5, <2>2 DEF WireSessions
  <2>4. \A j \in {Nil} \cup WireSessions : [w.wait EXCEPT !.session = j] \in WireWaits
    BY <2>1 DEF WireWaits
  <2>5. \A x \in WireWaits : [w EXCEPT !.wait = x] \in Records
    BY DEF Records
  <2>6. QED
    BY <2>3, <2>4, <2>5
<1>10. /\ {[w EXCEPT !.version = v] : v \in {eventVersion - 1, eventVersion + 1}} \subseteq Records
       /\ {[w EXCEPT !.kind = k] : k \in {NoName, "heartbeat", "state", "text"}} \subseteq Records
       /\ {[w EXCEPT !.state = s] : s \in {NoName, "sleeping", "done"}} \subseteq Records
  BY <1>1, <1>2, <1>3, <1>4, <1>5
<1>11. /\ (IF w.err = Nil THEN {} ELSE {[w EXCEPT !.err.code = "budget-spent"]}) \subseteq Records
       /\ (IF w.verdict = Nil THEN {} ELSE {[w EXCEPT !.verdict.ruling = "defer"]})
              \subseteq Records
  BY <1>7, <1>8
<1>12. (IF w.wait = Nil THEN {}
        ELSE {[w EXCEPT !.wait.session = Nil],
              [w EXCEPT !.wait.session.version = sessionVersion - 1],
              [w EXCEPT !.wait.session.round = 0],
              [w EXCEPT !.wait.session.ask = "timer"]}) \subseteq Records
  BY <1>9
<1>13. QED
  BY <1>10, <1>11, <1>12, Zenon DEF Altered

LEMMA WireInit == Init => WireInv
<1> SUFFICES ASSUME Init PROVE WireInv
  OBVIOUS
<1>1. Bare \in EventValues /\ Bare.dropped = << >>
  BY StringsAssumption DEF Bare, EventValues, Literals
<1>2. "clean" \in Strings /\ "bytes" \in Strings
  BY StringsAssumption DEF Literals
<1>3. \A k \in Kinds, s \in States, t \in {"clean", "bytes"} :
         Said(k, s, t) \in EventValues /\ Said(k, s, t).dropped = << >>
  BY <1>1, <1>2, TablesAssumption DEF EventValues, Said
<1>4. Verdicts \subseteq VerdictValues
  BY TablesAssumption, ErrorsAssumption DEF Verdicts, VerdictValues
<1>5. \A k \in Kinds, x \in {Nil} \cup Errors, v \in {Nil} \cup Verdicts :
         Reported(k, x, v) \in EventValues /\ Reported(k, x, v).dropped = << >>
  BY <1>1, <1>4, TablesAssumption, ErrorsAssumption DEF EventValues, Reported
<1>6. Sessions \subseteq SessionValues
  BY <1>2, TablesAssumption DEF Sessions, SessionValues, ZeroSession
<1>7. \A k \in Kinds, s \in Sessions :
         Awaited(k, s) \in EventValues /\ Awaited(k, s).dropped = << >>
  BY <1>1, <1>6, TablesAssumption DEF EventValues, Awaited
<1>8. event \in EventValues /\ event.dropped = << >>
  <2>1. event \in Yielded
    BY DEF Init
  <2>2. \/ \E k \in Kinds, s \in States, t \in {"clean", "bytes"} : event = Said(k, s, t)
        \/ \E k \in Kinds, x \in {Nil} \cup Errors, v \in {Nil} \cup Verdicts :
               event = Reported(k, x, v)
        \/ \E k \in Kinds, s \in Sessions : event = Awaited(k, s)
    BY <2>1 DEF Yielded
  <2>3. QED
    BY <1>3, <1>5, <1>7, <2>2, Zenon
<1>9. current = event /\ record = Nil /\ foreign = FALSE /\ hops = 0 /\ pc = "live"
  BY DEF Init
<1>10. WireTypes /\ Sourced
  <2>1. WireTypes
    BY <1>8, <1>9 DEF WireTypes
  <2>2. Sourced
    BY <1>9 DEF Sourced
  <2>3. QED
    BY <2>1, <2>2
<1>11. Faithful /\ Refusals
  BY <1>9 DEF Faithful, Refusals
<1>12. QED
  BY <1>10, <1>11 DEF WireInv

LEMMA WireStep == WireInv /\ [Next]_vars => WireInv'
<1> SUFFICES ASSUME WireInv, [Next]_vars PROVE WireInv'
  OBVIOUS
<1>1. WireTypes /\ Sourced /\ Faithful /\ Refusals
  BY DEF WireInv
<1>2. Encodable(event) => /\ Restored(event) \in EventValues /\ Encodable(Restored(event))
                          /\ Restored(Restored(event)) = Restored(event)
  BY <1>1, RestoredAgain DEF WireTypes
<1>3. CASE Encode /\ Encodable(current)
  <2>1. /\ pc = "live" /\ pc' = "written" /\ record' = EncodeEvent(current)
        /\ UNCHANGED <<event, current, foreign, hops>>
    BY <1>3 DEF Encode
  <2>2. record' \in Records
    BY <1>1, <1>3, <2>1, EventWritten DEF WireTypes
  <2>3. WireTypes' /\ Sourced' /\ Refusals'
    BY <1>1, <2>1, <2>2 DEF WireTypes, Sourced, Refusals
  <2>4. ~foreign => /\ Encodable(event) /\ (current = event \/ current = Restored(event))
    BY <1>1, <1>3, <2>1 DEF Faithful, WireTypes
  <2>5. Faithful'
    <3>1. ~foreign' => /\ Encodable(event') /\ (current' = event' \/ current' = Restored(event'))
                       /\ Encodable(current') /\ record' = EncodeEvent(current')
      BY <1>3, <2>1, <2>4
    <3>2. QED
      BY <2>1, <3>1 DEF Faithful
  <2>6. QED
    BY <2>3, <2>5 DEF WireInv
<1>4. CASE Encode /\ ~Encodable(current)
  <2>1. /\ pc = "live" /\ pc' = "refused" /\ UNCHANGED <<event, record, current, foreign, hops>>
    BY <1>4 DEF Encode
  <2>2. hops > 0 => foreign /\ Handleless(record)
    <3>1. hops > 0 => Handleless(record)
      BY <1>1, <1>4, <2>1, EventRead DEF Sourced
    <3>2. hops > 0 => foreign
      BY <1>1, <1>2, <1>4, <2>1 DEF Faithful, WireTypes
    <3>3. QED
      BY <3>1, <3>2
  <2>3. WireTypes' /\ Sourced' /\ Faithful'
    BY <1>1, <2>1 DEF WireTypes, Sourced, Faithful
  <2>4. Refusals'
    BY <2>1, <2>2 DEF Refusals, Handleless
  <2>5. QED
    BY <2>3, <2>4 DEF WireInv
<1>5. CASE Alter
  <2>1. /\ pc = "written" /\ pc' = "written" /\ ~foreign /\ foreign' = TRUE
        /\ record' \in Altered(record) /\ UNCHANGED <<event, current, hops>>
    BY <1>5 DEF Alter
  <2>2. record \in Records /\ OwnWords(record)
    BY <1>1, <2>1, EventWritten DEF Faithful, WireTypes
  <2>3. record' \in {Nil} \cup Records
    BY <2>1, <2>2, AlteredTypes DEF OwnWords, Handleless
  <2>4. QED
    BY <1>1, <2>1, <2>3 DEF WireInv, WireTypes, Sourced, Faithful, Refusals
<1>6. CASE Decode /\ Decodable(record)
  <2>1. /\ pc = "written" /\ pc' = "read" /\ current' = DecodeEvent(record)
        /\ UNCHANGED <<event, record, foreign, hops>>
    BY <1>6 DEF Decode
  <2>2. record \in Records
    BY <1>1, <1>6 DEF WireTypes, Decodable
  <2>3. current' \in EventValues
    BY <1>6, <2>1, <2>2, EventRead
  <2>4. WireTypes' /\ Sourced' /\ Refusals'
    BY <1>1, <1>6, <2>1, <2>2, <2>3 DEF WireTypes, Sourced, Refusals
  <2>5. ~foreign => Encodable(event) /\ current' = Restored(event)
    <3>1. ~foreign => /\ Encodable(event) /\ (current = event \/ current = Restored(event))
                      /\ current' = Restored(current)
      BY <1>1, <2>1 DEF Faithful, Restored
    <3>2. QED
      BY <1>2, <3>1
  <2>6. Faithful'
    BY <2>1, <2>5 DEF Faithful
  <2>7. QED
    BY <2>4, <2>6 DEF WireInv
<1>7. CASE Decode /\ ~Decodable(record)
  <2>1. /\ pc = "written" /\ pc' = "rejected" /\ UNCHANGED <<event, current, record, foreign, hops>>
    BY <1>7 DEF Decode
  <2>2. foreign
    BY <1>1, <1>7, <2>1, EventWritten DEF Faithful, WireTypes
  <2>3. QED
    BY <1>1, <2>1, <2>2 DEF WireInv, WireTypes, Sourced, Faithful, Refusals
<1>8. CASE Relay
  <2>1. /\ pc = "read" /\ pc' = "live" /\ hops' = hops + 1 /\ hops \in Nat
        /\ UNCHANGED <<event, current, record, foreign>>
    BY <1>1, <1>8 DEF Relay, WireTypes
  <2>2. hops' > 0 /\ hops' # 0 /\ hops' \in Nat
    BY <2>1
  <2>3. QED
    BY <1>1, <2>1, <2>2 DEF WireInv, WireTypes, Sourced, Faithful, Refusals
<1>9. CASE UNCHANGED vars
  BY <1>1, <1>9 DEF vars, WireInv, WireTypes, Sourced, Faithful, Refusals, Handleless
<1>10. QED
  BY <1>3, <1>4, <1>5, <1>6, <1>7, <1>8, <1>9 DEF Next, Encode, Decode

LEMMA WireInvariant == Spec => []WireInv
  BY WireInit, WireStep, PTL DEF Spec

(* However many journals an event goes through, and whatever its enums, its *)
(* handle and its errors: it comes back with every enum and the handle, and *)
(* with each error that came back as mere text named once (EncodeEvent,     *)
(* DecodeEvent, reportLoss; eventwire.go 108-126, 285-293).                 *)
THEOREM LossesNamedOnce == Spec => []RestoredSaysWhatItLost
<1>1. WireInv => RestoredSaysWhatItLost
  <2> SUFFICES ASSUME WireInv, pc = "read", ~foreign
               PROVE  /\ current.kind = event.kind /\ current.state = event.state
                      /\ current.text = JSON(event.text)
                      /\ ErrorKept(event.err, current.err, "err.identity")
                      /\ IF event.verdict = Nil
                         THEN current.verdict = Nil /\ Times("verdict.err.identity") = 0
                         ELSE /\ current.verdict.ruling = event.verdict.ruling
                              /\ ErrorKept(event.verdict.err, current.verdict.err,
                                           "verdict.err.identity")
                      /\ IF event.wait = Nil THEN current.wait = Nil
                         ELSE current.wait = [event.wait EXCEPT !.load = JSON(@)]
    BY DEF RestoredSaysWhatItLost
  <2> DEFINE lost == Shadowed(event.err)
             vlost == event.verdict # Nil /\ Shadowed(event.verdict.err)
  <2>1. /\ event \in EventValues /\ event.dropped = << >> /\ Encodable(event)
        /\ current = Restored(event)
    BY DEF WireInv, WireTypes, Faithful
  <2>2. /\ current.kind = event.kind /\ current.state = event.state
        /\ current.text = JSON(event.text)
        /\ current.err = OrNil(OrNil(event.err, wireOfErr), errOf)
        /\ current.verdict = Nil <=> event.verdict = Nil
        /\ event.verdict # Nil =>
              /\ current.verdict.ruling = event.verdict.ruling
              /\ current.verdict.err = OrNil(OrNil(event.verdict.err, wireOfErr), errOf)
        /\ current.wait = IF event.wait = Nil THEN Nil
                                              ELSE [event.wait EXCEPT !.load = JSON(@)]
    BY <2>1, EventCarried
  <2>3. /\ lost /\ vlost => current.dropped = <<"err.identity", "verdict.err.identity">>
        /\ lost /\ ~vlost => current.dropped = <<"err.identity">>
        /\ ~lost /\ vlost => current.dropped = <<"verdict.err.identity">>
        /\ ~lost /\ ~vlost => current.dropped = << >>
    BY <2>1, EventCarried
  <2>4. /\ Times("err.identity") = IF lost THEN 1 ELSE 0
        /\ Times("verdict.err.identity") = IF vlost THEN 1 ELSE 0
    <3> HIDE DEF lost, vlost
    <3>1. CASE lost /\ vlost
      BY <2>3, <3>1, LossesCounted DEF Times
    <3>2. CASE lost /\ ~vlost
      BY <2>3, <3>2, LossesCounted DEF Times
    <3>3. CASE ~lost /\ vlost
      BY <2>3, <3>3, LossesCounted DEF Times
    <3>4. CASE ~lost /\ ~vlost
      BY <2>3, <3>4, LossesCounted DEF Times
    <3>5. QED
      BY <3>1, <3>2, <3>3, <3>4
  <2>5. event.err \in {Nil} \cup ErrorValues
    BY <2>1 DEF EventValues
  <2>6. ErrorKept(event.err, current.err, "err.identity")
    <3>1. /\ current.err = Nil <=> event.err = Nil
          /\ event.err # Nil =>
                /\ current.err.text = JSON(event.err.text) /\ current.err.is \subseteq event.err.is
                /\ Cardinality(event.err.is) = 1 /\ event.err.is \subseteq Sentinels =>
                      current.err.is = event.err.is
                /\ current.err.is = {} <=> lost
      BY <2>2, <2>5, ErrorCarried
    <3>2. lost => event.err # Nil
      BY DEF Shadowed
    <3> HIDE DEF lost
    <3>3. QED
      BY <2>4, <3>1, <3>2 DEF ErrorKept
  <2>7. ASSUME event.verdict # Nil
        PROVE  ErrorKept(event.verdict.err, current.verdict.err, "verdict.err.identity")
    <3>1. event.verdict.err \in {Nil} \cup ErrorValues
      BY <2>1, <2>7 DEF EventValues, VerdictValues
    <3>2. current.verdict.err = OrNil(OrNil(event.verdict.err, wireOfErr), errOf)
      BY <2>2, <2>7
    <3>3. /\ current.verdict.err = Nil <=> event.verdict.err = Nil
          /\ event.verdict.err # Nil =>
                /\ current.verdict.err.text = JSON(event.verdict.err.text)
                /\ current.verdict.err.is \subseteq event.verdict.err.is
                /\ Cardinality(event.verdict.err.is) = 1 /\ event.verdict.err.is \subseteq Sentinels =>
                      current.verdict.err.is = event.verdict.err.is
                /\ current.verdict.err.is = {} <=> vlost
      BY <2>7, <3>1, <3>2, ErrorCarried
    <3>4. vlost => event.verdict.err # Nil
      BY DEF Shadowed
    <3> HIDE DEF vlost
    <3>5. QED
      BY <2>4, <3>3, <3>4 DEF ErrorKept
  <2>8. event.verdict = Nil => ~vlost
    OBVIOUS
  <2> HIDE DEF lost, vlost
  <2>9. QED
    BY <2>2, <2>4, <2>6, <2>7, <2>8
<1>2. QED
  BY <1>1, WireInvariant, PTL

(* Whatever record is found, another build's or a damaged one: what this    *)
(* build wrote it reads, and what it reads it writes again as it was, but   *)
(* for a wait record without a handle (EncodeEvent, DecodeEvent; eventwire. *)
(* go 11, 138-143).                                                         *)
THEOREM RecordsReadable == Spec => []OnlyReadableRecords
<1>1. WireInv => OnlyReadableRecords
  <2> SUFFICES ASSUME WireInv PROVE OnlyReadableRecords
    OBVIOUS
  <2>1. /\ pc = "rejected" => foreign
        /\ pc = "refused" /\ hops > 0 => foreign /\ record.wait.session = Nil
    BY DEF WireInv, Refusals, Handleless
  <2>2. ASSUME pc = "read"
        PROVE  \/ record.wait # Nil /\ record.wait.session = Nil /\ ~Encodable(current)
               \/ /\ Encodable(current)
                  /\ EncodeEvent(current) =
                        [record EXCEPT !.err = KnownCode(record.err),
                                       !.verdict = KnownVerdict(record.verdict),
                                       !.dropped = current.dropped]
    <3>1. record \in Records /\ Decodable(record) /\ current = DecodeEvent(record)
      BY <2>2 DEF WireInv, Sourced
    <3>2. CASE Handleless(record)
      BY <3>1, <3>2, EventRead DEF Handleless
    <3>3. CASE ~Handleless(record)
      BY <3>1, <3>3, EventRead, EventRewritten
    <3>4. QED
      BY <3>2, <3>3
  <2>3. QED
    BY <2>1, <2>2 DEF OnlyReadableRecords
<1>2. QED
  BY <1>1, WireInvariant, PTL

=============================================================================
