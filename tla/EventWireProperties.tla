------------------------- MODULE EventWireProperties -------------------------
(* What a journal of events promises the host that reads it back.           *)
EXTENDS EventWire, FiniteSets

Sentinels == ToSet(frameworkErrs)

Times(what) == Cardinality({i \in DOMAIN current.dropped : current.dropped[i] = what})

(* One error against what the reader got in its place: the text as JSON     *)
(* carries it, no identity it never had, its sentinel if it held one alone, *)
(* and, when no identity is left, its name in Dropped, once.                *)
ErrorKept(was, got, what) ==
    /\ (got = Nil) = (was = Nil)
    /\ was # Nil =>
           /\ got.text = JSON(was.text)
           /\ got.is \subseteq was.is
           /\ Cardinality(was.is) = 1 /\ was.is \subseteq Sentinels => got.is = was.is
    /\ Times(what) = (IF was # Nil /\ got.is = {} THEN 1 ELSE 0)

(* However many journals an event went through, what this build wrote it    *)
(* reads back: every enum by its value, the handle whole, an error's one    *)
(* sentinel reachable though it was wrapped, and every error that came back *)
(* as mere text named in Dropped exactly once (eventwire.go 108-126,        *)
(* 285-293).                                                                *)
RestoredSaysWhatItLost ==
    pc = "read" /\ ~foreign =>
        /\ current.kind = event.kind /\ current.state = event.state
        /\ current.text = JSON(event.text)
        /\ ErrorKept(event.err, current.err, "err.identity")
        /\ IF event.verdict = Nil
           THEN current.verdict = Nil /\ Times("verdict.err.identity") = 0
           ELSE /\ current.verdict.ruling = event.verdict.ruling
                /\ ErrorKept(event.verdict.err, current.verdict.err, "verdict.err.identity")
        /\ IF event.wait = Nil THEN current.wait = Nil
           ELSE current.wait = [event.wait EXCEPT !.load = JSON(@)]

(* A code no table holds is not written again; it was reported lost. *)
KnownCode(w) == IF w # Nil /\ w.code \notin Sentinels THEN [w EXCEPT !.code = NoName] ELSE w
KnownVerdict(v) == IF v = Nil THEN Nil ELSE [v EXCEPT !.err = KnownCode(@)]

(* A journal holds no entry that can never be replayed (eventwire.go        *)
(* 138-143), and nothing is read as a guess (11): what this build wrote it  *)
(* never rejects; a record of another build, or a damaged one, is read only *)
(* as what it says, so that writing it again gives the same record; and     *)
(* what was read can be written, except a wait record that lost its handle, *)
(* which is read as a wait with no way to resume it.                        *)
OnlyReadableRecords ==
    /\ pc = "rejected" => foreign
    /\ pc = "refused" /\ hops > 0 => foreign /\ record.wait.session = Nil
    /\ pc = "read" =>
           \/ record.wait # Nil /\ record.wait.session = Nil /\ ~Encodable(current)
           \/ /\ Encodable(current)
              /\ EncodeEvent(current) =
                     [record EXCEPT !.err = KnownCode(record.err),
                                    !.verdict = KnownVerdict(record.verdict),
                                    !.dropped = current.dropped]

(* "Anything the wire cannot carry is still carried, but reported: the      *)
(* restored event says in Dropped which values arrived as shadows"          *)
(* (eventwire.go 13-14).  A restored event that names no loss is the event. *)
LossIsReported ==
    pc = "read" /\ ~foreign /\ current.dropped = << >> => current = event
=============================================================================
