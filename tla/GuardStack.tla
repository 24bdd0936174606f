------------------------------ MODULE GuardStack ------------------------------
(***************************************************************************)
(* Membranes composed into one: a stack of layers rules on a call or on an  *)
(* utterance, layer by layer.  A layer may rule, fail, or answer something  *)
(* this build has no name for.  A reason is the number of the layer that    *)
(* gave it.                                                                 *)
(***************************************************************************)
EXTENDS Integers, Sequences

CONSTANT Layers     \* the sizes of the stack to try

VARIABLES
    layers,     \* len(g)
    votes,      \* the answers of the layers asked so far
    asked,      \* the first layer that asked, 0 for none
    ruling,     \* what the stack rules, "none" while it has not
    reason      \* the layer that gave the reason, 0 for none

guardVars == <<layers, votes, asked, ruling, reason>>

LayerAnswers == {"Allow", "Ask", "Deny", "error", "unknown"}

(* An error and an unknown ruling have permitted nothing. *)
knownRuling(vote) == IF vote \in {"Allow", "Ask"} THEN vote ELSE "Deny"

GuardInit ==
    /\ layers \in Layers /\ votes = << >> /\ asked = 0
    /\ ruling = "none" /\ reason = 0

Rule(verdict, why) == ruling' = verdict /\ reason' = why

NoLayer ==
    /\ ruling = "none" /\ layers = 0
    /\ Rule("Deny", 0) /\ UNCHANGED <<layers, votes, asked>>

(* Mutant: the last layer that asks gives the reason, and hides a denial.   *)
LayerLastWins ==
    /\ ruling = "none" /\ Len(votes) < layers
    /\ \E vote \in LayerAnswers :
          /\ votes' = Append(votes, vote)
          /\ asked' = IF knownRuling(vote) = "Ask" THEN Len(votes) + 1 ELSE asked
          /\ IF knownRuling(vote) = "Deny" /\ asked = 0 THEN Rule("Deny", Len(votes) + 1)
                                                       ELSE UNCHANGED <<ruling, reason>>
    /\ UNCHANGED layers

(* The first denial ends the stack; the first question is remembered. *)
Layer ==
    /\ ruling = "none" /\ Len(votes) < layers
    /\ \E vote \in LayerAnswers :
          /\ votes' = Append(votes, vote)
          /\ asked' = IF knownRuling(vote) = "Ask" /\ asked = 0 THEN Len(votes) + 1 ELSE asked
          /\ IF knownRuling(vote) = "Deny" THEN Rule("Deny", Len(votes) + 1)
                                           ELSE UNCHANGED <<ruling, reason>>
    /\ UNCHANGED layers

AllRuled ==
    /\ ruling = "none" /\ layers > 0 /\ Len(votes) = layers
    /\ Rule(IF asked # 0 THEN "Ask" ELSE "Allow", asked)
    /\ UNCHANGED <<layers, votes, asked>>

GuardStep == NoLayer \/ Layer \/ AllRuled

GuardSpec == GuardInit /\ [][GuardStep]_guardVars

-----------------------------------------------------------------------------
Deniers == {i \in DOMAIN votes : votes[i] \notin {"Allow", "Ask"}}
Askers  == {i \in DOMAIN votes : votes[i] = "Ask"}

GuardTypeOK ==
    /\ layers \in Nat /\ votes \in Seq(LayerAnswers) /\ asked \in Nat /\ reason \in Nat
    /\ ruling \in {"none", "Allow", "Ask", "Deny"}

(* Severity, not order, decides (compose.go 22-31): the stack allows only   *)
(* what every one of its layers allowed, asks with the first question when  *)
(* no layer denied, and denies otherwise, for the reason of the one layer   *)
(* that denied, behind which nobody is asked.  An empty stack denies.       *)
RulingIsSeverest ==
    /\ ruling = "Allow" => layers > 0 /\ Len(votes) = layers /\ \A i \in 1 .. layers : votes[i] = "Allow"
    /\ ruling = "Ask" => /\ Len(votes) = layers /\ Deniers = {}
                         /\ reason \in Askers /\ \A i \in Askers : reason <= i
    /\ ruling = "Deny" => IF layers = 0 THEN votes = << >>
                          ELSE Deniers = {Len(votes)} /\ reason = Len(votes)
    /\ ruling = "none" => Deniers = {}
=============================================================================
