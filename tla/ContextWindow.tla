--------------------------- MODULE ContextWindow ---------------------------
(***************************************************************************)
(* ContextBudget.compose as AgentRunner.run calls it: what a request to the *)
(* model still shows of a session that outgrows the model's context window. *)
(*                                                                          *)
(* A round is an answer with its tool results, and comes down to its tokens *)
(* (with chars_per_token = 1, the default, they add up).  Rounds are        *)
(* complete by construction of run(), and compose's checks of their shape   *)
(* raise only when the model gives two calls one id.  Available is          *)
(* max_context_tokens less the reserved output, the tools and the prompt.   *)
(***************************************************************************)
EXTENDS Integers, Sequences, Functions

CONSTANTS
  Sizes,         \* the tokens that a round may have
  Available,     \* what the rounds of a request may use
  RetainGroups,  \* retain_groups
  MaxTurns       \* max_turns

VARIABLES
  rounds,        \* the tokens of each round of the session, oldest first
  step,          \* "composing", "asking", "overflow", "ended"
  shown          \* the rounds in the request

window == <<rounds, step, shown>>

Init == rounds = << >> /\ step = "composing" /\ shown = {}

Fits(set) == SumFunctionOnSet(rounds, set) <= Available

Mandatory == {i \in DOMAIN rounds : i > Len(rounds) - RetainGroups}

(* What is selected after the loop over the older rounds, newest first, has *)
(* come to round i: it breaks at the first one that does not fit.           *)
SelectedSkipping ==              \* broken form: continue in place of break
  LET from[i \in 1..Len(rounds) + 1] ==
        IF i > Len(rounds) - RetainGroups THEN i..Len(rounds)
        ELSE IF Fits({i} \cup from[i + 1]) THEN {i} \cup from[i + 1] ELSE from[i + 1]
  IN from[1]

Selected ==
  LET from[i \in 1..Len(rounds) + 1] ==
        IF i > Len(rounds) - RetainGroups THEN i..Len(rounds)
        ELSE IF i + 1 \in from[i + 1] /\ Fits({i} \cup from[i + 1])
             THEN {i} \cup from[i + 1] ELSE from[i + 1]
  IN from[1]

Compose ==
  /\ step = "composing"
  /\ \/ Fits(DOMAIN rounds) /\ shown' = DOMAIN rounds /\ step' = "asking"
     \/ ~Fits(DOMAIN rounds) /\ Fits(Mandatory) /\ shown' = Selected /\ step' = "asking"
     \/ ~Fits(Mandatory) /\ shown' = {} /\ step' = "overflow"
  /\ UNCHANGED rounds

(* The model answers with tool calls, and there is another turn.            *)
Answer(size) ==
  /\ step = "asking" /\ Len(rounds) + 1 < MaxTurns
  /\ rounds' = Append(rounds, size)
  /\ step' = "composing" /\ shown' = {}

(* It answers without, or the turns are used up.                            *)
End ==
  /\ step = "asking"
  /\ step' = "ended" /\ shown' = {}
  /\ UNCHANGED rounds

Next == Compose \/ (\E size \in Sizes : Answer(size)) \/ End
-----------------------------------------------------------------------------
(* Properties.                                                              *)
(* The variables have their types.                                          *)
TypeOK ==
  /\ rounds \in Seq(Sizes) /\ Len(rounds) < MaxTurns
  /\ step \in {"composing", "asking", "overflow", "ended"}
  /\ shown \subseteq DOMAIN rounds

(* A request shows the newest rounds without a gap, the mandatory ones      *)
(* among them, and as many as fit; it is refused only when the mandatory    *)
(* rounds alone do not.                                                     *)
Newest(k) == Len(rounds) - k + 1 .. Len(rounds)

RequestShowsNewestRounds ==
  /\ step = "asking" =>
       \E k \in 0..Len(rounds) :
         /\ shown = Newest(k) /\ Mandatory \subseteq shown
         /\ \A n \in 0..Len(rounds) : Fits(Newest(n)) <=> n <= k
  /\ step = "overflow" => \E k \in 0..RetainGroups : ~Fits(Newest(k))
=============================================================================
