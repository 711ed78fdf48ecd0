----------------------------- MODULE Negotiation -----------------------------
(***************************************************************************)
(* One exchange of the ACP negotiation driver, run by the handoff_offer    *)
(* command.                                                                *)
(*                                                                         *)
(* The driver opens with a proposal of side "a" and lets the sides answer  *)
(* in turn.  Asking a lane, delivering a message and telling the session   *)
(* about an escalation are awaits, so each is a step, and each may raise:  *)
(* the driver catches nothing, and handoff_offer saves the exchange only   *)
(* after the driver returns.  What a lane answers is arbitrary here; the   *)
(* daemon's own responder is one instance.                                 *)
(***************************************************************************)
EXTENDS Integers, Sequences

CONSTANTS
    MaxExchanges,   \* the cap the driver is constructed with
    EscalateAfter,  \* moves after which it gives up early
    Positions       \* what a move may say, as far as two moves can be compared

ASSUME NegotiationLimits == MaxExchanges \in Int /\ EscalateAfter \in Int

VARIABLES
    phase,          \* what handoff_offer is waiting for
    moves,          \* the transcript
    reply,          \* the answer being delivered
    outcome,        \* NegotiationExchange.outcome
    heard           \* the session was told of the escalation

negotiationVars == <<phase, moves, reply, outcome, heard>>

Performatives == {"propose", "counter", "accept", "reject", "inform", "withdraw"}
Sides == {"a", "b"}
Outcomes == {"pending", "agreed", "rejected", "escalated", "abandoned"}
Phases == {"closed", "opening", "asking", "delivering", "escalating",
           "returned", "saved", "raised"}
Move == [by : Sides, performative : Performatives, position : Positions]

Cap == IF MaxExchanges < 1 THEN 1 ELSE MaxExchanges
Patience ==
    IF EscalateAfter < 1 THEN 1
    ELSE IF EscalateAfter > Cap THEN Cap
    ELSE EscalateAfter

Replies(p) ==
    CASE p \in {"propose", "counter"} -> {"accept", "reject", "counter", "withdraw"}
      [] p = "accept" -> {"inform"}
      [] p = "inform" -> {"propose", "counter", "inform"}
      [] OTHER        -> {"propose", "inform"}

(* Asking is strictly in turn: side a opens, so b has the even moves.      *)
SideOf(n) == IF n % 2 = 1 THEN "a" ELSE "b"

SaidAgain(ms, n) ==
    /\ ms[n].performative = ms[n - 2].performative
    /\ ms[n].position = ms[n - 2].position

(* The last two moves said what the two before them said.                  *)
Stuck(ms, n) == n >= 4 /\ SaidAgain(ms, n) /\ SaidAgain(ms, n - 1)

(* The exchange goes no further than its n-th move, by what was said.      *)
Final(ms, n) ==
    \/ ms[n].performative \in {"accept", "withdraw"}
    \/ n >= Patience /\ (ms[n].performative = "reject" \/ Stuck(ms, n))

-----------------------------------------------------------------------------
NegotiationInit ==
    /\ phase = "closed"
    /\ moves = << >>
    /\ reply = << >>
    /\ outcome = "pending"
    /\ heard = FALSE

(* handoff_offer found the plan and the step, and starts the driver.       *)
Opens ==
    /\ phase = "closed"
    /\ phase' = "opening"
    /\ UNCHANGED <<moves, reply, outcome, heard>>

(* escalate_and_finish: the outcome is set before anybody is told.         *)
Escalate ==
    /\ phase' = "escalating"
    /\ outcome' = "escalated"

OpeningDelivered(position) ==
    /\ phase = "opening"
    /\ moves' = <<[by |-> "a", performative |-> "propose", position |-> position]>>
    /\ IF 1 < Cap THEN phase' = "asking" /\ UNCHANGED outcome ELSE Escalate
    /\ UNCHANGED <<reply, heard>>

Declines ==
    /\ phase = "asking"
    /\ Escalate
    /\ UNCHANGED <<moves, reply, heard>>

LegalReply(p) == p \in Replies(moves[Len(moves)].performative)

AnswersIllegally(p) ==
    /\ phase = "asking"
    /\ ~LegalReply(p)
    /\ Escalate
    /\ UNCHANGED <<moves, reply, heard>>

Answers(p, position) ==
    /\ phase = "asking"
    /\ LegalReply(p)
    /\ reply' = <<[by |-> SideOf(Len(moves) + 1), performative |-> p, position |-> position]>>
    /\ phase' = "delivering"
    /\ UNCHANGED <<moves, outcome, heard>>

(* Mutant of the step below: a rejection late enough ends the exchange.    *)
ReplyDeliveredRejecting ==
    LET said == reply[1]
        ms == Append(moves, said)
        n == Len(ms)
    IN
    /\ phase = "delivering"
    /\ moves' = ms
    /\ reply' = << >>
    /\ phase' = IF Final(ms, n) \/ n >= Cap THEN "returned" ELSE "asking"
    /\ outcome' = CASE said.performative = "accept"   -> "agreed"
                    [] said.performative = "withdraw" -> "abandoned"
                    [] said.performative = "reject" /\ n >= Patience -> "rejected"
                    [] OTHER -> outcome
    /\ UNCHANGED heard

(* The answer is delivered and joins the transcript.  The model's own      *)
(* add_move turns a rejection at the cap into an outcome, which the        *)
(* escalation that follows overwrites.                                     *)
ReplyDelivered ==
    LET said == reply[1]
        ms == Append(moves, said)
        n == Len(ms)
    IN
    /\ phase = "delivering"
    /\ moves' = ms
    /\ reply' = << >>
    /\ \/ /\ said.performative = "accept"
          /\ phase' = "returned"
          /\ outcome' = "agreed"
       \/ /\ said.performative = "withdraw"
          /\ phase' = "returned"
          /\ outcome' = "abandoned"
       \/ /\ said.performative \notin {"accept", "withdraw"}
          /\ Final(ms, n) \/ n >= Cap
          /\ Escalate
       \/ /\ ~Final(ms, n) /\ n < Cap
          /\ phase' = "asking"
          /\ UNCHANGED outcome
    /\ UNCHANGED heard

SessionTold ==
    /\ phase = "escalating"
    /\ heard' = TRUE
    /\ phase' = "returned"
    /\ UNCHANGED <<moves, reply, outcome>>

Saved ==
    /\ phase = "returned"
    /\ phase' = "saved"
    /\ UNCHANGED <<moves, reply, outcome, heard>>

(* An await raises: nothing in the driver or the command catches it.       *)
Raises ==
    /\ phase \in {"opening", "asking", "delivering", "escalating", "returned"}
    /\ phase' = "raised"
    /\ UNCHANGED <<moves, reply, outcome, heard>>

Proceeds ==
    \/ \E position \in Positions : OpeningDelivered(position)
    \/ Declines
    \/ \E p \in Performatives : AnswersIllegally(p)
    \/ \E p \in Performatives, position \in Positions : Answers(p, position)
    \/ ReplyDelivered
    \/ SessionTold
    \/ Saved

NegotiationNext == Opens \/ Proceeds \/ Raises

(* A responder of the daemon computes its answer, and emitting ends within *)
(* the database's lock time-out, so what is awaited comes back or raises.  *)
NegotiationFairness == WF_negotiationVars(Proceeds \/ Raises)

NegotiationSpec ==
    NegotiationInit /\ [][NegotiationNext]_negotiationVars /\ NegotiationFairness

-----------------------------------------------------------------------------
(* Type correctness; a reply exists exactly while it is being delivered.   *)
NegotiationTypeOK ==
    /\ phase \in Phases
    /\ moves \in Seq(Move)
    /\ reply \in Seq(Move) /\ Len(reply) <= 1
    /\ phase = "delivering" => Len(reply) = 1
    /\ outcome \in Outcomes
    /\ heard \in BOOLEAN

(* The transcript is one the protocol allows: the sides speak in turn, the *)
(* proposal of side a first; every later move is a legal reply to the one  *)
(* before it; nothing is said after an agreement, a withdrawal, a late     *)
(* rejection or a repetition; and the cap is kept.                         *)
LegalTranscript ==
    /\ Len(moves) <= Cap
    /\ \A n \in 1 .. Len(moves) : moves[n].by = SideOf(n)
    /\ Len(moves) > 0 => moves[1].performative = "propose"
    /\ \A n \in 2 .. Len(moves) :
        /\ moves[n].performative \in Replies(moves[n - 1].performative)
        /\ ~Final(moves, n - 1)

(* An exchange that was saved is settled, and settled for a reason: agreed *)
(* because the last word was an acceptance, abandoned because it was a     *)
(* withdrawal, otherwise escalated, which the whole session has heard.  A  *)
(* rejection is never the end of an exchange that nobody else hears of.    *)
SettledOrHeard ==
    phase = "saved" =>
        LET last == moves[Len(moves)].performative IN
        /\ outcome \in {"agreed", "abandoned", "escalated"}
        /\ outcome = "agreed" <=> last = "accept"
        /\ outcome = "abandoned" <=> last = "withdraw"
        /\ heard <=> outcome = "escalated"

(* Both at once: how an exchange went, and what it came to (run).          *)
ExchangesSound == LegalTranscript /\ SettledOrHeard

(* Every offer comes to an end, whatever the two lanes answer.             *)
OfferEnds == phase = "opening" ~> phase \in {"saved", "raised"}
=============================================================================
