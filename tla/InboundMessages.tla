--------------------------- MODULE InboundMessages ---------------------------
(***************************************************************************)
(* A message from one lane to another: PeerClient.send_message and the A2A *)
(* server of the lane that receives it.                                    *)
(*                                                                         *)
(* The client posts again when the connection breaks, which says nothing   *)
(* of what became of the earlier post: its handler goes on.  Posts of one  *)
(* message carry the same id and so the same content hash, by which the    *)
(* log refuses the second; but the look for an equal hash and the insert   *)
(* are two steps.  Watchers of the lane's stream see every post.           *)
(***************************************************************************)
EXTENDS Naturals

CONSTANTS
    Messages,       \* sends, each of a message with an id of its own
    MaxRetries      \* PeerClient.max_retries

ASSUME RetriesAreCounted == MaxRetries \in Nat

Attempts == 0..MaxRetries

VARIABLES
    sending,        \* each send: where it is, and its attempt
    handler,        \* what the receiving lane made of each post
    rows,           \* received messages in the log
    injections,     \* times each message was put to the harness
    serving,        \* the lane's server takes posts
    rivals          \* messages of which two posts were looked up at a time

inboundVars == <<sending, handler, rows, injections, serving, rivals>>

Answered == {"answered", "refused"}
Unfinished == {"waiting", "pausing"}

-----------------------------------------------------------------------------
InboundInit ==
    /\ sending = [m \in Messages |-> [at |-> "new", attempt |-> 0]]
    /\ handler = [post \in Messages \X Attempts |-> "none"]
    /\ rows = [m \in Messages |-> 0]
    /\ injections = [m \in Messages |-> 0]
    /\ serving = TRUE
    /\ rivals = {}

SendIs(m, at) == sending' = [sending EXCEPT ![m].at = at]
Handles(post, to) == handler' = [handler EXCEPT ![post] = to]

(* The post is on its way; it may never arrive.                            *)
Post(m) ==
    /\ sending[m].at \in {"new", "pausing"}
    /\ SendIs(m, "waiting")
    /\ \/ serving /\ Handles(<<m, sending[m].attempt>>, "received")
       \/ UNCHANGED handler
    /\ UNCHANGED <<rows, injections, serving, rivals>>

(* A transport error: after a pause the same message is posted again.      *)
Broken(m) ==
    /\ sending[m].at = "waiting"
    /\ IF sending[m].attempt < MaxRetries
       THEN sending' = [sending EXCEPT ![m] = [at |-> "pausing", attempt |-> @.attempt + 1]]
       ELSE SendIs(m, "failed")
    /\ UNCHANGED <<handler, rows, injections, serving, rivals>>

(* The deadline covers the whole call, retries included.                   *)
Deadline(m) ==
    /\ sending[m].at \in Unfinished
    /\ SendIs(m, "failed")
    /\ UNCHANGED <<handler, rows, injections, serving, rivals>>

(* The answer to the post the client waits on; an error is not retried.    *)
Answer(m) ==
    /\ sending[m].at = "waiting"
    /\ \/ handler[<<m, sending[m].attempt>>] = "answered" /\ SendIs(m, "told")
       \/ handler[<<m, sending[m].attempt>>] = "refused" /\ SendIs(m, "failed")
    /\ UNCHANGED <<handler, rows, injections, serving, rivals>>

-----------------------------------------------------------------------------
LookedUp(m) == {post \in {m} \X Attempts : handler[post] = "unknown"}

(* Mutant of the step below: the hash is not looked for.                   *)
LookUpNothing(m, attempt) ==
    /\ handler[<<m, attempt>>] = "received"
    /\ Handles(<<m, attempt>>, "unknown")
    /\ rivals' = IF LookedUp(m) = {} THEN rivals ELSE rivals \cup {m}
    /\ UNCHANGED <<sending, rows, injections, serving>>

(* append: is there a row with this hash?  Then the post is refused.       *)
LookUp(m, attempt) ==
    /\ handler[<<m, attempt>>] = "received"
    /\ Handles(<<m, attempt>>, IF rows[m] = 0 THEN "unknown" ELSE "refused")
    /\ rivals' = IF rows[m] > 0 \/ LookedUp(m) = {} THEN rivals ELSE rivals \cup {m}
    /\ UNCHANGED <<sending, rows, injections, serving>>

Insert(m, attempt) ==
    /\ handler[<<m, attempt>>] = "unknown"
    /\ \/ rows' = [rows EXCEPT ![m] = @ + 1] /\ Handles(<<m, attempt>>, "logged")
       \/ UNCHANGED rows /\ Handles(<<m, attempt>>, "refused")
    /\ UNCHANGED <<sending, injections, serving, rivals>>

(* _on_inbound: a harness that takes no input is logged, and no error.     *)
InjectMessage(m, attempt) ==
    /\ handler[<<m, attempt>>] = "logged"
    /\ \/ injections' = [injections EXCEPT ![m] = @ + 1]
       \/ UNCHANGED injections
    /\ Handles(<<m, attempt>>, "answered")
    /\ UNCHANGED <<sending, rows, serving, rivals>>

(* The lane is stopped: no more posts arrive, those received go on.        *)
StopServing ==
    /\ serving
    /\ serving' = FALSE
    /\ UNCHANGED <<sending, handler, rows, injections, rivals>>

InboundNext ==
    \/ \E m \in Messages :
        \/ Post(m) \/ Broken(m) \/ Deadline(m) \/ Answer(m)
        \/ \E attempt \in Attempts :
            LookUp(m, attempt) \/ Insert(m, attempt) \/ InjectMessage(m, attempt)
    \/ StopServing

InboundSpec == InboundInit /\ [][InboundNext]_inboundVars

-----------------------------------------------------------------------------
InboundTypeOK ==
    /\ sending \in [Messages ->
            [at : Unfinished \cup {"new", "told", "failed"}, attempt : Attempts]]
    /\ handler \in [Messages \X Attempts ->
            Answered \cup {"none", "received", "unknown", "logged"}]
    /\ rows \in [Messages -> 0..MaxRetries + 1]
    /\ injections \in [Messages -> 0..MaxRetries + 1]
    /\ serving \in BOOLEAN
    /\ rivals \subseteq Messages

(* However often a message is posted again, it is logged and put to the    *)
(* harness at most once, unless two of its posts were looked up before     *)
(* either was inserted; and a sender is told of a delivery only if the     *)
(* receiver's log has the message.                                         *)
DeliveredOnceUnlessRaced ==
    \A m \in Messages :
        /\ m \notin rivals => rows[m] <= 1 /\ injections[m] <= rows[m]
        /\ sending[m].at = "told" => rows[m] > 0
=============================================================================
