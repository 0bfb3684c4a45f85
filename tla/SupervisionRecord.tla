-------------------------- MODULE SupervisionRecord --------------------------
(***************************************************************************)
(* What the store promises a transport that carries checkpoints to an      *)
(* outside channel and decisions back, and that may retry and deliver      *)
(* twice: a request is published under one reference for ever, a decision  *)
(* is recorded once for each comment that brought it, and whoever is told  *)
(* that a comment has its decision can rely on it.                         *)
(***************************************************************************)
EXTENDS Naturals, Sequences

CONSTANTS Requests,   \* request ids
          Refs,       \* references of published requests
          NoRef,      \* external_ref IS NULL
          Comments,   \* external_comment_id
          NoComment   \* external_comment_id IS NULL

VARIABLES opened,     \* requests that have a row
          published,  \* published[r]: the reference of r
          decisions,  \* [request, comment] in the order they were recorded
          told        \* comments whose deliverer was given a decision_id

record == <<opened, published, decisions, told>>

Init ==
  /\ opened = {}
  /\ published = [r \in Requests |-> NoRef]
  /\ decisions = <<>>
  /\ told = {}

Open(r) ==
  /\ r \notin opened
  /\ opened' = opened \cup {r}
  /\ UNCHANGED <<published, decisions, told>>

Publish(r, x) ==
  /\ r \in opened /\ published[r] = NoRef
  /\ published' = [published EXCEPT ![r] = x]
  /\ UNCHANGED <<opened, decisions, told>>

Answered(m) == \E n \in 1..Len(decisions) : decisions[n].comment = m

Answer(r, m) ==
  /\ r \in opened
  /\ m # NoComment => ~Answered(m)
  /\ decisions' = Append(decisions, [request |-> r, comment |-> m])
  /\ told' \in {told, told \cup ({m} \ {NoComment})}
  /\ UNCHANGED <<opened, published>>

Tell(m) ==
  /\ Answered(m)
  /\ told' = told \cup {m}
  /\ UNCHANGED <<opened, published, decisions>>

Next ==
  \/ \E r \in Requests :
       \/ Open(r)
       \/ \E x \in Refs : Publish(r, x)
       \/ \E m \in Comments \cup {NoComment} : Answer(r, m)
  \/ \E m \in Comments : Tell(m)

Spec == Init /\ [][Next]_record
=============================================================================
