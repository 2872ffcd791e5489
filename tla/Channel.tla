------------------------------ MODULE Channel ------------------------------
(***************************************************************************)
(* What the mailbox promises its users (the comment at the top of          *)
(* include/jaal/kernel/mailbox.hpp), without threads, locks or wakes: a    *)
(* first-in first-out channel into the loop, bounded by Capacity (0 means  *)
(* unbounded), from which the loop takes everything at once, and in which  *)
(* an origin the loop retired can neither queue nor be delivered again.    *)
(***************************************************************************)
EXTENDS Naturals, Sequences, EraseIf

CONSTANTS Messages,   \* records with a field "from": 0 or an origin
          Origins,    \* the origins the loop may open, without 0
          Capacity    \* 0 = unbounded

VARIABLES queue,      \* accepted and not taken yet, oldest first
          delivered,  \* everything the loop took, in the order it took it
          dead,       \* retired origins
          open        \* FALSE once closed

channelVars == <<queue, delivered, dead, open>>

ChannelInit ==
  /\ queue = <<>>
  /\ delivered = <<>>
  /\ dead = {}
  /\ open = TRUE

\* A sender's message joins the end of the queue, which has room for it.
Accept(m) ==
  /\ open
  /\ m.from \notin dead
  /\ Capacity # 0 => Len(queue) < Capacity
  /\ queue' = Append(queue, m)
  /\ UNCHANGED <<delivered, dead, open>>

\* A full queue gives up its oldest message for a new one (drop_oldest).
Replace(m) ==
  /\ open
  /\ m.from \notin dead
  /\ Capacity # 0 /\ Len(queue) = Capacity
  /\ queue' = Append(Tail(queue), m)
  /\ UNCHANGED <<delivered, dead, open>>

\* The loop takes the whole queue and throws away what dead origins sent.
Take ==
  /\ open
  /\ queue # <<>>
  /\ delivered' = delivered \o Keeping(queue, {m \in Messages : m.from \notin dead})
  /\ queue' = <<>>
  /\ UNCHANGED <<dead, open>>

\* The loop stops a source: nothing it sent is delivered from here on.
Retire(o) ==
  /\ dead' = dead \cup {o}
  /\ UNCHANGED <<queue, delivered, open>>

\* The loop stops listening. What is still queued is lost.
Close ==
  /\ open' = FALSE
  /\ queue' = <<>>
  /\ dead' \in SUBSET Origins /\ dead \subseteq dead'
  /\ UNCHANGED delivered

ChannelNext ==
  \/ \E m \in Messages : Accept(m) \/ Replace(m)
  \/ \E o \in Origins : Retire(o)
  \/ Take
  \/ Close

ChannelSpec == ChannelInit /\ [][ChannelNext]_channelVars
=============================================================================
