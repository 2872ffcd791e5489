------------------------------ MODULE Effects ------------------------------
(***************************************************************************)
(* Commands and subscriptions as values: core/cmd.hpp, core/sub.hpp, the   *)
(* descriptors of core/fx.hpp and core/stream.hpp, and the lifting of a    *)
(* child's effects into its parent (core/child.hpp, core/children.hpp).    *)
(* A Cmd or Sub is nothing, a batch, or one effect.  A message is the      *)
(* address the mappers put on it, outermost first; a key is the sequence   *)
(* of its segments, so that prefixing is concatenation.                    *)
(***************************************************************************)
EXTENDS Naturals, Sequences, SequencesExt

none == [fx |-> "none"]
Batch(cs) == [fx |-> "batch", of |-> cs]
Msg == [at |-> <<>>, up |-> FALSE]

\* The effects.  A task carries what its body will do, see Children.
quit(code) == [fx |-> "quit", code |-> code]
send(m) == [fx |-> "send", msg |-> m]
after(k, m) == [fx |-> "after", key |-> k, msg |-> m]
task(k, m, catches) == [fx |-> "task", key |-> k, msg |-> m, catches |-> catches]
perform(k, m) == task(k, m, FALSE)
attempt(k, m) == task(k, m, TRUE)
cancel(k) == [fx |-> "cancel", key |-> k]
now(m) == [fx |-> "now", msg |-> m]
random(m) == [fx |-> "random", msg |-> m]
report(out) == [fx |-> "report", out |-> out]
stream(k, m) == [fx |-> "stream", key |-> k, msg |-> m]

is_none(c) == c.fx = "none"

\* Every effect of a tree, in the order the interpreter meets them.
RECURSIVE for_each(_)
for_each(c) ==
  CASE is_none(c) -> <<>>
    [] c.fx = "batch" -> IF c.of = <<>> THEN <<>>
                         ELSE for_each(Head(c.of)) \o for_each(Batch(Tail(c.of)))
    [] OTHER -> <<c>>

\* Batches are flattened by one level, a batch of one is that one.
batch(cs) ==
  LET Parts(c) == CASE is_none(c) -> <<>> [] c.fx = "batch" -> c.of [] OTHER -> <<c>>
      kept == FlattenSeq([i \in DOMAIN cs |-> Parts(cs[i])])
  IN CASE Len(kept) = 0 -> none [] Len(kept) = 1 -> kept[1] [] OTHER -> Batch(kept)

\* Sub has its own copy of it.
sub_batch(ss) == batch(ss)

\* What the mailbox in front of a mapped task or stream does to a message on
\* its way out: one child's wrapper, or one that carries the child's id.
wrapped(slot, m) == [m EXCEPT !.at = <<slot>> \o @]
forwarded(id, m) == [m EXCEPT !.at = <<id>> \o @]

\* Re-targeting one effect: quit, cancel and report name no message.
Silent == {"quit", "cancel", "report"}
map_payload(slot, e) == IF e.fx \in Silent THEN e ELSE [e EXCEPT !.msg = wrapped(slot, @)]
map_payload_with(id, e) == IF e.fx \in Silent THEN e ELSE [e EXCEPT !.msg = forwarded(id, @)]

RECURSIVE map(_, _)
map(slot, c) ==
  CASE is_none(c) -> none
    [] c.fx = "batch" -> Batch([i \in DOMAIN c.of |-> map(slot, c.of[i])])
    [] OTHER -> map_payload(slot, c)

RECURSIVE map_with(_, _)
map_with(id, c) ==
  CASE is_none(c) -> none
    [] c.fx = "batch" -> Batch([i \in DOMAIN c.of |-> map_with(id, c.of[i])])
    [] OTHER -> map_payload_with(id, c)

\* The same for a Sub, whose sources all carry a message.
RECURSIVE sub_map(_, _)
sub_map(slot, s) ==
  CASE is_none(s) -> none
    [] s.fx = "batch" -> Batch([i \in DOMAIN s.of |-> sub_map(slot, s.of[i])])
    [] OTHER -> [s EXCEPT !.msg = wrapped(slot, @)]

RECURSIVE sub_map_with(_, _)
sub_map_with(id, s) ==
  CASE is_none(s) -> none
    [] s.fx = "batch" -> Batch([i \in DOMAIN s.of |-> sub_map_with(id, s.of[i])])
    [] OTHER -> [s EXCEPT !.msg = forwarded(id, @)]

\* The parent message a child's report becomes: the From case, which says
\* which child it is from.
to_parent(id, out) == [out EXCEPT !.at = <<id>>, !.up = TRUE]

\* Replace every report by a send of the parent's message.
RECURSIVE resolve(_, _)
resolve(id, c) ==
  CASE c.fx = "batch" -> batch([i \in DOMAIN c.of |-> resolve(id, c.of[i])])
    [] c.fx = "report" -> send(to_parent(id, c.out))
    [] OTHER -> c

\* Variant: a cancel keeps the child's own key.
prefixed_NotCancel(prefix, e) ==
  IF e.fx \in {"task", "after"} /\ e.key # <<>> THEN [e EXCEPT !.key = prefix \o @] ELSE e

\* A child's keys live under its prefix; work without a key stays without.
prefixed(prefix, e) ==
  IF e.fx = "cancel" \/ (e.fx \in {"task", "after"} /\ e.key # <<>>)
  THEN [e EXCEPT !.key = prefix \o @] ELSE e

RECURSIVE prefix_task_keys(_, _)
prefix_task_keys(prefix, c) ==
  IF c.fx = "batch" THEN Batch([i \in DOMAIN c.of |-> prefix_task_keys(prefix, c.of[i])])
  ELSE prefixed(prefix, c)

RECURSIVE prefix_streams(_, _)
prefix_streams(prefix, s) ==
  CASE s.fx = "batch" -> Batch([i \in DOMAIN s.of |-> prefix_streams(prefix, s.of[i])])
    [] s.fx = "stream" -> [s EXCEPT !.key = prefix \o @]
    [] OTHER -> s

\* A child's Cmd as its parent's: in a fixed slot, or in a list under an id.
\* The row of every program here has report, so every Cmd is resolved.
resolve_reports(id, c) == resolve(id, c)
child_lift(slot, c) == resolve_reports(slot, map(slot, prefix_task_keys(<<slot>>, c)))
lift(id, c) == resolve_reports(id, map_with(id, prefix_task_keys(<<id>>, c)))

=============================================================================
