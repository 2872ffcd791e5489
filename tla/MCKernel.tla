------------------------------ MODULE MCKernel ------------------------------
(* Small programs for Kernel. *)
EXTENDS Kernel, TLC

\* Three models, one source each; "c" wants what "b" wants and is where
\* subscribe() throws, for a reason the key leaves out.
Switching ==
  [models |-> {"a", "b", "c"}, subscribe |-> [a |-> {"s"}, b |-> {"t"}, c |-> {"t"}],
   bad |-> {"c"}, hasKey |-> TRUE, keyOf |-> [a |-> "a", b |-> "bc", c |-> "bc"],
   cmds |-> {<<>>, <<SendMsg>>},
   debug |-> FALSE, hostThrows |-> FALSE, on_fault |-> "skip", fold_budget |-> 2,
   errors |-> 1]

\* A debug build, and a key that leaves out what tells "a" from "b".
NarrowKey ==
  [Switching EXCEPT !.bad = {}, !.keyOf = [a |-> "ab", b |-> "ab", c |-> "c"],
                    !.subscribe = [a |-> {"s"}, b |-> {"t"}, c |-> {}], !.debug = TRUE]

\* One model and keyed runs.
KeyedRuns ==
  [Switching EXCEPT !.models = {"a"}, !.subscribe = [a |-> {}], !.bad = {},
                    !.hasKey = FALSE, !.keyOf = [a |-> "a"],
                    !.cmds = {<<>>, <<Task("k")>>, <<After("k")>>, <<Cancel("k")>>,
                              <<PlainAfter, SendMsg>>}]

\* Quits, and effects that throw, amid others, under the policy stop.
Faulting ==
  [Switching EXCEPT !.models = {"a", "c"}, !.subscribe = [a |-> {"s"}, c |-> {}], !.bad = {},
                    !.hasKey = FALSE, !.keyOf = [a |-> "a", c |-> "c"],
                    !.cmds = {<<>>, <<SendMsg, Quit, PlainAfter>>, <<Throw, PlainAfter>>,
                              <<PlainAfter>>},
                    !.on_fault = "stop"]

\* Nothing but a host source, which may throw.
HostOnly ==
  [Faulting EXCEPT !.subscribe = [a |-> {"h"}, c |-> {}], !.cmds = {<<>>, <<SendMsg>>},
                   !.hostThrows = TRUE]

\* One message to a fold, and faults that are skipped.
OneByOne == {[Faulting EXCEPT !.cmds = {<<>>, <<SendMsg>>}, !.on_fault = "skip",
                              !.fold_budget = 1, !.errors = 2]}

Safe == {Switching, NarrowKey, KeyedRuns, Faulting, HostOnly} \cup OneByOne

\* subscribe() throws on "c", under the policy stop.
BadUnderStop == {[Faulting EXCEPT !.bad = {"c"}, !.cmds = {<<>>, <<SendMsg>>}, !.errors = 0]}
=============================================================================
