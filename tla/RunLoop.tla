------------------------------ MODULE RunLoop ------------------------------
(***************************************************************************)
(* run<P>(host) (kernel/run.hpp) and its teardown guard                    *)
(* (kernel/teardown.hpp): reactor, signals, kernel, then step, present,    *)
(* wait, dispatch until something ends the program, and the shutdown on    *)
(* every path out.  The kernel is what Kernel shows of it: step() and      *)
(* route() may change the model or quit.  The screen is the model version  *)
(* the host last drew.  A deadline is the ticks left until it, Ms of them  *)
(* a millisecond, so time has no bound.                                    *)
(***************************************************************************)
EXTENDS Integers, Sequences, FiniteSets

CONSTANTS Options,      \* [interval, default_exit, handles, arrive]: pacing in ms, the
                        \* signals the program handles and those that may arrive
          Ms,           \* clock ticks per millisecond
          None,         \* no deadline, no exit code, nothing drawn: a negative number
          Thrown,       \* run() was left by an exception
          MaxChanges,   \* bound on the model's versions
          MaxDefers     \* bound on the frames the host puts off

VARIABLES opt, pc,
          model,        \* version of the model
          shown,        \* version on the screen
          changed,      \* changed_since_turn_: route() changed the model
          mail,         \* a message waits in the mailbox, the waker is set
          deadline,     \* the kernel's next timer, or None
          exit,         \* the kernel's exit_, or None
          turn,         \* the last step()'s answer: [changed, quit]
          fb,           \* run()'s locals: [first, owed, next], next being 0 once the gap is up
          until,        \* what is left of the wait, or None
          ready,        \* the events of the last wait() still to handle
          host,         \* [owes, defers, ready]: owes_frame() and a ready handle
          sig,          \* [on, watched, got]: the source, its registration, the signals
          order,        \* what the shutdown did, in order
          result        \* what run() returned: None, a code, or Thrown

kvars == <<model, changed, mail, deadline, exit>>
lvars == <<opt, pc, kvars, shown, turn, fb, until, ready, host, sig, order, result>>

(* The defaults, and a program that meets no signal. *)
run_options == [interval |-> 0, default_exit |-> TRUE, handles |-> {}, arrive |-> {}]

exit_code_for(s) ==
    CASE s = "interrupt" -> 130 [] s = "terminate" -> 143 [] s = "hangup" -> 129 [] OTHER -> 128

(* Host tokens start above the driver's; the host of this model watches    *)
(* one handle, under its token 0.                                          *)
kSignalToken == 1
kFirstHostToken == 65536
watch(token) == token + kFirstHostToken

LoopInit ==
    /\ opt = run_options
    /\ pc = "call" /\ model = 0 /\ shown = None /\ changed = FALSE
    /\ mail = FALSE /\ deadline = None /\ exit = None
    /\ turn = [changed |-> FALSE, quit |-> FALSE]
    /\ fb = [first |-> TRUE, owed |-> FALSE, next |-> 0]
    /\ until = None /\ ready = {} /\ host = [owes |-> FALSE, defers |-> 0, ready |-> FALSE]
    /\ sig = [on |-> FALSE, watched |-> FALSE, got |-> {}] /\ order = <<>> /\ result = None

(* Reactor, then signals; neither signals nor their registration is        *)
(* required.  A kernel that cannot be given a reactor does not start.      *)
Call(o) ==
    /\ pc = "call" /\ opt' = o
    /\ \/ pc' = "returned" /\ result' = 70 /\ UNCHANGED sig
       \/ /\ pc' = "start" /\ UNCHANGED result
          /\ \E on, watched \in BOOLEAN :
               (watched => on) /\ sig' = [sig EXCEPT !.on = on, !.watched = watched]
    /\ UNCHANGED <<kvars, shown, turn, fb, until, ready, host, order>>

(* start() or start_from(), the guard, on_seed and attach(); attach() may  *)
(* throw, and init's effects may arm a timer.                              *)
Start ==
    /\ pc = "start"
    /\ deadline' \in {None, 1}
    /\ pc' \in {"step", "unwind"}
    /\ UNCHANGED <<opt, model, changed, mail, exit, shown, turn, fb, until, ready, host, sig,
                   order, result>>

(* kernel::step(): drains the mailbox, fires due timers, folds; reports a  *)
(* change made here or by a route() since the last turn.                   *)
Due == deadline = 0
Step ==
    /\ pc = "step" /\ pc' = "present"
    /\ IF exit # None
         THEN turn' = [changed |-> FALSE, quit |-> TRUE] /\ UNCHANGED kvars
         ELSE /\ model' \in {model} \cup (IF (mail \/ Due) /\ model < MaxChanges
                                            THEN {model + 1} ELSE {})
              /\ deadline' \in IF Due THEN {None, 1} ELSE {deadline}
              /\ exit' \in IF mail THEN {None, 0} ELSE {None}
              /\ mail' = FALSE /\ changed' = FALSE
              /\ turn' = [changed |-> changed \/ model' # model, quit |-> exit' # None]
    /\ UNCHANGED <<opt, shown, fb, until, ready, host, sig, order, result>>

(* kernel::stop(): the first exit code stays. *)
stop(code) == exit' = (IF exit = None THEN code ELSE exit) /\ UNCHANGED <<model, changed, mail, deadline>>

ceil_ms(ticks) == (ticks + Ms - 1) \div Ms

(* Variant: the last frame is paced like any other. *)
Draws_Paced == fb.first \/ ((fb.owed \/ turn.changed \/ host.owes)
                             /\ fb.next = 0)

(* First frame, last frame, or an owed one whose gap is up. *)
Draws == \/ fb.first \/ turn.quit
         \/ (fb.owed \/ turn.changed \/ host.owes) /\ fb.next = 0

Skip ==
    /\ pc = "present" /\ ~Draws /\ pc' = "check"
    /\ fb' = [fb EXCEPT !.owed = @ \/ turn.changed \/ host.owes]
    /\ UNCHANGED <<opt, kvars, shown, turn, until, ready, host, sig, order, result>>

Drawn == fb' = [first |-> FALSE, owed |-> FALSE,
                next |-> opt.interval * Ms]

(* present(): the host draws the model as it is, or defers the frame and   *)
(* says it owes one (never the last); its view may fault and stop().       *)
Present ==
    /\ pc = "present" /\ Draws /\ pc' = "check"
    /\ Drawn
    /\ \/ shown' = model /\ host' = [host EXCEPT !.owes = FALSE] /\ UNCHANGED kvars
       \/ /\ ~turn.quit /\ host.defers < MaxDefers
          /\ host' = [host EXCEPT !.owes = TRUE, !.defers = @ + 1]
          /\ UNCHANGED <<kvars, shown>>
       \/ stop(70) /\ shown' = model /\ UNCHANGED host
    /\ UNCHANGED <<opt, turn, until, ready, sig, order, result>>

(* present(), on_ready() or on_signal() throws: run() is left at once, and *)
(* the guard's destructor runs.                                            *)
Throws ==
    /\ (pc = "present" /\ Draws) \/ (pc = "dispatch" /\ ready # {})
    /\ pc' = "unwind"
    /\ UNCHANGED <<opt, kvars, shown, turn, fb, until, ready, host, sig, order, result>>

(* Variant: the turn decides alone, as before present() could stop(). *)
Check_Stale ==
    /\ pc = "check" /\ pc' = IF turn.quit THEN "unwatch" ELSE "timeout"
    /\ turn' = [changed |-> FALSE, quit |-> FALSE]
    /\ UNCHANGED <<opt, kvars, shown, fb, until, ready, host, sig, order, result>>
Check ==
    /\ pc = "check" /\ pc' = IF turn.quit \/ exit # None THEN "unwatch" ELSE "timeout"
    /\ turn' = [changed |-> FALSE, quit |-> FALSE]
    /\ UNCHANGED <<opt, kvars, shown, fb, until, ready, host, sig, order, result>>

(* Variant: rounded down, which is the hot spin the comment describes. *)
timeout_from_Down(t) == IF t = None THEN {} ELSE {t \div Ms}

(* timeout_from(): rounded up, never negative, none without a deadline. *)
timeout_from(t) == IF t = None THEN {} ELSE {ceil_ms(t)}

(* Variant: an owed frame is not a deadline. *)
Timeouts_NoFrame == timeout_from(deadline) \cup (IF host.owes THEN {1} ELSE {})

(* The kernel's timer, an owed frame and the host's hint, in milliseconds. *)
Timeouts == timeout_from(deadline)
              \cup (IF fb.owed THEN timeout_from(fb.next) ELSE {})
              \cup (IF host.owes THEN {1} ELSE {})

Wait ==
    /\ pc = "timeout" /\ pc' = "wait"
    /\ until' = IF Timeouts = {} THEN None
                ELSE Ms * CHOOSE w \in Timeouts : \A x \in Timeouts : w <= x
    /\ UNCHANGED <<opt, kvars, shown, turn, fb, ready, host, sig, order, result>>

(* The wait ends: woken, a handle ready, the time is up, or it failed. *)
Ready == (IF sig.watched /\ sig.got # {} THEN {kSignalToken} ELSE {})
           \cup (IF host.ready THEN {watch(0)} ELSE {})
Woken ==
    /\ pc = "wait" /\ (mail \/ Ready # {} \/ until = 0)
    /\ pc' = "dispatch" /\ until' = None /\ ready' = Ready
    /\ UNCHANGED <<opt, kvars, shown, turn, fb, host, sig, order, result>>
WaitFails ==
    /\ pc = "wait" /\ pc' = "step" /\ until' = None
    /\ stop(70)
    /\ UNCHANGED <<opt, shown, turn, fb, ready, host, sig, order, result>>

(* route(): on() may produce a message, which is folded here and may quit; *)
(* nothing is routed once the kernel is quitting.                          *)
Folds(produced) ==
    /\ model' \in {model} \cup (IF exit = None /\ produced /\ model < MaxChanges THEN {model + 1} ELSE {})
    /\ changed' = (changed \/ model' # model)
    /\ UNCHANGED <<mail, deadline>>
route(produced) ==
    /\ Folds(produced)
    /\ exit' \in {exit} \cup (IF exit = None /\ produced THEN {0} ELSE {})

Stopping == {"interrupt", "terminate", "hangup"}

(* Signals nobody handles that end the run. *)
Unhandled == IF opt.default_exit THEN (sig.got \cap Stopping) \ opt.handles ELSE {}

(* The signal pipe: what take() returns is routed signal by signal; one    *)
(* that is not handled stops the run, the first of them with its code.     *)
OnSignal ==
    /\ pc = "dispatch" /\ kSignalToken \in ready /\ ready' = ready \ {kSignalToken}
    /\ sig' = [sig EXCEPT !.got = {}]
    /\ IF Unhandled = {} THEN route(sig.got \cap opt.handles # {})
       ELSE /\ Folds(sig.got \cap opt.handles # {})
            /\ \E s \in Unhandled : exit' = IF exit = None THEN exit_code_for(s) ELSE exit
    /\ UNCHANGED <<opt, pc, shown, turn, fb, until, host, order, result>>

(* host_context: emit() routes an event, stop() ends the run. *)
emit == route(TRUE)

(* on_ready(): the host emits an event, or stops the run. *)
OnReady ==
    /\ pc = "dispatch"
    /\ \E token \in ready : token >= kFirstHostToken /\ ready' = ready \ {token}
    /\ host' = [host EXCEPT !.ready = FALSE]
    /\ emit \/ stop(1)
    /\ UNCHANGED <<opt, pc, shown, turn, fb, until, sig, order, result>>

Dispatched ==
    /\ pc = "dispatch" /\ ready = {}
    /\ pc' = "step"
    /\ UNCHANGED <<opt, kvars, shown, turn, fb, until, ready, host, sig, order, result>>

-----------------------------------------------------------------------------
(* sig_reg.reset() on the normal path; unwinding destroys the guard first. *)
Unwatch ==
    /\ pc = "unwatch" /\ pc' = "signals"
    /\ sig' = [sig EXCEPT !.watched = FALSE]
    /\ UNCHANGED <<opt, kvars, shown, turn, fb, until, ready, host, order, result>>

(* run_it(): signals, release() - which may throw, and is caught - finish. *)
Teardown ==
    \/ /\ pc \in {"signals", "unwind"}
       /\ pc' = IF pc = "signals" THEN "release" ELSE "unwind_release"
       /\ sig' = [sig EXCEPT !.on = FALSE] /\ order' = Append(order, "signals")
       /\ UNCHANGED result
    \/ /\ pc \in {"release", "unwind_release"}
       /\ pc' = IF pc = "release" THEN "finish" ELSE "unwind_finish"
       /\ order' = Append(order, "release") /\ UNCHANGED <<sig, result>>
    \/ /\ pc \in {"finish", "unwind_finish"} /\ pc' = "returned"
       /\ order' = Append(order, "finish") /\ UNCHANGED sig
       /\ result' = IF pc = "unwind_finish" THEN Thrown ELSE IF exit = None THEN 0 ELSE exit
GuardRuns == Teardown /\ UNCHANGED <<opt, kvars, shown, turn, fb, until, ready, host>>

LoopStep == \/ Start \/ Step \/ Skip \/ Present \/ Check \/ Wait \/ Woken \/ OnSignal \/ OnReady
            \/ Dispatched \/ Unwatch \/ GuardRuns

-----------------------------------------------------------------------------
(* The world while the loop runs: a worker posts, a handle becomes ready,  *)
(* a signal arrives while it is caught, time passes.                       *)
Running == pc \in {"step", "present", "check", "timeout", "wait", "dispatch"}
World ==
    /\ Running
    /\ \/ model < MaxChanges /\ mail' = TRUE
          /\ UNCHANGED <<model, changed, deadline, exit, host, sig>>
       \/ model < MaxChanges /\ host' = [host EXCEPT !.ready = TRUE] /\ UNCHANGED <<kvars, sig>>
       \/ \E s \in opt.arrive : sig.on /\ sig' = [sig EXCEPT !.got = @ \cup {s}] /\ UNCHANGED <<kvars, host>>
    /\ UNCHANGED <<opt, pc, shown, turn, fb, until, ready, order, result>>
Tick ==
    /\ Running
    /\ deadline' = (IF deadline > 0 THEN deadline - 1 ELSE deadline)
    /\ until' = (IF until > 0 THEN until - 1 ELSE until)
    /\ fb' = (IF fb.next > 0 THEN [fb EXCEPT !.next = @ - 1] ELSE fb)
    /\ UNCHANGED <<opt, pc, model, changed, mail, exit, shown, turn, ready, host, sig, order, result>>

LoopNext == (\E o \in Options : Call(o)) \/ LoopStep \/ Throws \/ WaitFails \/ World \/ Tick

-----------------------------------------------------------------------------
(* What the model shows reaches the screen: a change that came too soon    *)
(* after a frame, or whose frame the host put off, is drawn without any    *)
(* further event ("the last change always reaches the screen").            *)
FrameReaches == (model # shown /\ pc # "call") ~> (model = shown \/ pc = "returned")

(* However run() is left, the guard has turned signals off, released the   *)
(* host and finished the kernel, once each and in that order; and unless   *)
(* an exception left it, the last model is on the screen.                  *)
EndsInOrder ==
    pc = "returned" /\ order # <<>> =>
      order = <<"signals", "release", "finish">> /\ (result # Thrown => shown = model)

(* A stop, whoever asks for it and wherever - the program, a signal nobody *)
(* handles, a host callback, present() itself - ends the run.              *)
StopEnds == (exit # None \/ (pc # "call" /\ sig.watched /\ Unhandled # {})) ~> (pc = "returned")

(* The wait neither ends with nothing due, which would spin, nor lasts a   *)
(* millisecond past the kernel's timer.                                    *)
SleepsUntilDue ==
    pc = "wait" =>
      /\ until = 0 => deadline = 0 \/ (fb.owed /\ fb.next = 0) \/ host.owes
      /\ deadline # None => until # None /\ until < deadline + Ms
=============================================================================
