----------------------------- MODULE WaitReactor -----------------------------
(* src/platform/windows/wait_reactor.cpp.  WaitForMultipleObjects says     *)
(* little, so wait() probes every handle, sleeps on what can signal and    *)
(* probes again.  A pipe cannot signal: a pipe_reader thread parks in a    *)
(* zero-byte read and sets `ready` when it returns.  The loop thread, the  *)
(* reader threads, the pipe's peer and the clock interleave here.          *)
EXTENDS Naturals, Sequences, FiniteSets

CONSTANTS Handles, Kind, Regs, Refuses,  \* Refuses: handles with no blocking read
          Cap, MaxWatched, MaxSpurious, Timeouts, None, Quantum

VARIABLES slots, free, rdr, dev, reg, wake, call, out

wvars == <<slots, free, rdr, dev, reg, wake, call, out>>

Interests == SUBSET {"read", "write"} \ {{}}
Nothing == [woken |-> FALSE, timeout |-> FALSE, ready |-> {}]
NoCall == [pc |-> "idle", i |-> 0, first |-> TRUE, must |-> FALSE, hs |-> {},
           t |-> None, spent |-> 0, slice |-> None, rd |-> {}]
NoReader == [pc |-> "none", ready |-> FALSE, rearm |-> FALSE, quit |-> FALSE,
             can |-> TRUE, armed |-> FALSE, spurious |-> 0]
Idle == call.pc = "idle"
Live == {i \in DOMAIN slots : slots[i].live}
Dead == [h |-> 0, token |-> 0, what |-> {}, live |-> FALSE]

WaitInit ==
    /\ slots = <<>> /\ free = <<>> /\ wake = FALSE /\ out = Nothing /\ call = NoCall
    /\ rdr = [i \in 1..Cardinality(Regs) |-> NoReader]
    /\ dev = [h \in Handles |-> [data |-> FALSE, gone |-> FALSE, full |-> FALSE]]
    /\ reg = [r \in Regs |-> 0]

(*-------------------------------------------------------------------------*)
(* pipe_reader                                                             *)
(*-------------------------------------------------------------------------*)
Reader(i, r) ==
    rdr' = [rdr EXCEPT ![i] = r] /\ UNCHANGED <<slots, free, dev, reg, wake, call, out>>

(* run(): quit is listed first, so it wins a tie. *)
Parked(i) ==
    /\ rdr[i].pc = "parked" /\ (rdr[i].quit \/ rdr[i].rearm)
    /\ Reader(i, IF rdr[i].quit THEN [rdr[i] EXCEPT !.pc = "ended"]
                 ELSE [rdr[i] EXCEPT !.pc = "enter", !.rearm = FALSE])

(* ReadFile: a handle without blocking reads refuses; otherwise it blocks  *)
(* until there is data or no writer (or returns for nothing).              *)
Reads(i) ==
    LET h == slots[i].h IN
    \/ /\ rdr[i].pc = "enter"
       /\ Reader(i, IF h \in Refuses
                    THEN [rdr[i] EXCEPT !.can = FALSE, !.ready = TRUE, !.pc = "ended"]
                    ELSE [rdr[i] EXCEPT !.pc = "reading"])
    \/ /\ rdr[i].pc = "reading" /\ (dev[h].data \/ dev[h].gone)
       /\ Reader(i, [rdr[i] EXCEPT !.pc = "read"])
    \/ /\ rdr[i].pc = "read"
       /\ Reader(i, [rdr[i] EXCEPT !.pc = "parked", !.ready = TRUE])

ReadsNothing(i) == rdr[i].pc = "reading" /\ Reader(i, [rdr[i] EXCEPT !.pc = "read"])

(* ~pipe_reader(): cancel until the thread is gone. *)
Cancel ==
    /\ call.pc = "cancel"
    /\ rdr' = [rdr EXCEPT ![call.i].pc = IF @ = "reading" THEN "read" ELSE @]
    /\ call' = [call EXCEPT !.pc = "await"]
    /\ UNCHANGED <<slots, free, dev, reg, wake, out>>

(* What is left of unwatch() and modify() once the thread has ended. *)
Joined ==
    LET i == call.i IN
    /\ rdr' = [rdr EXCEPT ![i] = NoReader] /\ call' = NoCall
    /\ IF slots[i].what = {}
       THEN slots' = [slots EXCEPT ![i] = Dead] /\ free' = Append(free, i)
       ELSE UNCHANGED <<slots, free>>
    /\ UNCHANGED <<dev, reg, wake, out>>

(* Variant: the thread is cancelled once and then waited for. *)
Await_Once ==
    /\ call.pc = "await" /\ rdr[call.i].pc = "ended"
    /\ Joined

(* WaitForSingleObject(thread, 1): the thread, or a millisecond. *)
Await ==
    /\ call.pc = "await"
    /\ \/ rdr[call.i].pc = "ended" /\ Joined
       \/ /\ rdr[call.i].pc # "ended" /\ call' = [call EXCEPT !.pc = "cancel"]
          /\ UNCHANGED <<slots, free, rdr, dev, reg, wake, out>>

(*-------------------------------------------------------------------------*)
(* Registrations                                                           *)
(*-------------------------------------------------------------------------*)
(* apply(): a pipe watched for reading only gets a thread, if one can be   *)
(* made.                                                                   *)
Started(h, what) ==
    IF Kind[h] = "pipe" /\ what = {"read"} THEN {NoReader, [NoReader EXCEPT !.pc = "parked"]}
    ELSE {NoReader}

(* watch(), add_slot() *)
Watch(r, h, what) ==
    LET fresh == free = <<>>
        idx   == IF fresh THEN Len(slots) + 1 ELSE free[Len(free)]
        new   == [h |-> h, token |-> r, what |-> what, live |-> TRUE]
    IN /\ Idle /\ reg[r] = 0
       /\ \A i \in Live : slots[i].h # h
       /\ Cardinality(Live) < MaxWatched
       /\ slots' = IF fresh THEN Append(slots, new) ELSE [slots EXCEPT ![idx] = new]
       /\ free' = IF fresh THEN free ELSE SubSeq(free, 1, Len(free) - 1)
       /\ \E x \in Started(h, what) : rdr' = [rdr EXCEPT ![idx] = x]
       /\ reg' = [reg EXCEPT ![r] = idx]
       /\ UNCHANGED <<dev, wake, call, out>>

(* unwatch() and modify(): reader.reset() joins the thread, and the slot   *)
(* is freed, or changed, after it.  `what` = {} stands for unwatch().      *)
Change(r, what) ==
    LET i == reg[r] IN
    /\ Idle /\ i # 0
    /\ reg' = IF what = {} THEN [reg EXCEPT ![r] = 0] ELSE reg
    /\ IF what # {"read"} /\ rdr[i].pc # "none"
       THEN /\ slots' = [slots EXCEPT ![i].what = what]
            /\ rdr' = [rdr EXCEPT ![i].quit = TRUE]
            /\ call' = [NoCall EXCEPT !.pc = "cancel", !.i = i]
            /\ UNCHANGED free
       ELSE /\ IF what = {} THEN slots' = [slots EXCEPT ![i] = Dead] /\ free' = Append(free, i)
               ELSE slots' = [slots EXCEPT ![i].what = what] /\ UNCHANGED free
            /\ \E x \in IF rdr[i].pc # "none" THEN {rdr[i]} ELSE Started(slots[i].h, what) :
                  rdr' = [rdr EXCEPT ![i] = x]
            /\ UNCHANGED call
    /\ UNCHANGED <<dev, wake, out>>

Wake == wake' = TRUE /\ UNCHANGED <<slots, free, rdr, dev, reg, call, out>>

(* The pipe's peer writes, closes, fills or drains it, an event is set;    *)
(* the owner consumes what it was told of.                                 *)
Peer(h) ==
    /\ \/ ~dev[h].gone /\ dev' = [dev EXCEPT ![h].data = TRUE]
       \/ Kind[h] = "pipe" /\ dev' = [dev EXCEPT ![h].gone = TRUE, ![h].full = FALSE]
       \/ Kind[h] = "pipe" /\ ~dev[h].gone /\ dev' = [dev EXCEPT ![h].full = ~@]
       \/ Idle /\ dev' = [dev EXCEPT ![h].data = FALSE]
    /\ UNCHANGED <<slots, free, rdr, reg, wake, call, out>>

(*-------------------------------------------------------------------------*)
(* wait()                                                                  *)
(*-------------------------------------------------------------------------*)
StartWait(t) ==
    /\ Idle
    /\ call' = [NoCall EXCEPT !.pc = "probe", !.t = t] /\ out' = Nothing
    /\ UNCHANGED <<slots, free, rdr, dev, reg, wake>>

Probing == call.pc = "probe"
Reporting(what, i) ==
    out' = IF what = {} THEN out
           ELSE [out EXCEPT !.ready = @ \cup {[token |-> slots[i].token, what |-> what]}]

ProbeWake ==
    /\ Probing /\ call.i = 0
    /\ out' = [out EXCEPT !.woken = @ \/ wake] /\ wake' = FALSE
    /\ call' = [call EXCEPT !.i = 1, !.must = FALSE]
    /\ UNCHANGED <<slots, free, rdr, dev, reg>>

(* Variant: the reader is told to read again before `ready` is reset, and  *)
(* may have set it by then.                                                *)
Rearmed_Late(r, spur) ==
    {[r EXCEPT !.ready = FALSE, !.rearm = TRUE, !.armed = TRUE, !.spurious = spur],
     [r EXCEPT !.ready = FALSE, !.rearm = FALSE, !.armed = TRUE, !.spurious = spur]}

(* ResetEvent(ready); SetEvent(rearm) *)
Rearmed(r, spur) ==
    {[r EXCEPT !.ready = FALSE, !.rearm = TRUE, !.armed = TRUE, !.spurious = spur]}

(* probe_pipe_read(): [what is reported, the reader afterwards]. *)
probe_pipe_read(i) ==
    LET r        == rdr[i]
        d        == dev[slots[i].h]
        threaded == r.pc # "none" /\ r.can
        fired    == threaded /\ r.armed
        off      == IF fired THEN [r EXCEPT !.armed = FALSE] ELSE r
        spur     == IF fired THEN r.spurious + 1 ELSE r.spurious
    IN IF fired /\ ~r.ready THEN {<<{}, r>>}
       ELSE IF d.data THEN {<<{"read"}, [off EXCEPT !.spurious = 0]>>}
       ELSE IF d.gone THEN {<<{"read", "hangup"}, off>>}
       ELSE IF ~threaded THEN {<<{}, off>>}
       ELSE IF spur > MaxSpurious THEN {<<{}, [off EXCEPT !.can = FALSE]>>}
       ELSE {<<{}, x>> : x \in Rearmed(off, spur)}

(* A backed-up pipe says nothing; one whose reader is gone fails at once. *)
probe_pipe_write(h) ==
    IF dev[h].full THEN {} ELSE IF dev[h].gone THEN {"write", "hangup", "error"} ELSE {"write"}

(* One slot of probe(): what is not a pipe says at once what it is, a      *)
(* pipe's read side is peeked at.                                          *)
ProbeSlot ==
    LET i == call.i
        s == slots[i]
        on == s.live /\ Cardinality(out.ready) < Cap
        set == dev[s.h].data
        says == CASE Kind[s.h] = "waitable" -> IF set THEN s.what ELSE {}
                  [] Kind[s.h] = "stream" -> {d \in s.what : d = "write" \/ set}
                  [] Kind[s.h] = "file" -> s.what
    IN /\ Probing /\ i \in DOMAIN slots
       /\ \/ /\ ~on /\ call' = [call EXCEPT !.i = i + 1] /\ UNCHANGED <<rdr, out>>
          \/ /\ on /\ Kind[s.h] # "pipe"
             /\ Reporting(says, i)
             /\ call' = [call EXCEPT !.i = i + 1] /\ UNCHANGED rdr
          \/ /\ on /\ Kind[s.h] = "pipe"
             /\ \E p \in IF "read" \in s.what THEN probe_pipe_read(i) ELSE {<<{}, rdr[i]>>} :
                  /\ rdr' = [rdr EXCEPT ![i] = p[2]]
                  /\ call' = [call EXCEPT !.pc = "check", !.rd = p[1]]
             /\ UNCHANGED out
       /\ UNCHANGED <<slots, free, dev, reg, wake>>

(* The rest of a pipe's turn: is it one that must be polled, and its write *)
(* side.                                                                   *)
ProbeCheck ==
    LET i == call.i
        s == slots[i]
        unread  == "read" \in s.what /\ (rdr[i].pc = "none" \/ ~rdr[i].can)
        asks    == "write" \in s.what /\ "hangup" \notin call.rd
        writes  == IF asks THEN probe_pipe_write(s.h) ELSE {}
    IN /\ call.pc = "check"
       /\ Reporting(call.rd \cup writes, i)
       /\ call' = [call EXCEPT !.pc = "probe", !.i = i + 1, !.rd = {},
                               !.must = @ \/ unread \/ (asks /\ writes = {})]
       /\ UNCHANGED <<slots, free, rdr, dev, reg, wake>>

(* Variant: the waker is left out of the wait list. *)
WaitList_Deaf ==
    {<<"handle", i>> : i \in {j \in Live : Kind[slots[j].h] = "waitable"}}

(* What the sleep is woken by: the waker, the handles whose signal means   *)
(* something, the pipe readers that are armed.                             *)
WaitList ==
    {<<"wake", 0>>}
      \cup {<<"handle", i>> : i \in {j \in Live :
              \/ Kind[slots[j].h] = "waitable"
              \/ Kind[slots[j].h] = "stream" /\ "read" \in slots[j].what}}
      \cup {<<"ready", i>> : i \in {j \in Live :
              /\ Kind[slots[j].h] = "pipe" /\ "read" \in slots[j].what
              /\ rdr[j].pc # "none" /\ rdr[j].armed /\ rdr[j].can}}
Signalled(x) ==
    CASE x[1] = "wake" -> wake
      [] x[1] = "handle" -> dev[slots[x[2]].h].data
      [] x[1] = "ready" -> rdr[x[2]].ready

(* probe() is over: return what it found, or the timeout, or sleep. *)
ProbeDone ==
    LET any   == out.woken \/ out.ready # {}
        over  == ~call.first /\ call.t # None /\ call.spent >= call.t
        left  == IF call.t = None THEN None
                 ELSE IF call.spent >= call.t THEN 0 ELSE call.t - call.spent
        slice == IF call.must /\ (left = None \/ left > Quantum) THEN Quantum ELSE left
    IN /\ Probing /\ call.i > Len(slots)
       /\ IF any \/ over
          THEN /\ out' = [out EXCEPT !.timeout = ~any]
               /\ call' = [call EXCEPT !.pc = "returned"]
          ELSE /\ call' = [call EXCEPT !.pc = "asleep", !.hs = WaitList, !.slice = slice]
               /\ UNCHANGED out
       /\ UNCHANGED <<slots, free, rdr, dev, reg, wake>>

(* WaitForMultipleObjects returns: something signalled, or the slice ended. *)
Wakes ==
    /\ call.pc = "asleep"
    /\ call.slice = 0 \/ \E x \in call.hs : Signalled(x)
    /\ call' = [call EXCEPT !.pc = "probe", !.i = 0, !.first = FALSE, !.hs = {}, !.slice = None]
    /\ UNCHANGED <<slots, free, rdr, dev, reg, wake, out>>

Tick ==
    /\ call.pc = "asleep" /\ call.slice # None /\ call.slice > 0
    /\ call' = [call EXCEPT !.slice = @ - 1, !.spent = IF call.t = None THEN @ ELSE @ + 1]
    /\ UNCHANGED <<slots, free, rdr, dev, reg, wake, out>>

Return ==
    /\ call.pc = "returned"
    /\ call' = NoCall /\ out' = Nothing
    /\ UNCHANGED <<slots, free, rdr, dev, reg, wake>>

(* The loop thread goes on: it finishes the call it is in and waits again. *)
LoopSteps ==
    \/ ProbeWake \/ ProbeSlot \/ ProbeCheck \/ ProbeDone \/ Wakes \/ Tick \/ Return
    \/ Cancel \/ Await
    \/ \E t \in Timeouts : StartWait(t)
ReaderSteps(i) == Parked(i) \/ Reads(i)

WaitNext ==
    \/ LoopSteps \/ Wake
    \/ \E i \in DOMAIN rdr : ReaderSteps(i) \/ ReadsNothing(i)
    \/ \E h \in Handles : Peer(h)
    \/ \E r \in Regs : \/ \E what \in Interests \cup {{}} : Change(r, what)
                       \/ \E h \in Handles, what \in Interests : Watch(r, h, what)

(* Data or a hangup on a pipe watched for reading reaches wait(): the      *)
(* handshake of armed, ready and rearm never leaves the reactor asleep on  *)
(* a pipe nobody is watching, at any timeout, "no deadline" included.      *)
Has(r) == /\ reg[r] # 0 /\ Kind[slots[reg[r]].h] = "pipe" /\ "read" \in slots[reg[r]].what
          /\ dev[slots[reg[r]].h].data \/ dev[slots[reg[r]].h].gone
PipeSeen == \A r \in Regs : Has(r) ~> (~Has(r) \/ \E x \in out.ready : x.token = r)

(* Dropping a registration, or asking a pipe for its write side, joins the *)
(* reader thread: the cancel may land before the thread enters its read,   *)
(* and the call still returns.                                             *)
JoinEnds == call.pc \in {"cancel", "await"} ~> call.pc = "idle"

(* A wake is never lost: whenever it was posted, some wait() reports it. *)
WakeReported == wake ~> out.woken
=============================================================================
