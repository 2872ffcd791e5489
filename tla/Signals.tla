------------------------------ MODULE Signals ------------------------------
(***************************************************************************)
(* Signal sources: posix/signals.cpp, a self-pipe per source fed by a      *)
(* signal handler, and windows/console_signals.cpp, an event per source    *)
(* fed by a console control handler.  The two share their protocol; where  *)
(* they differ, Console says which one this is.  A handle (pipe or event)  *)
(* gets a number of its own; closing one and opening the next never reuse  *)
(* a number, so a write to a handle that is not open is a write to one     *)
(* that was closed and may be somebody else's by now.                      *)
(***************************************************************************)
EXTENDS Naturals, FiniteSets

CONSTANTS Console,      \* windows/console_signals.cpp, else posix/signals.cpp
          Slots,        \* kSlots of them
          Sigs, Stopping,      \* signals; those whose inherited SIG_IGN is honoured
          Inherited,    \* Inherited[s]: the disposition before the first install
          Handlers,     \* contexts a handler can run in
          Clients, Wanted,     \* sources, and what each of them asks for
          MaxHandles    \* bound on the handles ever opened

VARIABLES slot,         \* slot[i]: [fd, wants, pending, own, used]; fd is what is published
          signalled,    \* handles with a byte in the pipe, or a set event
          open, made,   \* handles open now, and ever opened
          mu,           \* g_mu: the client in its critical section, or none
          running,      \* g_in_handler
          disp, refs, prev,    \* dispositions, g_refs and g_prev
          h,            \* h[t]: a handler run: [pc, sig, at, fd]
          c,            \* c[x]: a source: [pc, slot, got]
          buffered,     \* an unpublish that other threads cannot see yet
          stray         \* somebody wrote to a closed handle

sgvars == <<slot, signalled, open, made, mu, running, disp, refs, prev, h, c, buffered, stray>>
tables == <<disp, refs, prev>>
NoClient == {}

SigInit ==
    /\ slot = [i \in Slots |-> [fd |-> 0, wants |-> {}, pending |-> {}, own |-> 0, used |-> FALSE]]
    /\ signalled = {} /\ open = {} /\ made = 0 /\ mu = NoClient /\ running = 0
    /\ disp = Inherited /\ refs = [s \in Sigs |-> 0] /\ prev = Inherited
    /\ h = [t \in Handlers |-> [pc |-> "idle", sig |-> CHOOSE s \in Sigs : TRUE, at |-> 0, fd |-> 0]]
    /\ c = [x \in Clients |-> [pc |-> "none", slot |-> 0, got |-> {}]]
    /\ buffered = FALSE /\ stray = FALSE

-----------------------------------------------------------------------------
(* install(), under g_mu: a free slot, a handle, the handlers, and only    *)
(* then what the handler reads: wants, and last the handle.                *)
At(x, pc) == c[x].pc = pc
FreeSlots == {i \in Slots : ~slot[i].used}
Ours(s) == disp[s] = "ours"

(* Variant: an inherited SIG_IGN is replaced like any other disposition. *)
Granted_Greedy(x) == Wanted[x]
Granted(x) == {s \in Wanted[x] : Ours(s) \/ s \notin Stopping \/ disp[s] # "ignored"}

(* Only these can a console control event deliver. *)
deliverable(x) == Wanted[x] \cap Stopping

Install(x) ==
    /\ At(x, "none") /\ mu = NoClient /\ FreeSlots # {} /\ made < MaxHandles
    /\ LET i == CHOOSE j \in FreeSlots : \A k \in FreeSlots : j <= k
           n == made + 1
       IN /\ mu' = {x} /\ made' = n /\ open' = open \cup {n}
          /\ slot' = [slot EXCEPT ![i] = [@ EXCEPT !.used = TRUE, !.own = n, !.pending = {}]]
          /\ c' = [c EXCEPT ![x] = [pc |-> "adding", slot |-> i, got |-> {}]]
    /\ UNCHANGED <<signalled, running, tables, h, buffered, stray>>

(* No slot, or no pipe: an error, and nothing is left behind. *)
InstallFails(x) ==
    /\ At(x, "none") /\ mu = NoClient
    /\ c' = [c EXCEPT ![x].pc = "failed"]
    /\ UNCHANGED <<slot, signalled, open, made, mu, running, tables, h, buffered, stray>>

(* Variant: what was there is saved again by every source. *)
add_handlers_Resaved(x) ==
    /\ At(x, "adding") /\ ~Console
    /\ refs' = [s \in Sigs |-> refs[s] + (IF s \in Granted(x) THEN 1 ELSE 0)]
    /\ prev' = [s \in Sigs |-> IF s \in Granted(x) THEN disp[s] ELSE prev[s]]
    /\ disp' = [s \in Sigs |-> IF s \in Granted(x) THEN "ours" ELSE disp[s]]
    /\ c' = [c EXCEPT ![x] = [@ EXCEPT !.pc = "wants", !.got = Granted(x)]]
    /\ UNCHANGED <<slot, signalled, open, made, mu, running, h, buffered, stray>>

(* add_handler(): the first to want a signal replaces and saves it. *)
add_handlers(x) ==
    /\ At(x, "adding") /\ ~Console
    /\ refs' = [s \in Sigs |-> refs[s] + (IF s \in Granted(x) THEN 1 ELSE 0)]
    /\ prev' = [s \in Sigs |-> IF s \in Granted(x) /\ refs[s] = 0 THEN disp[s] ELSE prev[s]]
    /\ disp' = [s \in Sigs |-> IF s \in Granted(x) THEN "ours" ELSE disp[s]]
    /\ c' = [c EXCEPT ![x] = [@ EXCEPT !.pc = "wants", !.got = Granted(x)]]
    /\ UNCHANGED <<slot, signalled, open, made, mu, running, h, buffered, stray>>

(* The one control handler is added by the first source (g_sources). *)
add_ctrl_handler(x) ==
    /\ At(x, "adding") /\ Console
    /\ refs' = [s \in Sigs |-> refs[s] + 1] /\ disp' = [s \in Sigs |-> "ours"]
    /\ c' = [c EXCEPT ![x] = [@ EXCEPT !.pc = "wants", !.got = deliverable(x)]]
    /\ UNCHANGED <<slot, signalled, open, made, mu, running, prev, h, buffered, stray>>

PublishWants(x) ==
    /\ At(x, "wants") /\ c' = [c EXCEPT ![x].pc = "fd"]
    /\ slot' = [slot EXCEPT ![c[x].slot].wants = c[x].got]
    /\ UNCHANGED <<signalled, open, made, mu, running, tables, h, buffered, stray>>

PublishHandle(x) ==
    /\ At(x, "fd") /\ c' = [c EXCEPT ![x].pc = "live"] /\ mu' = NoClient
    /\ slot' = [slot EXCEPT ![c[x].slot].fd = slot[c[x].slot].own]
    /\ UNCHANGED <<signalled, open, made, running, tables, h, buffered, stray>>

-----------------------------------------------------------------------------
(* on_signal() / on_ctrl(): counted in, each slot in turn, counted out. *)
Arrives(t, s) ==
    /\ h[t].pc = "idle" /\ Ours(s)
    /\ h' = [h EXCEPT ![t] = [pc |-> "entered", sig |-> s, at |-> 1, fd |-> 0]]
    /\ UNCHANGED <<slot, signalled, open, made, mu, running, tables, c, buffered, stray>>

CountIn(t) ==
    /\ h[t].pc = "entered" /\ h' = [h EXCEPT ![t].pc = "wants"] /\ running' = running + 1
    /\ UNCHANGED <<slot, signalled, open, made, mu, tables, c, buffered, stray>>

NextSlot(t) == IF h[t].at + 1 \in Slots THEN [h[t] EXCEPT !.pc = "wants", !.at = @ + 1, !.fd = 0]
                                        ELSE [h[t] EXCEPT !.pc = "leaving", !.fd = 0]
LoadWants(t) ==
    /\ h[t].pc = "wants"
    /\ h' = [h EXCEPT ![t] = IF h[t].sig \in slot[h[t].at].wants THEN [@ EXCEPT !.pc = "load"]
                                                                  ELSE NextSlot(t)]
    /\ UNCHANGED <<slot, signalled, open, made, mu, running, tables, c, buffered, stray>>

LoadFd(t) ==
    /\ h[t].pc = "load"
    /\ h' = [h EXCEPT ![t] = IF slot[h[t].at].fd = 0 THEN NextSlot(t)
                              ELSE [@ EXCEPT !.pc = "bit", !.fd = slot[h[t].at].fd]]
    /\ UNCHANGED <<slot, signalled, open, made, mu, running, tables, c, buffered, stray>>

SetBit(t) ==
    /\ h[t].pc = "bit" /\ h' = [h EXCEPT ![t].pc = "write"]
    /\ slot' = [slot EXCEPT ![h[t].at].pending = @ \cup {h[t].sig}]
    /\ UNCHANGED <<signalled, open, made, mu, running, tables, c, buffered, stray>>

Write(t) ==
    /\ h[t].pc = "write" /\ h' = [h EXCEPT ![t] = NextSlot(t)]
    /\ signalled' = signalled \cup ({h[t].fd} \cap open)
    /\ stray' = (stray \/ h[t].fd \notin open)
    /\ UNCHANGED <<slot, open, made, mu, running, tables, c, buffered>>

CountOut(t) ==
    /\ h[t].pc = "leaving" /\ h' = [h EXCEPT ![t].pc = "idle"] /\ running' = running - 1
    /\ UNCHANGED <<slot, signalled, open, made, mu, tables, c, buffered, stray>>

on_signal(t) == CountIn(t) \/ LoadWants(t) \/ LoadFd(t) \/ SetBit(t) \/ Write(t) \/ CountOut(t)

(* The same steps, with SetEvent() for the write. *)
on_ctrl(t) == on_signal(t)

HandlerStep(t) == IF Console THEN on_ctrl(t) ELSE on_signal(t)

-----------------------------------------------------------------------------
(* Variant: the bits first, then the bytes. *)
Take_BitsFirst(x) ==
    \/ /\ At(x, "live") /\ slot[c[x].slot].own \in signalled
       /\ slot' = [slot EXCEPT ![c[x].slot].pending = {}]
       /\ c' = [c EXCEPT ![x].pc = "taking"]
       /\ UNCHANGED <<signalled, open, made, mu, running, tables, h, buffered, stray>>
    \/ /\ At(x, "taking") /\ c' = [c EXCEPT ![x].pc = "live"]
       /\ signalled' = signalled \ {slot[c[x].slot].own}
       /\ UNCHANGED <<slot, open, made, mu, running, tables, h, buffered, stray>>

Drains(x) ==
    /\ At(x, "live") /\ slot[c[x].slot].own \in signalled
    /\ signalled' = signalled \ {slot[c[x].slot].own}
    /\ c' = [c EXCEPT ![x].pc = "taking"]
    /\ UNCHANGED <<slot, open, made, mu, running, tables, h, buffered, stray>>
TakesBits(x) ==
    /\ At(x, "taking") /\ c' = [c EXCEPT ![x].pc = "live"]
    /\ slot' = [slot EXCEPT ![c[x].slot].pending = {}]
    /\ UNCHANGED <<signalled, open, made, mu, running, tables, h, buffered, stray>>

(* take(): the loop woke for the handle; drain it, then take the bits.  On *)
(* Windows the event is looked up under g_mu.                              *)
Take(x) == Drains(x) \/ TakesBits(x)
console_take(x) == (mu = NoClient /\ Drains(x)) \/ TakesBits(x)

-----------------------------------------------------------------------------
(* release(), under g_mu: unpublish, restore, wait out the handlers, close. *)
(* The posix unpublish is a seq_cst exchange; the Windows one is a release  *)
(* store, which the acquire load of the spin may pass.                      *)
Unpublished == [slot EXCEPT ![c[CHOOSE x \in mu : TRUE].slot] = [@ EXCEPT !.wants = {}, !.fd = 0]]

Release(x) ==
    /\ At(x, "live") /\ mu = NoClient /\ mu' = {x}
    /\ c' = [c EXCEPT ![x].pc = "unpublish"]
    /\ UNCHANGED <<slot, signalled, open, made, running, tables, h, buffered, stray>>

Unpublish(x) ==
    /\ At(x, "unpublish") /\ ~Console
    /\ c' = [c EXCEPT ![x].pc = "restore"] /\ slot' = Unpublished
    /\ UNCHANGED <<signalled, open, made, mu, running, tables, h, buffered, stray>>

console_unpublish(x) ==
    /\ At(x, "unpublish") /\ Console
    /\ c' = [c EXCEPT ![x].pc = "spin"] /\ buffered' = TRUE
    /\ UNCHANGED <<slot, signalled, open, made, mu, running, tables, h, stray>>

Flush ==
    /\ buffered /\ buffered' = FALSE /\ slot' = Unpublished
    /\ UNCHANGED <<signalled, open, made, mu, running, tables, h, c, stray>>

(* drop_handler(): the last source of a signal restores what was there. *)
drop_handlers(x) ==
    LET last(s) == s \in c[x].got /\ refs[s] = 1 IN
    /\ At(x, "restore") /\ c' = [c EXCEPT ![x].pc = "spin"]
    /\ refs' = [s \in Sigs |-> refs[s] - (IF s \in c[x].got THEN 1 ELSE 0)]
    /\ disp' = [s \in Sigs |-> IF last(s) THEN prev[s] ELSE disp[s]]
    /\ UNCHANGED <<slot, signalled, open, made, mu, running, prev, h, buffered, stray>>

(* Variant: the handle is closed without waiting for the handlers. *)
Spin_Skipped(x) ==
    /\ At(x, "spin") /\ c' = [c EXCEPT ![x].pc = "close"]
    /\ UNCHANGED <<slot, signalled, open, made, mu, running, tables, h, buffered, stray>>
Spin(x) ==
    /\ At(x, "spin") /\ running = 0
    /\ c' = [c EXCEPT ![x].pc = "close"]
    /\ UNCHANGED <<slot, signalled, open, made, mu, running, tables, h, buffered, stray>>

Closed(x) ==
    /\ At(x, "close") /\ c' = [c EXCEPT ![x].pc = "unlock"]
    /\ open' = open \ {slot[c[x].slot].own}
    /\ signalled' = signalled \ {slot[c[x].slot].own}
    /\ UNCHANGED <<slot, made, mu, running, prev, h, buffered, stray>>

Close(x) == ~Console /\ Closed(x) /\ UNCHANGED <<disp, refs>>

(* The last source takes the control handler out. *)
console_close(x) ==
    /\ Console /\ Closed(x)
    /\ refs' = [s \in Sigs |-> refs[s] - 1]
    /\ disp' = [s \in Sigs |-> IF refs[s] = 1 THEN prev[s] ELSE disp[s]]

Unlock(x) ==
    /\ At(x, "unlock") /\ mu' = NoClient /\ buffered' = FALSE
    /\ slot' = [slot EXCEPT ![c[x].slot] =
                  [fd |-> 0, wants |-> {}, pending |-> {}, own |-> 0, used |-> FALSE]]
    /\ c' = [c EXCEPT ![x] = [pc |-> "none", slot |-> 0, got |-> {}]]
    /\ UNCHANGED <<signalled, open, made, running, tables, h, stray>>

ClientStep(x) == \/ add_handlers(x) \/ add_ctrl_handler(x) \/ PublishWants(x) \/ PublishHandle(x)
                 \/ IF Console THEN console_take(x) ELSE Take(x)
                 \/ Unpublish(x) \/ console_unpublish(x) \/ drop_handlers(x) \/ Spin(x)
                 \/ Close(x) \/ console_close(x) \/ Unlock(x)

SigNext ==
    \/ \E t \in Handlers : HandlerStep(t) \/ \E s \in Sigs : Arrives(t, s)
    \/ \E x \in Clients : ClientStep(x) \/ Install(x) \/ InstallFails(x) \/ Release(x)
    \/ Flush

-----------------------------------------------------------------------------
(* A signal that was noted is seen: the bit is never set with nothing to   *)
(* wake the loop, unless the handler is about to write or the loop is      *)
(* about to take the bits.                                                 *)
NoSignalLost ==
    \A x \in Clients : At(x, "live") /\ slot[c[x].slot].pending # {} =>
      \/ slot[c[x].slot].own \in signalled
      \/ \E t \in Handlers : h[t].pc = "write" /\ h[t].at = c[x].slot

(* No handler writes to a handle after its source closed it. *)
NoStrayWrite == ~stray

(* With every source gone, each signal does again what it did before, and  *)
(* a signal the parent told us to ignore is never taken over.              *)
PreviousRestored ==
    /\ (\A x \in Clients : c[x].pc \in {"none", "failed"}) => disp = Inherited
    /\ \A s \in Stopping : Inherited[s] = "ignored" /\ ~Console => disp[s] = "ignored"
=============================================================================
