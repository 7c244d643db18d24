------------------------------ MODULE Runtime ------------------------------
(***************************************************************************)
(* The public runtime, src/src/r_client_runtime.c: the UDP sockets it owns, *)
(* the loop that drains a readable one, and their replacement when the      *)
(* servers ask for another source port.  The core client is seen through    *)
(* what the runtime can tell of it: how many requests are in flight and     *)
(* whether a rebind is pending.                                             *)
(*                                                                          *)
(* One thread calls the runtime, and other code of the process opens and    *)
(* closes descriptors at any time, so a descriptor number that was closed   *)
(* may denote something else a moment later.  pc is the frame on top of the *)
(* stack: the event loop ("host"), r_runtime_client_init at one of its      *)
(* sockets or at its end, recvfrom in r_runtime_client_on_readable          *)
(* ("recv"), the completion callback, or runtime_on_steering_feedback       *)
(* ("rebind").                                                              *)
(***************************************************************************)
EXTENDS Steering, Sequences

CONSTANTS
    Fd,             \* descriptor numbers
    NoFd,           \* R_RUNTIME_INVALID_SOCKET
    MaxInflight,    \* bound on the requests in flight
    Rebuild         \* whether the host polls again after a callback or a
                    \* cancel ("rebind") or finishes its batch ("batch")

ASSUME RuntimeAssumption ==
    /\ NoFd \notin Fd
    /\ MaxInflight \in Nat
    /\ Rebuild \in {"batch", "rebind"}

VARIABLES
    table,          \* the descriptors of the process
    sockets,        \* runtime->sockets, of length runtime->socket_count
    alive,          \* runtime->handle is not NULL
    inflight,       \* requests in client->inflight
    pending,        \* client->steering_rebind_pending
    pc,             \* the frame on top of the stack
    reading,        \* socket_value of the running on_readable
    inCallback,     \* a completion callback is on the stack
    new,            \* replacements, as far as they are open
    batch           \* ready handles the host has still to handle

vars == <<table, sockets, alive, inflight, pending, pc, reading, inCallback,
          new, batch>>
client == <<alive, inflight, pending>>

Family == {"v4", "v6"}
Frame == {"host", "init4", "init6", "create", "recv", "callback", "rebind"}

Closed == [owner |-> "nobody", family |-> "none", port |-> NoPort]
Foreign == [owner |-> "others", family |-> "none", port |-> NoPort]
Bound(fam, p) == [owner |-> "runtime", family |-> fam, port |-> p]

Entry == {Closed, Foreign}
            \cup [owner : {"runtime"}, family : Family, port : Port]

Owned == {f \in Fd : table[f].owner = "runtime"}
FdsOf(s) == {s[i] : i \in DOMAIN s}
Distinct(s) == \A i, j \in DOMAIN s : s[i] = s[j] => i = j

\* The descriptors after close() of those in S.
Close(S) == [f \in Fd |-> IF f \in S THEN Closed ELSE table[f]]

\* open_udp_socket: socket() takes a free descriptor, bind() names it.
Open(f, fam, p) ==
    /\ table[f] = Closed
    /\ table' = [table EXCEPT ![f] = Bound(fam, p)]

Init ==
    /\ table = [f \in Fd |-> Closed]
    /\ sockets = <<>>
    /\ alive = FALSE
    /\ inflight = 0
    /\ pending = FALSE
    /\ pc = "host"
    /\ reading = NoFd
    /\ inCallback = FALSE
    /\ new = <<>>
    /\ batch = {}

-----------------------------------------------------------------------------
(* Initialization and destruction.                                         *)

\* memset, both handles invalid; a bad option returns before any socket.
InitBegins ==
    /\ pc = "host"
    /\ ~alive
    /\ pc' = "init4"
    /\ sockets' = <<>>
    /\ UNCHANGED <<table, client, reading, inCallback, new, batch>>

AfterOpen == IF pc = "init4" THEN "init6" ELSE "create"

\* Port zero: the system names an ephemeral port.
InitOpens(f, p) ==
    /\ pc \in {"init4", "init6"}
    /\ p # NoPort
    /\ Open(f, IF pc = "init4" THEN "v4" ELSE "v6", p)
    /\ sockets' = Append(sockets, f)
    /\ pc' = AfterOpen
    /\ UNCHANGED <<client, reading, inCallback, new, batch>>

InitSkips ==
    /\ pc \in {"init4", "init6"}
    /\ pc' = AfterOpen
    /\ UNCHANGED <<table, sockets, client, reading, inCallback, new, batch>>

InitSucceeds ==
    /\ pc = "create"
    /\ sockets # <<>>
    /\ alive' = TRUE
    /\ inflight' = 0
    /\ pending' = FALSE
    /\ pc' = "host"
    /\ UNCHANGED <<table, sockets, reading, inCallback, new, batch>>

\* What r_runtime_client_destroy does once the handle is gone.
CloseSockets ==
    /\ table' = Close(FdsOf(sockets))
    /\ sockets' = <<>>

\* No socket at all, or r_client_create refused.
InitFails ==
    /\ pc = "create"
    /\ CloseSockets
    /\ pc' = "host"
    /\ UNCHANGED <<client, reading, inCallback, new, batch>>

\* Never from within a callback (r_client.h).
Destroy ==
    /\ pc = "host"
    /\ alive
    /\ CloseSockets
    /\ alive' = FALSE
    /\ inflight' = 0
    /\ pending' = FALSE
    /\ batch' = {}
    /\ UNCHANGED <<pc, reading, inCallback, new>>

-----------------------------------------------------------------------------
(* The event loop of the host and the calls it makes.                      *)

ForeignOpens(f) ==
    /\ table[f] = Closed
    /\ table' = [table EXCEPT ![f] = Foreign]
    /\ UNCHANGED <<sockets, client, pc, reading, inCallback, new, batch>>

ForeignCloses(f) ==
    /\ table[f] = Foreign
    /\ table' = [table EXCEPT ![f] = Closed]
    /\ UNCHANGED <<sockets, client, pc, reading, inCallback, new, batch>>

\* The loop polls the current handles and is told which are ready.
Poll(ready) ==
    /\ pc = "host"
    /\ alive
    /\ batch = {}
    /\ batch' = ready
    /\ UNCHANGED <<table, sockets, client, pc, reading, inCallback, new>>

OnReadable(f) ==
    /\ pc = "host"
    /\ alive
    /\ f \in batch
    /\ batch' = batch \ {f}
    /\ reading' = f
    /\ pc' = "recv"
    /\ UNCHANGED <<table, sockets, client, inCallback, new>>

\* A host that keeps its batch works through it before anything else.
HostTurns == pc = "host" /\ (Rebuild = "batch" => batch = {})

\* The application is in control: the event loop or a callback.
Application == alive /\ (HostTurns \/ pc = "callback")

\* The handles the host keeps after a callback or a cancel.
Polled == IF Rebuild = "batch" THEN batch ELSE {}

Submit ==
    /\ Application
    /\ inflight < MaxInflight
    /\ inflight' = inflight + 1
    /\ UNCHANGED <<table, sockets, alive, pending, pc, reading, inCallback,
                   new, batch>>

-----------------------------------------------------------------------------
(* runtime_on_steering_feedback, called when the last request is gone.     *)

\* Mutant: the hook does not wait for the other requests.
DrainedAtOnce(left, wish) == wish

\* r_notify_steering_when_drained with left requests in flight.
Drained(left, wish) == wish /\ left = 0

StartRebind ==
    /\ pc' = "rebind"
    /\ pending' = FALSE
    /\ new' = <<>>

\* Mutant: the loop goes on with its socket whatever the callback did.
ResumeUnchecked(current) ==
    IF reading # NoFd
        THEN pc' = "recv" /\ UNCHANGED reading
        ELSE pc' = "host" /\ reading' = NoFd

\* The rest of r_runtime_client_on_readable after an OK datagram.
Resume(current) ==
    IF reading \in FdsOf(current)
        THEN pc' = "recv" /\ UNCHANGED reading
        ELSE pc' = "host" /\ reading' = NoFd

\* The hook returns to the frame that called it.
HookReturns(current) ==
    IF inCallback THEN pc' = "callback" /\ UNCHANGED reading ELSE Resume(current)

(* What bind() may answer for each port of a family: the ports the         *)
(* runtime's own sockets hold are occupied.                                *)
BindAnswers(fam) ==
    {bind \in [SteeringPort -> BindResult] :
        \A f \in Owned : table[f].family = fam /\ table[f].port \in SteeringPort
                            => bind[table[f].port] = "occupied"}

\* The socket of the next family, at the first free port past its own.
OpenReplacement(f, bind) ==
    /\ pc = "rebind"
    /\ Len(new) < Len(sockets)
    /\ LET old == table[sockets[Len(new) + 1]]
           first == r_client_next_steering_port(old.port)
           p == r_client_select_steering_port(first, bind)
       IN  /\ bind \in BindAnswers(old.family)
           /\ p # NoPort
           /\ Open(f, old.family, p)
    /\ new' = Append(new, f)
    /\ UNCHANGED <<sockets, client, pc, reading, inCallback, batch>>

\* Mutant: the replacements opened before the failure stay open.
RebindFailsOpen ==
    /\ pc = "rebind"
    /\ Len(new) < Len(sockets)
    /\ new' = <<>>
    /\ HookReturns(sockets)
    /\ UNCHANGED <<table, sockets, client, inCallback, batch>>

\* getsockname fails, a bind fails, no descriptor or no port is left.
RebindFails ==
    /\ pc = "rebind"
    /\ Len(new) < Len(sockets)
    /\ table' = Close(FdsOf(new))
    /\ new' = <<>>
    /\ HookReturns(sockets)
    /\ UNCHANGED <<sockets, client, inCallback, batch>>

SwapSockets ==
    /\ pc = "rebind"
    /\ Len(new) = Len(sockets)
    /\ table' = Close(FdsOf(sockets))
    /\ sockets' = new
    /\ new' = <<>>
    /\ HookReturns(new)
    /\ UNCHANGED <<client, inCallback, batch>>

-----------------------------------------------------------------------------
(* Datagrams, timers and cancellation.                                     *)

\* EAGAIN, a failed recvfrom, or a datagram for which memory is lacking.
ReadEnds ==
    /\ pc = "recv"
    /\ pc' = "host"
    /\ reading' = NoFd
    /\ UNCHANGED <<table, sockets, client, inCallback, new, batch>>

\* A datagram that completes nothing; PROTOCOL and AUTH skip the check.
ReadIgnored(noise) ==
    /\ pc = "recv"
    /\ IF noise THEN UNCHANGED <<pc, reading>> ELSE Resume(sockets)
    /\ UNCHANGED <<table, sockets, client, inCallback, new, batch>>

\* r_request_complete up to the callback; wish is req->steering_rebind.
Complete(wish) ==
    /\ inflight > 0
    /\ inflight' = inflight - 1
    /\ pending' = (pending \/ wish)
    /\ inCallback' = TRUE
    /\ pc' = "callback"
    /\ batch' = Polled
    /\ UNCHANGED <<table, sockets, alive, reading, new>>

ReadCompletes(wish) == pc = "recv" /\ Complete(wish)

TimeoutCompletes(wish) == HostTurns /\ alive /\ Complete(wish)

CallbackReturns ==
    /\ pc = "callback"
    /\ inCallback' = FALSE
    /\ IF Drained(inflight, pending)
        THEN StartRebind /\ UNCHANGED reading
        ELSE Resume(sockets) /\ UNCHANGED <<pending, new>>
    /\ UNCHANGED <<table, sockets, alive, inflight, batch>>

\* Also from within a callback, on another request.
Cancel ==
    /\ Application
    /\ inflight > 0
    /\ inflight' = inflight - 1
    /\ IF Drained(inflight - 1, pending)
        THEN StartRebind
        ELSE UNCHANGED <<pc, pending, new>>
    /\ batch' = Polled
    /\ UNCHANGED <<table, sockets, alive, reading, inCallback>>

Next ==
    \/ InitBegins \/ InitSkips \/ InitSucceeds \/ InitFails \/ Destroy
    \/ \E f \in Fd, p \in Port : InitOpens(f, p)
    \/ \E f \in Fd : ForeignOpens(f) \/ ForeignCloses(f) \/ OnReadable(f)
    \/ \E ready \in SUBSET FdsOf(sockets) : Poll(ready)
    \/ Submit \/ Cancel
    \/ \E f \in Fd, bind \in [SteeringPort -> BindResult] :
            OpenReplacement(f, bind)
    \/ RebindFails \/ SwapSockets
    \/ ReadEnds
    \/ \E noise \in BOOLEAN : ReadIgnored(noise)
    \/ \E wish \in BOOLEAN : ReadCompletes(wish) \/ TimeoutCompletes(wish)
    \/ CallbackReturns

Spec == Init /\ [][Next]_vars

-----------------------------------------------------------------------------
(* Properties.                                                             *)

\* Every variable has its type.
TypeOK ==
    /\ table \in [Fd -> Entry]
    /\ sockets \in Seq(Fd)
    /\ Len(sockets) <= 2
    /\ alive \in BOOLEAN
    /\ inflight \in 0 .. MaxInflight
    /\ pending \in BOOLEAN
    /\ pc \in Frame
    /\ reading \in Fd \cup {NoFd}
    /\ inCallback \in BOOLEAN
    /\ new \in Seq(Fd)
    /\ Len(new) <= Len(sockets)
    /\ batch \subseteq Fd

(* recvfrom is only ever called on a socket the runtime owns, though the   *)
(* callback of the datagram before may have replaced it and other code may *)
(* have taken its number since (r_runtime_client_on_readable, 924-933).    *)
OnlyOwnedRead == pc = "recv" => reading \in FdsOf(sockets) \cap Owned

(* Every socket the runtime has opened and not closed is in its table of   *)
(* sockets or is a replacement being acquired, none is listed twice, and   *)
(* a listed one is open: nothing leaks when a replacement fails halfway or *)
(* when initialization does.                                               *)
NoDescriptorLeak ==
    /\ Owned = FdsOf(sockets) \cup FdsOf(new)
    /\ FdsOf(sockets) \cap FdsOf(new) = {}
    /\ Distinct(sockets)

(* A replacement is all or nothing: while the client lives its sockets     *)
(* change only together, each for one of the same family on another port   *)
(* of the steering range, and only when no request awaits an answer on the *)
(* old ports (runtime_on_steering_feedback).                               *)
MovesTogether ==
    [][alive /\ alive' /\ sockets' # sockets =>
        /\ inflight = 0
        /\ Len(sockets') = Len(sockets)
        /\ \A i \in DOMAIN sockets :
            LET old == table[sockets[i]]
                now == table'[sockets'[i]]
            IN  /\ now.owner = "runtime"
                /\ now.family = old.family
                /\ now.port \in SteeringPort \ {old.port}]_vars

-----------------------------------------------------------------------------
(* The inductive invariant of the proofs.                                  *)

\* Which frames the state of the client allows.
FrameInv ==
    /\ pc \in {"recv", "callback", "rebind"} => alive
    /\ pc \in {"init4", "init6", "create"} => ~alive /\ ~inCallback
    /\ pc = "host" => ~inCallback
    /\ pc = "host" /\ ~alive => sockets = <<>>
    /\ pc = "init4" => sockets = <<>>
    /\ pc = "init6" => Len(sockets) <= 1
    /\ pc = "callback" => inCallback
    /\ pc = "recv" => ~inCallback /\ reading \in FdsOf(sockets)
    /\ pc = "rebind" => inflight = 0
    /\ pc # "rebind" => new = <<>>

\* A replacement has the family of its socket and a port of its own.
ReplacementInv ==
    \A i \in DOMAIN new :
        LET old == table[sockets[i]]
            now == table[new[i]]
        IN  /\ now.family = old.family
            /\ now.port \in SteeringPort
            /\ now.port # old.port

\* A host that polls again after callbacks and cancels has no old handle.
BatchInv ==
    /\ batch \subseteq FdsOf(sockets)
    /\ ~alive \/ inCallback \/ pc = "rebind" => batch = {}

(* The sockets, the replacements and the descriptors the runtime owns agree *)
(* in every frame, and the handles a careful host keeps are current.       *)
IInv ==
    /\ TypeOK
    /\ NoDescriptorLeak
    /\ Distinct(new)
    /\ FrameInv
    /\ ReplacementInv
    /\ BatchInv
=============================================================================
