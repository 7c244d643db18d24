--------------------------- MODULE RuntimeProofs ---------------------------
(***************************************************************************)
(* Proofs about Runtime for any descriptors, any port range and any number *)
(* of requests: the runtime reads, keeps and replaces only sockets it      *)
(* owns; and about the ports it moves through (Steering, SteeringWalk): it *)
(* finds the nearest free one and reuses none early.                       *)
(***************************************************************************)
EXTENDS Runtime, SteeringWalk, WellFoundedInduction, TLAPS

(* What the port scan returns is a port of the range that bind() granted   *)
(* (r_client_select_steering_port).                                        *)
LEMMA SelectedIsFree ==
    ASSUME NEW first \in Port, NEW answers \in [SteeringPort -> BindResult],
           r_client_select_steering_port(first, answers) # NoPort
    PROVE  LET p == r_client_select_steering_port(first, answers)
           IN  p \in SteeringPort /\ answers[p] = "ok"
<1> DEFINE Selected(p) ==
        \E n \in 1 .. R_STEERING_PORT_COUNT :
            \E c \in ScanOf(first, answers, n) : c[n] = p /\ answers[p] = "ok"
<1>1. \E p \in SteeringPort : Selected(p)
  BY DEF r_client_select_steering_port
<1>2. r_client_select_steering_port(first, answers)
        = CHOOSE p \in SteeringPort : Selected(p)
  BY <1>1 DEF r_client_select_steering_port
<1> HIDE DEF Selected
<1>3. LET p == CHOOSE q \in SteeringPort : Selected(q)
      IN  p \in SteeringPort /\ Selected(p)
  BY <1>1
<1> QED
  BY <1>2, <1>3 DEF Selected

(* Appending a descriptor adds it to the set of descriptors.               *)
LEMMA FdsOfAppend ==
    ASSUME NEW s \in Seq(Fd), NEW f \in Fd
    PROVE  FdsOf(Append(s, f)) = FdsOf(s) \cup {f}
<1>1. /\ DOMAIN Append(s, f) = 1 .. Len(s) + 1
      /\ DOMAIN s = 1 .. Len(s)
      /\ Len(s) \in Nat
      /\ Append(s, f)[Len(s) + 1] = f
      /\ \A i \in 1 .. Len(s) : Append(s, f)[i] = s[i]
  OBVIOUS
<1>2. ASSUME NEW x PROVE x \in FdsOf(Append(s, f)) <=> x \in FdsOf(s) \cup {f}
  <2>1. ASSUME x \in FdsOf(Append(s, f)) PROVE x \in FdsOf(s) \cup {f}
    <3>1. PICK i \in 1 .. Len(s) + 1 : x = Append(s, f)[i]
      BY <1>1, <2>1 DEF FdsOf
    <3> QED BY <1>1, <3>1 DEF FdsOf
  <2>2. ASSUME x \in FdsOf(s) PROVE x \in FdsOf(Append(s, f))
    <3>1. PICK i \in 1 .. Len(s) : x = s[i]
      BY <1>1, <2>2 DEF FdsOf
    <3>2. i \in 1 .. Len(s) + 1 /\ x = Append(s, f)[i]
      BY <1>1, <3>1
    <3> QED BY <1>1, <3>2 DEF FdsOf
  <2>3. f \in FdsOf(Append(s, f))
    BY <1>1 DEF FdsOf
  <2> QED BY <2>1, <2>2, <2>3
<1> QED BY <1>2

(* A descriptor that is not listed can be appended to a list without       *)
(* repetitions.                                                            *)
LEMMA DistinctAppend ==
    ASSUME NEW s \in Seq(Fd), NEW f \in Fd, Distinct(s), f \notin FdsOf(s)
    PROVE  Distinct(Append(s, f))
<1>1. /\ DOMAIN Append(s, f) = 1 .. Len(s) + 1
      /\ DOMAIN s = 1 .. Len(s)
      /\ Len(s) \in Nat
      /\ Append(s, f)[Len(s) + 1] = f
      /\ \A i \in 1 .. Len(s) : Append(s, f)[i] = s[i]
  OBVIOUS
<1>2. \A i \in 1 .. Len(s) : s[i] # f
  BY <1>1 DEF FdsOf
<1> QED
  BY <1>1, <1>2 DEF Distinct

(* The descriptors of a sequence are descriptors.                          *)
LEMMA FdsOfType ==
    ASSUME NEW s \in Seq(Fd)
    PROVE  FdsOf(s) \subseteq Fd /\ (FdsOf(s) = {} <=> s = <<>>)
<1>1. s \in [1 .. Len(s) -> Fd] /\ DOMAIN s = 1 .. Len(s) /\ Len(s) \in Nat
  OBVIOUS
<1>2. FdsOf(s) \subseteq Fd
  BY <1>1 DEF FdsOf
<1>3. s # <<>> => s[1] \in FdsOf(s)
  BY <1>1 DEF FdsOf
<1>4. FdsOf(<<>>) = {}
  BY DEF FdsOf
<1> QED BY <1>2, <1>3, <1>4

(* What the entries of the descriptor table are.                           *)
LEMMA EntryFacts ==
    /\ Closed \in Entry /\ Closed.owner = "nobody"
    /\ Foreign \in Entry /\ Foreign.owner = "others"
    /\ \A fam \in Family, p \in Port :
        /\ Bound(fam, p) \in Entry
        /\ Bound(fam, p).owner = "runtime"
        /\ Bound(fam, p).family = fam
        /\ Bound(fam, p).port = p
    /\ \A e \in Entry : e.owner = "runtime" => e.family \in Family
    /\ \A e \in Entry : e.port \in Port
<1>1. NoPort \in Port
  BY PortAssumption DEF NoPort, Port
<1>2. /\ Closed \in Entry /\ Closed.owner = "nobody" /\ Closed.port = NoPort
      /\ Foreign \in Entry /\ Foreign.owner = "others"
      /\ Foreign.port = NoPort
  BY DEF Entry, Closed, Foreign
<1>3. ASSUME NEW fam \in Family, NEW p \in Port
      PROVE  /\ Bound(fam, p) \in Entry
             /\ Bound(fam, p).owner = "runtime"
             /\ Bound(fam, p).family = fam
             /\ Bound(fam, p).port = p
  BY DEF Entry, Bound
<1>4. ASSUME NEW e \in Entry
      PROVE  (e.owner = "runtime" => e.family \in Family) /\ e.port \in Port
  <2>1. CASE e \in {Closed, Foreign}
    BY <1>1, <1>2, <2>1
  <2>2. CASE e \in [owner : {"runtime"}, family : Family, port : Port]
    BY <2>2
  <2> QED BY <2>1, <2>2 DEF Entry
<1> QED BY <1>2, <1>3, <1>4, Zenon

(* Closing descriptors takes exactly them out of the runtime's hands.      *)
LEMMA OwnedAfterClose ==
    ASSUME table \in [Fd -> Entry], NEW S, table' = Close(S)
    PROVE  /\ Owned' = Owned \ S
           /\ table' \in [Fd -> Entry]
           /\ \A f \in Fd \ S : table'[f] = table[f]
  BY EntryFacts DEF Owned, Close

(* Opening a socket adds its descriptor, which was free, to the runtime's. *)
LEMMA OwnedAfterOpen ==
    ASSUME table \in [Fd -> Entry], NEW f \in Fd, NEW fam \in Family,
           NEW p \in Port, Open(f, fam, p)
    PROVE  /\ Owned' = Owned \cup {f}
           /\ f \notin Owned
           /\ table' \in [Fd -> Entry]
           /\ \A g \in Fd \ {f} : table'[g] = table[g]
           /\ table'[f] = Bound(fam, p)
  BY EntryFacts DEF Owned, Open

\* The part of the invariant about descriptors.
SocketInv == NoDescriptorLeak /\ Distinct(new) /\ ReplacementInv

(* A step that leaves the descriptors alone keeps that part.               *)
LEMMA SocketsKept ==
    ASSUME SocketInv, UNCHANGED <<table, sockets, new>>
    PROVE  SocketInv'
  BY DEF SocketInv, NoDescriptorLeak, Owned, ReplacementInv, FdsOf, Distinct

(* The calls that neither open nor close a socket.                         *)
LEMMA QuietStep ==
    ASSUME IInv, Rebuild = "rebind",
           \/ InitBegins \/ InitSkips \/ InitSucceeds
           \/ (\E f \in Fd : OnReadable(f))
           \/ (\E ready \in SUBSET FdsOf(sockets) : Poll(ready))
           \/ Submit \/ Cancel \/ ReadEnds
           \/ (\E noise \in BOOLEAN : ReadIgnored(noise))
           \/ (\E wish \in BOOLEAN :
                    ReadCompletes(wish) \/ TimeoutCompletes(wish))
           \/ CallbackReturns
    PROVE  IInv'
<1> USE DEF IInv
<1>0. SocketInv
  BY DEF SocketInv
<1>1. FdsOf(sockets) \subseteq Fd
  BY FdsOfType DEF TypeOK
<1>2. ASSUME UNCHANGED <<table, sockets, new>>, TypeOK', FrameInv', BatchInv'
      PROVE  IInv'
  BY <1>0, <1>2, SocketsKept DEF SocketInv
<1>3. CASE InitBegins
  <2>1. UNCHANGED <<table, sockets, new>>
    BY <1>3 DEF InitBegins, FrameInv
  <2> QED
    BY <1>2, <1>3, <2>1 DEF InitBegins, TypeOK, FrameInv, BatchInv, FdsOf,
                            client, Frame
<1>4. CASE InitSkips
  <2>1. Len(sockets) \in Nat /\ (sockets = <<>> => Len(sockets) = 0)
    BY DEF TypeOK
  <2> QED
    BY <1>2, <1>4, <2>1 DEF InitSkips, AfterOpen, TypeOK, FrameInv, BatchInv,
                            FdsOf, client, Frame
<1>5. CASE InitSucceeds
  <2>1. inflight' \in 0 .. MaxInflight
    BY <1>5, RuntimeAssumption DEF InitSucceeds
  <2> QED
    BY <1>2, <1>5, <2>1 DEF InitSucceeds, TypeOK, FrameInv, BatchInv, FdsOf,
                            Frame
<1>6. ASSUME NEW f \in Fd, OnReadable(f) PROVE IInv'
  BY <1>2, <1>6 DEF OnReadable, TypeOK, FrameInv, BatchInv, FdsOf, client,
                    Frame
<1>7. ASSUME NEW ready \in SUBSET FdsOf(sockets), Poll(ready) PROVE IInv'
  BY <1>1, <1>2, <1>7 DEF Poll, TypeOK, FrameInv, BatchInv, FdsOf, client
<1>8. CASE Submit
  <2>1. pc \in {"host", "callback"} /\ inflight' \in 0 .. MaxInflight
    BY <1>8, RuntimeAssumption DEF Submit, Application, HostTurns, TypeOK
  <2> QED
    BY <1>2, <1>8, <2>1 DEF Submit, TypeOK, FrameInv, BatchInv, FdsOf
<1>9. CASE Cancel
  <2>1. pc \in {"host", "callback"} /\ alive /\ new = <<>>
    BY <1>9 DEF Cancel, Application, HostTurns, FrameInv
  <2>2. CASE Drained(inflight - 1, pending)
    <3>1. inflight' = 0 /\ inflight' \in 0 .. MaxInflight
      BY <1>9, <2>2, RuntimeAssumption DEF Cancel, Drained, TypeOK
    <3>2. /\ UNCHANGED <<table, sockets, alive, reading, inCallback, new>>
          /\ pc' = "rebind" /\ pending' = FALSE /\ batch' = {}
      BY <1>9, <2>1, <2>2 DEF Cancel, Polled, StartRebind
    <3> QED
      BY <1>2, <2>1, <3>1, <3>2 DEF TypeOK, FrameInv, BatchInv, FdsOf, Frame
  <2>3. CASE ~Drained(inflight - 1, pending)
    <3>1. inflight' \in 0 .. MaxInflight
      BY <1>9, RuntimeAssumption DEF Cancel, TypeOK
    <3>2. UNCHANGED <<pc, pending, new, sockets, table, alive, reading,
                      inCallback>>
      BY <1>9, <2>3 DEF Cancel
    <3>3. batch' = {}
      BY <1>9 DEF Cancel, Polled
    <3> QED
      BY <1>2, <2>1, <3>1, <3>2, <3>3 DEF TypeOK, FrameInv, BatchInv, FdsOf
  <2> QED BY <2>2, <2>3
<1>10. CASE ReadEnds
  BY <1>2, <1>10 DEF ReadEnds, TypeOK, FrameInv, BatchInv, FdsOf, client,
                     Frame
<1>11. ASSUME NEW noise \in BOOLEAN, ReadIgnored(noise) PROVE IInv'
  BY <1>2, <1>11 DEF ReadIgnored, Resume, TypeOK, FrameInv, BatchInv, FdsOf,
                     client, Frame
<1>12. ASSUME NEW wish \in BOOLEAN,
              ReadCompletes(wish) \/ TimeoutCompletes(wish)
       PROVE  IInv'
  <2>1. pc \in {"host", "recv"} /\ alive /\ Complete(wish)
    BY <1>12 DEF ReadCompletes, TimeoutCompletes, HostTurns, FrameInv
  <2> QED
    BY <1>2, <2>1, RuntimeAssumption DEF Complete, Polled, TypeOK, FrameInv,
                                         BatchInv, FdsOf, Frame
<1>13. CASE CallbackReturns
  <2>1. pc = "callback" /\ alive /\ inCallback /\ new = <<>> /\ batch = {}
    BY <1>13 DEF CallbackReturns, FrameInv, BatchInv
  <2>2. CASE Drained(inflight, pending)
    BY <1>2, <1>13, <2>1, <2>2
       DEF CallbackReturns, Drained, StartRebind, TypeOK, FrameInv, BatchInv,
           FdsOf, Frame
  <2>3. CASE ~Drained(inflight, pending)
    BY <1>2, <1>13, <2>1, <2>3
       DEF CallbackReturns, Resume, TypeOK, FrameInv, BatchInv, FdsOf, Frame
  <2> QED BY <2>2, <2>3
<1> QED
  BY <1>3, <1>4, <1>5, <1>6, <1>7, <1>8, <1>9, <1>10, <1>11, <1>12, <1>13

(* Descriptors that other code opens and closes.                           *)
LEMMA ForeignStep ==
    ASSUME IInv, NEW f \in Fd, ForeignOpens(f) \/ ForeignCloses(f)
    PROVE  IInv'
<1> USE DEF IInv
<1>1. /\ UNCHANGED <<sockets, alive, inflight, pending, pc, reading,
                     inCallback, new, batch>>
      /\ table[f] \in {Closed, Foreign}
      /\ \/ table' = [table EXCEPT ![f] = Foreign]
         \/ table' = [table EXCEPT ![f] = Closed]
  BY DEF ForeignOpens, ForeignCloses, client
<1>2. /\ Owned' = Owned
      /\ table' \in [Fd -> Entry]
      /\ \A g \in Owned : table'[g] = table[g]
  BY <1>1, EntryFacts DEF Owned, TypeOK
<1>3. TypeOK' /\ FrameInv' /\ BatchInv'
  BY <1>1, <1>2 DEF TypeOK, FrameInv, BatchInv, FdsOf
<1>4. NoDescriptorLeak' /\ Distinct(new)'
  BY <1>1, <1>2 DEF NoDescriptorLeak, FdsOf, Distinct
<1>5. ReplacementInv'
  <2>1. \A i \in DOMAIN new : i \in DOMAIN sockets
    BY DEF TypeOK
  <2>2. \A i \in DOMAIN new : new[i] \in Owned /\ sockets[i] \in Owned
    BY <2>1 DEF NoDescriptorLeak, FdsOf
  <2> QED BY <1>1, <1>2, <2>2 DEF ReplacementInv
<1> QED BY <1>3, <1>4, <1>5

(* A socket opened by initialization.                                      *)
LEMMA InitOpensStep ==
    ASSUME IInv, NEW f \in Fd, NEW p \in Port, InitOpens(f, p)
    PROVE  IInv'
<1> USE DEF IInv
<1> DEFINE fam == IF pc = "init4" THEN "v4" ELSE "v6"
<1>1. fam \in Family /\ Open(f, fam, p)
  BY DEF InitOpens, Family
<1>2. /\ Owned' = Owned \cup {f}
      /\ f \notin Owned
      /\ table' \in [Fd -> Entry]
  BY <1>1, OwnedAfterOpen DEF TypeOK
<1>3. /\ pc \in {"init4", "init6"} /\ ~alive /\ ~inCallback /\ new = <<>>
      /\ Len(sockets) <= 1 /\ (pc = "init4" => Len(sockets) = 0)
  BY DEF InitOpens, FrameInv
<1>4. /\ sockets' = Append(sockets, f)
      /\ UNCHANGED <<alive, inflight, pending, reading, inCallback, new,
                     batch>>
      /\ pc' \in {"init6", "create"}
      /\ pc' = "init6" => pc = "init4"
  BY <1>3 DEF InitOpens, AfterOpen, client
<1>5. /\ sockets' \in Seq(Fd)
      /\ Len(sockets') = Len(sockets) + 1
      /\ Len(sockets) \in Nat
  BY <1>4 DEF TypeOK
<1>6. FdsOf(sockets') = FdsOf(sockets) \cup {f}
  BY <1>4, FdsOfAppend DEF TypeOK
<1>7. FdsOf(new) = {} /\ Owned = FdsOf(sockets)
  BY <1>3 DEF FdsOf, NoDescriptorLeak
<1>8. Distinct(sockets')
  BY <1>2, <1>4, <1>7, DistinctAppend DEF TypeOK, NoDescriptorLeak
<1>9. TypeOK'
  <2>1. Len(sockets') <= 2 /\ Len(new') <= Len(sockets')
    BY <1>3, <1>4, <1>5
  <2> QED BY <1>2, <1>4, <1>5, <2>1 DEF TypeOK, Frame
<1>10. FrameInv'
  BY <1>3, <1>4, <1>5 DEF FrameInv
<1>11. BatchInv'
  BY <1>3, <1>4, <1>6 DEF BatchInv
<1>12. FdsOf(new)' = {} /\ FdsOf(sockets)' = FdsOf(sockets) \cup {f}
  BY <1>4, <1>6, <1>7 DEF FdsOf
<1>13. NoDescriptorLeak'
  BY <1>2, <1>7, <1>8, <1>12 DEF NoDescriptorLeak, Distinct
<1>14. Distinct(new)' /\ ReplacementInv'
  BY <1>3, <1>4 DEF Distinct, ReplacementInv
<1> QED BY <1>9, <1>10, <1>11, <1>13, <1>14

(* r_runtime_client_destroy and a failed initialization.                   *)
LEMMA CloseStep ==
    ASSUME IInv, InitFails \/ Destroy
    PROVE  IInv'
<1> USE DEF IInv
<1>1. /\ pc \in {"create", "host"} /\ pc' = "host"
      /\ CloseSockets
      /\ alive' = FALSE
      /\ inflight' \in {0, inflight} /\ pending' \in {FALSE, pending}
      /\ batch' \in {{}, batch}
      /\ pc = "host" => batch' = {}
      /\ UNCHANGED <<reading, inCallback, new>>
  BY DEF InitFails, Destroy, FrameInv, client, TypeOK
<1>2. new = <<>> /\ ~inCallback
  BY <1>1 DEF FrameInv
<1>3. /\ Owned' = Owned \ FdsOf(sockets)
      /\ table' \in [Fd -> Entry]
  BY <1>1, OwnedAfterClose DEF CloseSockets, TypeOK
<1>4. FdsOf(new) = {} /\ Owned = FdsOf(sockets)
  BY <1>2 DEF FdsOf, NoDescriptorLeak
<1>5. sockets' = <<>> /\ Len(sockets') = 0 /\ Len(new') = 0
  BY <1>1, <1>2 DEF CloseSockets
<1>6. batch' = {}
  BY <1>1 DEF BatchInv, FrameInv
<1>7. 0 \in 0 .. MaxInflight
  BY RuntimeAssumption
<1>8. TypeOK'
  <2>1. inflight' \in 0 .. MaxInflight /\ pending' \in BOOLEAN
    BY <1>1, <1>7 DEF TypeOK
  <2>2. sockets' \in Seq(Fd) /\ Len(sockets') <= 2 /\ Len(new') <= Len(sockets')
    BY <1>5
  <2> QED BY <1>1, <1>3, <1>6, <2>1, <2>2 DEF TypeOK, Frame
<1>9. FrameInv' /\ BatchInv'
  BY <1>1, <1>2, <1>5, <1>6 DEF FrameInv, BatchInv
<1>10. FdsOf(sockets)' = {} /\ FdsOf(new)' = {} /\ Owned' = {}
  BY <1>1, <1>2, <1>3, <1>4, <1>5 DEF FdsOf
<1>11. NoDescriptorLeak' /\ Distinct(new)' /\ ReplacementInv'
  BY <1>1, <1>2, <1>5, <1>10 DEF NoDescriptorLeak, Distinct, ReplacementInv
<1> QED BY <1>8, <1>9, <1>11

(* The hook returns to a frame that the invariant allows.                  *)
LEMMA HookReturnFacts ==
    ASSUME NEW s, HookReturns(s)
    PROVE  \/ inCallback /\ pc' = "callback" /\ reading' = reading
           \/ ~inCallback /\ pc' = "recv" /\ reading' = reading
                /\ reading \in FdsOf(s)
           \/ ~inCallback /\ pc' = "host" /\ reading' = NoFd
  BY DEF HookReturns, Resume

(* One replacement is acquired.                                            *)
LEMMA OpenReplacementStep ==
    ASSUME IInv, NEW f \in Fd, NEW answers \in [SteeringPort -> BindResult],
           OpenReplacement(f, answers)
    PROVE  IInv'
<1> USE DEF IInv
<1> DEFINE i == Len(new) + 1
           old == table[sockets[i]]
           first == r_client_next_steering_port(old.port)
           p == r_client_select_steering_port(first, answers)
<1>1. /\ pc = "rebind" /\ Len(new) < Len(sockets)
      /\ answers \in BindAnswers(old.family)
      /\ p # NoPort
      /\ Open(f, old.family, p)
      /\ new' = Append(new, f)
      /\ UNCHANGED <<sockets, alive, inflight, pending, pc, reading,
                     inCallback, batch>>
  BY DEF OpenReplacement, client
<1>2. i \in DOMAIN sockets /\ Len(new) \in Nat
  BY <1>1 DEF TypeOK
<1>3. sockets[i] \in Owned /\ sockets[i] \in Fd
  BY <1>2 DEF NoDescriptorLeak, FdsOf, Owned
<1>4. old \in Entry /\ old.owner = "runtime" /\ old.family \in Family
        /\ old.port \in Port
  BY <1>3, EntryFacts DEF Owned, TypeOK
<1>5. first \in Port
  BY <1>4, PortAssumption DEF r_client_next_steering_port, Port
<1> HIDE DEF first
<1>6. p \in SteeringPort /\ answers[p] = "ok" /\ p \in Port
  BY <1>1, <1>5, SelectedIsFree, PortAssumption DEF SteeringPort, Port
<1> HIDE DEF p
<1>7. p # old.port
  BY <1>1, <1>3, <1>4, <1>6 DEF BindAnswers
<1>8. /\ Owned' = Owned \cup {f}
      /\ f \notin Owned
      /\ table' \in [Fd -> Entry]
      /\ \A g \in Fd \ {f} : table'[g] = table[g]
      /\ table'[f] = Bound(old.family, p)
  BY <1>1, <1>4, <1>6, OwnedAfterOpen DEF TypeOK
<1> HIDE DEF old, i
<1>9. /\ new' \in Seq(Fd) /\ Len(new') = Len(new) + 1
      /\ DOMAIN new = 1 .. Len(new) /\ DOMAIN new' = 1 .. Len(new) + 1
      /\ new'[Len(new) + 1] = f
      /\ \A j \in 1 .. Len(new) : new'[j] = new[j]
  BY <1>1 DEF TypeOK
<1>10. FdsOf(new') = FdsOf(new) \cup {f}
  BY <1>1, FdsOfAppend DEF TypeOK
<1>11. f \notin FdsOf(new) /\ f \notin FdsOf(sockets)
  BY <1>8 DEF NoDescriptorLeak
<1>12. Distinct(new')
  BY <1>1, <1>11, DistinctAppend DEF TypeOK
<1>13. TypeOK'
  <2>1. Len(new') <= Len(sockets)
    BY <1>1, <1>2, <1>9 DEF TypeOK
  <2> QED BY <1>1, <1>8, <1>9, <2>1 DEF TypeOK
<1>14. FrameInv' /\ BatchInv'
  BY <1>1 DEF FrameInv, BatchInv, FdsOf
<1>15. FdsOf(sockets)' = FdsOf(sockets) /\ FdsOf(new)' = FdsOf(new) \cup {f}
  BY <1>1, <1>10 DEF FdsOf
<1>16. NoDescriptorLeak' /\ Distinct(new)'
  BY <1>1, <1>8, <1>11, <1>12, <1>15 DEF NoDescriptorLeak, Distinct
<1>17. ReplacementInv'
  <2> SUFFICES ASSUME NEW j \in 1 .. Len(new) + 1
               PROVE  /\ table'[new'[j]].family = table'[sockets[j]].family
                      /\ table'[new'[j]].port \in SteeringPort
                      /\ table'[new'[j]].port # table'[sockets[j]].port
    BY <1>1, <1>9 DEF ReplacementInv
  <2>1. j \in DOMAIN sockets
    BY <1>1, <1>2 DEF TypeOK
  <2>2. sockets[j] \in FdsOf(sockets) /\ sockets[j] \in Fd
    BY <2>1 DEF FdsOf, TypeOK
  <2>3. table'[sockets[j]] = table[sockets[j]]
    BY <1>8, <1>11, <2>2
  <2>4. CASE j = Len(new) + 1
    <3>1. table'[new'[j]] = Bound(old.family, p)
      BY <1>8, <1>9, <2>4
    <3>2. table[sockets[j]] = old
      BY <2>4 DEF old, i
    <3> QED BY <1>4, <1>6, <1>7, <2>3, <3>1, <3>2, EntryFacts
  <2>5. CASE j \in 1 .. Len(new)
    <3>1. new'[j] = new[j] /\ new[j] \in FdsOf(new) /\ new[j] \in Fd
      BY <1>9, <2>5 DEF FdsOf, TypeOK
    <3>2. table'[new'[j]] = table[new[j]]
      BY <1>8, <1>11, <3>1
    <3> QED BY <1>9, <2>3, <2>5, <3>2 DEF ReplacementInv
  <2> QED BY <1>2, <2>4, <2>5
<1> QED BY <1>13, <1>14, <1>16, <1>17

(* A failed replacement closes what it had opened.                         *)
LEMMA RebindFailsStep ==
    ASSUME IInv, RebindFails
    PROVE  IInv'
<1> USE DEF IInv
<1>1. /\ pc = "rebind" /\ alive /\ inflight = 0 /\ batch = {}
      /\ table' = Close(FdsOf(new))
      /\ new' = <<>>
      /\ HookReturns(sockets)
      /\ UNCHANGED <<sockets, alive, inflight, pending, inCallback, batch>>
  BY DEF RebindFails, client, FrameInv, BatchInv
<1>2. Owned' = Owned \ FdsOf(new) /\ table' \in [Fd -> Entry]
  BY <1>1, OwnedAfterClose DEF TypeOK
<1>3. FdsOf(new)' = {} /\ FdsOf(sockets)' = FdsOf(sockets) /\ Len(new') = 0
  BY <1>1 DEF FdsOf
<1>4. NoDescriptorLeak' /\ Distinct(new)' /\ ReplacementInv'
  BY <1>1, <1>2, <1>3 DEF NoDescriptorLeak, Distinct, ReplacementInv
<1>5. /\ pc' \in {"callback", "recv", "host"}
      /\ reading' \in Fd \cup {NoFd}
      /\ pc' = "callback" <=> inCallback
      /\ pc' = "recv" => reading' \in FdsOf(sockets)
  BY <1>1, HookReturnFacts DEF TypeOK
<1>6. TypeOK'
  <2>1. new' \in Seq(Fd) /\ Len(new') <= Len(sockets')
    BY <1>1, <1>3 DEF TypeOK
  <2> QED BY <1>1, <1>2, <1>5, <2>1 DEF TypeOK, Frame
<1>7. FrameInv' /\ BatchInv'
  BY <1>1, <1>3, <1>5 DEF FrameInv, BatchInv
<1> QED BY <1>4, <1>6, <1>7

(* The replacements take the place of the sockets, which are closed.       *)
LEMMA SwapStep ==
    ASSUME IInv, SwapSockets
    PROVE  IInv'
<1> USE DEF IInv
<1>1. /\ pc = "rebind" /\ alive /\ inflight = 0 /\ batch = {}
      /\ Len(new) = Len(sockets)
      /\ table' = Close(FdsOf(sockets))
      /\ sockets' = new
      /\ new' = <<>>
      /\ HookReturns(new)
      /\ UNCHANGED <<alive, inflight, pending, inCallback, batch>>
  BY DEF SwapSockets, client, FrameInv, BatchInv
<1>2. Owned' = Owned \ FdsOf(sockets) /\ table' \in [Fd -> Entry]
  BY <1>1, OwnedAfterClose DEF TypeOK
<1>3. FdsOf(new)' = {} /\ FdsOf(sockets)' = FdsOf(new) /\ Len(new') = 0
  BY <1>1 DEF FdsOf
<1>4. NoDescriptorLeak' /\ Distinct(new)' /\ ReplacementInv'
  BY <1>1, <1>2, <1>3 DEF NoDescriptorLeak, Distinct, ReplacementInv
<1>5. /\ pc' \in {"callback", "recv", "host"}
      /\ reading' \in Fd \cup {NoFd}
      /\ pc' = "callback" <=> inCallback
      /\ pc' = "recv" => reading' \in FdsOf(new)
  BY <1>1, HookReturnFacts DEF TypeOK
<1>6. TypeOK'
  <2>1. /\ sockets' \in Seq(Fd) /\ Len(sockets') <= 2
        /\ new' \in Seq(Fd) /\ Len(new') <= Len(sockets')
    BY <1>1, <1>3 DEF TypeOK
  <2> QED BY <1>1, <1>2, <1>5, <2>1 DEF TypeOK, Frame
<1>7. FrameInv' /\ BatchInv'
  BY <1>1, <1>3, <1>5 DEF FrameInv, BatchInv
<1> QED BY <1>4, <1>6, <1>7

-----------------------------------------------------------------------------
(* The invariant holds from the start and is kept by every step, for a     *)
(* host that polls again after every callback and every cancel.            *)
THEOREM SocketBookkeeping == Rebuild = "rebind" => (Spec => []IInv)
<1> SUFFICES ASSUME Rebuild = "rebind" PROVE Spec => []IInv
  OBVIOUS
<1>1. Init => IInv
  <2> SUFFICES ASSUME Init PROVE IInv
    OBVIOUS
  <2>1. /\ FdsOf(sockets) = {} /\ FdsOf(new) = {} /\ Owned = {}
        /\ table \in [Fd -> Entry]
    BY EntryFacts DEF Init, FdsOf, Owned
  <2>2. TypeOK
    <3>1. /\ inflight \in 0 .. MaxInflight
          /\ sockets \in Seq(Fd) /\ Len(sockets) = 0
          /\ new \in Seq(Fd) /\ Len(new) = 0
      BY RuntimeAssumption DEF Init
    <3>2. Len(sockets) <= 2 /\ Len(new) <= Len(sockets)
      BY <3>1
    <3>3. /\ alive \in BOOLEAN /\ pending \in BOOLEAN /\ inCallback \in BOOLEAN
          /\ pc \in Frame /\ reading \in Fd \cup {NoFd} /\ batch \subseteq Fd
      BY Zenon DEF Init, Frame
    <3> QED BY <2>1, <3>1, <3>2, <3>3, Zenon DEF TypeOK
  <2>3. FrameInv /\ BatchInv
    BY DEF Init, FrameInv, BatchInv
  <2>4. NoDescriptorLeak /\ Distinct(new) /\ ReplacementInv
    BY <2>1 DEF Init, NoDescriptorLeak, Distinct, ReplacementInv
  <2> QED BY <2>2, <2>3, <2>4 DEF IInv
<1>2. IInv /\ [Next]_vars => IInv'
  <2> SUFFICES ASSUME IInv, [Next]_vars PROVE IInv'
    OBVIOUS
  <2>1. CASE Next
    <3>1. CASE InitBegins \/ InitSkips \/ InitSucceeds \/ Submit \/ Cancel
                \/ ReadEnds \/ CallbackReturns
      BY <3>1, QuietStep
    <3>2. CASE InitFails \/ Destroy
      BY <3>2, CloseStep
    <3>3. CASE \E f \in Fd, p \in Port : InitOpens(f, p)
      BY <3>3, InitOpensStep
    <3>4. CASE \E f \in Fd :
                ForeignOpens(f) \/ ForeignCloses(f) \/ OnReadable(f)
      BY <3>4, ForeignStep, QuietStep
    <3>5. CASE \E ready \in SUBSET FdsOf(sockets) : Poll(ready)
      BY <3>5, QuietStep
    <3>6. CASE \E f \in Fd, answers \in [SteeringPort -> BindResult] :
                OpenReplacement(f, answers)
      BY <3>6, OpenReplacementStep
    <3>7. CASE RebindFails \/ SwapSockets
      BY <3>7, RebindFailsStep, SwapStep
    <3>8. CASE \E noise \in BOOLEAN : ReadIgnored(noise)
      BY <3>8, QuietStep
    <3>9. CASE \E wish \in BOOLEAN :
                ReadCompletes(wish) \/ TimeoutCompletes(wish)
      BY <3>9, QuietStep
    <3> QED
      BY <2>1, <3>1, <3>2, <3>3, <3>4, <3>5, <3>6, <3>7, <3>8, <3>9 DEF Next
  <2>2. CASE UNCHANGED vars
    BY <2>2 DEF vars, IInv, TypeOK, NoDescriptorLeak, Owned, Distinct, FdsOf,
                FrameInv, ReplacementInv, BatchInv
  <2> QED BY <2>1, <2>2
<1> QED BY <1>1, <1>2, PTL DEF Spec

(* recvfrom is only called on sockets the runtime owns: the check of the   *)
(* drain loop is enough (r_runtime_client_on_readable).                    *)
THEOREM OwnedReads == Rebuild = "rebind" => (Spec => []OnlyOwnedRead)
<1>1. IInv => OnlyOwnedRead
  BY DEF IInv, FrameInv, NoDescriptorLeak, OnlyOwnedRead
<1> QED BY <1>1, SocketBookkeeping, PTL

(* No socket is lost, whatever fails during initialization or rebinding.   *)
THEOREM NoLostSocket == Rebuild = "rebind" => (Spec => []NoDescriptorLeak)
<1>1. IInv => NoDescriptorLeak
  BY DEF IInv
<1> QED BY <1>1, SocketBookkeeping, PTL

(* The sockets of a living client are replaced together, family by family, *)
(* on new ports of the range, and only when nothing is in flight           *)
(* (runtime_on_steering_feedback).                                         *)
THEOREM ReplacedTogether == Rebuild = "rebind" => (Spec => MovesTogether)
<1> SUFFICES ASSUME Rebuild = "rebind" PROVE Spec => MovesTogether
  OBVIOUS
<1> DEFINE Moved ==
        alive /\ alive' /\ sockets' # sockets =>
            /\ inflight = 0
            /\ Len(sockets') = Len(sockets)
            /\ \A i \in DOMAIN sockets :
                LET old == table[sockets[i]]
                    now == table'[sockets'[i]]
                IN  /\ now.owner = "runtime"
                    /\ now.family = old.family
                    /\ now.port \in SteeringPort \ {old.port}
<1>1. IInv /\ [Next]_vars => [Moved]_vars
  <2> SUFFICES ASSUME IInv, Next, alive, alive', sockets' # sockets
               PROVE  /\ inflight = 0
                      /\ Len(sockets') = Len(sockets)
                      /\ \A i \in DOMAIN sockets :
                            /\ table'[sockets'[i]].owner = "runtime"
                            /\ table'[sockets'[i]].family
                                    = table[sockets[i]].family
                            /\ table'[sockets'[i]].port
                                    \in SteeringPort \ {table[sockets[i]].port}
    OBVIOUS
  <2>1. SwapSockets
    BY DEF Next, InitBegins, InitSkips, InitSucceeds, InitFails, Destroy,
           InitOpens, ForeignOpens, ForeignCloses, OnReadable, Poll, Submit,
           Cancel, OpenReplacement, RebindFails, ReadEnds, ReadIgnored,
           ReadCompletes, TimeoutCompletes, Complete, CallbackReturns,
           CloseSockets, IInv, FrameInv, client
  <2>2. /\ pc = "rebind" /\ Len(new) = Len(sockets) /\ sockets' = new
        /\ table' = Close(FdsOf(sockets))
    BY <2>1 DEF SwapSockets
  <2>3. inflight = 0
    BY <2>2 DEF IInv, FrameInv
  <2>4. DOMAIN sockets = DOMAIN new
    BY <2>2 DEF IInv, TypeOK
  <2>5. \A f \in Fd \ FdsOf(sockets) : table'[f] = table[f]
    BY <2>2, OwnedAfterClose DEF IInv, TypeOK
  <2>6. ASSUME NEW i \in DOMAIN new
        PROVE  table'[new[i]] = table[new[i]] /\ table[new[i]].owner = "runtime"
    <3>1. new[i] \in FdsOf(new)
      BY DEF FdsOf
    <3>2. new[i] \in Owned /\ new[i] \notin FdsOf(sockets)
      BY <3>1 DEF IInv, NoDescriptorLeak
    <3> QED BY <2>5, <3>2 DEF Owned
  <2> QED BY <2>2, <2>3, <2>4, <2>6 DEF IInv, ReplacementInv
<1>2. Spec => [][Next]_vars
  BY DEF Spec
<1> QED BY <1>1, <1>2, SocketBookkeeping, PTL DEF MovesTogether

-----------------------------------------------------------------------------
(* The choice of a port, and the ports a family goes through               *)

(* Every set of numbers that is not empty has a least one. *)
LEMMA Least ==
    ASSUME NEW S \in SUBSET Nat, S # {}
    PROVE  \E n \in S : \A m \in S : n <= m
<1>1. IsWellFoundedOn(OpToRel(<, Nat), Nat)
  BY NatLessThanWellFounded
<1>2. PICK x \in S : \A y \in S : ~ (<<y, x>> \in OpToRel(<, Nat))
  BY <1>1, WFMin
<1>3. \A y \in S : y < x => <<y, x>> \in OpToRel(<, Nat)
  BY DEF OpToRel
<1>4. \A y \in S : ~ (y < x)
  BY <1>2, <1>3, Zenon
<1>5. ASSUME NEW y \in S PROVE x <= y
  <2>1. ~ (y < x) /\ x \in Nat /\ y \in Nat
    BY <1>4
  <2> QED BY <2>1, SMT
<1> QED BY <1>5, Zenon

(* The i-th candidate of a scan that begins at port f. *)
Candidate(f, i) ==
    IF f + i - 1 <= PortMax THEN f + i - 1 ELSE f + i - 1 - R_STEERING_PORT_COUNT

(* How many candidates lie between them, without division. *)
Steps(p, q) == IF q >= p THEN q - p ELSE q - p + R_STEERING_PORT_COUNT

LEMMA PortFacts ==
    /\ R_STEERING_PORT_MIN \in Nat /\ PortMax \in Nat /\ R_STEERING_PORT_MIN > 0
    /\ R_STEERING_PORT_COUNT \in Nat /\ R_STEERING_PORT_COUNT > 1
    /\ R_STEERING_PORT_COUNT = PortMax - R_STEERING_PORT_MIN + 1
    /\ \A p : p \in SteeringPort <=>
           p \in Nat /\ R_STEERING_PORT_MIN <= p /\ p <= PortMax
BY PortAssumption DEF R_STEERING_PORT_COUNT, SteeringPort

LEMMA StepsMod ==
    ASSUME NEW p \in SteeringPort, NEW q \in SteeringPort
    PROVE  (q - p) % R_STEERING_PORT_COUNT = Steps(p, q)
<1>1. /\ p \in Nat /\ q \in Nat /\ R_STEERING_PORT_COUNT \in Nat \ {0}
      /\ q - p < R_STEERING_PORT_COUNT /\ p - q < R_STEERING_PORT_COUNT
  BY PortFacts
<1>2. ASSUME NEW a \in Int, NEW n \in Nat \ {0}, 0 <= a, a < n PROVE a % n = a
  BY <1>2
<1>3. ASSUME NEW a \in Int, NEW n \in Nat \ {0}, a < 0, 0 < a + n PROVE a % n = a + n
  BY <1>3
<1> QED BY <1>1, <1>2, <1>3 DEF Steps

LEMMA CandidateSteps ==
    ASSUME NEW f \in SteeringPort
    PROVE  /\ \A i \in 1 .. R_STEERING_PORT_COUNT :
                  Candidate(f, i) \in SteeringPort /\ Steps(f, Candidate(f, i)) = i - 1
           /\ \A p \in SteeringPort :
                  /\ Steps(f, p) + 1 \in 1 .. R_STEERING_PORT_COUNT
                  /\ Candidate(f, Steps(f, p) + 1) = p
           /\ Candidate(f, 1) = f
           /\ \A i \in 1 .. R_STEERING_PORT_COUNT - 1 :
                  r_client_next_steering_port(Candidate(f, i)) = Candidate(f, i + 1)
BY PortFacts DEF Candidate, Steps, r_client_next_steering_port

(* A scan is the run of candidates from its first port on. *)
LEMMA ScanCandidates ==
    ASSUME NEW first \in Port, NEW answers \in [SteeringPort -> BindResult],
           NEW n \in 1 .. R_STEERING_PORT_COUNT
    PROVE  /\ FirstCandidate(first) \in SteeringPort
           /\ \A c \in ScanOf(first, answers, n) :
                  \A i \in 1 .. n : c[i] = Candidate(FirstCandidate(first), i)
           /\ (\A i \in 1 .. n - 1 : answers[Candidate(FirstCandidate(first), i)] = "occupied")
                  => [i \in 1 .. n |-> Candidate(FirstCandidate(first), i)]
                         \in ScanOf(first, answers, n)
<1> DEFINE f == FirstCandidate(first)
<1>1. f \in SteeringPort
  BY PortFacts DEF FirstCandidate, Port
<1> HIDE DEF f
<1>2. ASSUME NEW c \in ScanOf(first, answers, n) PROVE \A i \in 1 .. n : c[i] = Candidate(f, i)
  <2> DEFINE Bad == {i \in 1 .. n : c[i] # Candidate(f, i)}
  <2> SUFFICES ASSUME Bad # {} PROVE FALSE
    OBVIOUS
  <2>1. n \in Nat /\ n <= R_STEERING_PORT_COUNT /\ R_STEERING_PORT_COUNT \in Nat
    BY PortFacts
  <2>2. Bad \in SUBSET Nat
    BY <2>1
  <2>3. PICK i \in Bad : \A j \in Bad : i <= j
    BY <2>2, Least
  <2>4. i # 1
    BY <1>1, CandidateSteps DEF ScanOf, f
  <2>5. i - 1 \in 1 .. n - 1 /\ i - 1 \in 1 .. n /\ i - 1 \in 1 .. R_STEERING_PORT_COUNT - 1
        /\ i \in Nat /\ (i - 1) + 1 = i
    BY <2>1, <2>3, <2>4
  <2>6. c[i - 1] = Candidate(f, i - 1)
    BY <2>3, <2>5
  <2>7. c[i] = r_client_next_steering_port(c[i - 1])
    BY <2>5 DEF ScanOf
  <2>8. r_client_next_steering_port(Candidate(f, i - 1)) = Candidate(f, i)
    BY <1>1, <2>5, CandidateSteps
  <2> QED BY <2>3, <2>6, <2>7, <2>8
<1>3. ASSUME \A i \in 1 .. n - 1 : answers[Candidate(f, i)] = "occupied"
      PROVE  [i \in 1 .. n |-> Candidate(f, i)] \in ScanOf(first, answers, n)
  <2> DEFINE c == [i \in 1 .. n |-> Candidate(f, i)]
  <2>1. n \in Nat /\ 1 \in 1 .. n /\ n <= R_STEERING_PORT_COUNT /\ R_STEERING_PORT_COUNT \in Nat
    BY PortFacts
  <2>2. c \in [1 .. n -> SteeringPort]
    BY <1>1, <2>1, CandidateSteps
  <2>3. c[1] = f
    BY <1>1, <2>1, CandidateSteps
  <2>4. ASSUME NEW i \in 1 .. n - 1
        PROVE  answers[c[i]] = "occupied" /\ c[i + 1] = r_client_next_steering_port(c[i])
    <3>1. i \in 1 .. n /\ i + 1 \in 1 .. n /\ i \in 1 .. R_STEERING_PORT_COUNT - 1
      BY <2>1
    <3>2. c[i] = Candidate(f, i) /\ c[i + 1] = Candidate(f, i + 1)
      BY <3>1
    <3> QED BY <1>1, <1>3, <3>1, <3>2, CandidateSteps
  <2> HIDE DEF c
  <2> QED BY <2>2, <2>3, <2>4 DEF ScanOf, f, c
<1> QED BY <1>1, <1>2, <1>3 DEF f

(* The scan finds the nearest port that is not occupied. *)
LEMMA NearestPort ==
    ASSUME NEW first \in Port, NEW answers \in [SteeringPort -> BindResult]
    PROVE  LET f == FirstCandidate(first)
               open == {p \in SteeringPort : answers[p] # "occupied"}
               free == {p \in open : /\ \A q \in open : Steps(f, p) <= Steps(f, q)
                                     /\ answers[p] = "ok"}
           IN  r_client_select_steering_port(first, answers)
                   \in (IF free = {} THEN {NoPort} ELSE free)
<1> DEFINE f == FirstCandidate(first)
           open == {p \in SteeringPort : answers[p] # "occupied"}
           free == {p \in open : /\ \A q \in open : Steps(f, p) <= Steps(f, q)
                                 /\ answers[p] = "ok"}
           Selected(p) ==
               \E n \in 1 .. R_STEERING_PORT_COUNT :
                   \E c \in ScanOf(first, answers, n) : c[n] = p /\ answers[p] = "ok"
           result == r_client_select_steering_port(first, answers)
<1>1. f \in SteeringPort
  BY PortFacts DEF FirstCandidate, Port
<1>2. /\ (\E p \in SteeringPort : Selected(p)) =>
             result = CHOOSE p \in SteeringPort : Selected(p)
      /\ (~ \E p \in SteeringPort : Selected(p)) => result = NoPort
  BY DEF r_client_select_steering_port
<1>3. \A p \in SteeringPort : Steps(f, p) \in 0 .. R_STEERING_PORT_COUNT - 1
  BY <1>1, PortFacts DEF Steps
<1>4. ASSUME NEW p \in SteeringPort
      PROVE  Selected(p) <=> p \in free
  <2> DEFINE n == Steps(f, p) + 1
  <2>1. n \in 1 .. R_STEERING_PORT_COUNT /\ Candidate(f, n) = p
    BY <1>1, CandidateSteps
  <2>2. ASSUME Selected(p) PROVE p \in free
    <3>1. PICK m \in 1 .. R_STEERING_PORT_COUNT :
              \E c \in ScanOf(first, answers, m) : c[m] = p /\ answers[p] = "ok"
      BY <2>2
    <3>2. PICK c \in ScanOf(first, answers, m) : c[m] = p /\ answers[p] = "ok"
      BY <3>1
    <3>3. /\ m \in Nat /\ m \in 1 .. m
          /\ \A i \in 1 .. m : c[i] = Candidate(f, i)
      <4>1. m \in Nat /\ m \in 1 .. m
        BY PortFacts
      <4>2. \A i \in 1 .. m : c[i] = Candidate(f, i)
        BY ScanCandidates
      <4> QED BY <4>1, <4>2
    <3>4. Steps(f, p) = m - 1
      BY <1>1, <3>2, <3>3, CandidateSteps
    <3>5. p \in open
      BY <3>2
    <3>6. ASSUME NEW q \in open PROVE Steps(f, p) <= Steps(f, q)
      <4> SUFFICES ASSUME Steps(f, q) < Steps(f, p) PROVE FALSE
        BY <1>3
      <4> DEFINE i == Steps(f, q) + 1
      <4>1. i \in 1 .. m - 1 /\ i \in 1 .. m
        BY <1>3, <3>3, <3>4
      <4>2. c[i] = q
        <5>1. q \in SteeringPort
          OBVIOUS
        <5>2. Candidate(f, i) = q
          BY <1>1, <5>1, CandidateSteps
        <5>3. c[i] = Candidate(f, i)
          BY <3>3, <4>1
        <5> QED BY <5>2, <5>3
      <4>3. answers[c[i]] = "occupied"
        BY <4>1 DEF ScanOf
      <4> QED BY <4>2, <4>3
    <3> QED BY <3>2, <3>5, <3>6
  <2>3. ASSUME p \in free PROVE Selected(p)
    <3>1. ASSUME NEW i \in 1 .. n - 1 PROVE answers[Candidate(f, i)] = "occupied"
      <4>1. i \in 1 .. R_STEERING_PORT_COUNT /\ i - 1 < Steps(f, p)
        BY <1>3, <2>1, PortFacts
      <4>2. Candidate(f, i) \in SteeringPort /\ Steps(f, Candidate(f, i)) = i - 1
        BY <1>1, <4>1, CandidateSteps
      <4>3. Candidate(f, i) \notin open
        <5> SUFFICES ASSUME Candidate(f, i) \in open PROVE FALSE
          OBVIOUS
        <5>1. Steps(f, p) <= i - 1
          BY <2>3, <4>2
        <5> QED BY <1>3, <4>1, <5>1
      <4> QED BY <4>2, <4>3
    <3> DEFINE c == [i \in 1 .. n |-> Candidate(f, i)]
    <3>2. c \in ScanOf(first, answers, n)
      BY <2>1, <3>1, ScanCandidates
    <3>3. c[n] = p
      BY <2>1, PortFacts
    <3> QED BY <2>1, <2>3, <3>2, <3>3
  <2> QED BY <2>2, <2>3
<1> HIDE DEF Selected, result
<1>5. free \subseteq SteeringPort
  OBVIOUS
<1>6. CASE free = {}
  BY <1>2, <1>4, <1>6 DEF result
<1>7. CASE free # {}
  <2>1. \E p \in SteeringPort : Selected(p)
    BY <1>4, <1>5, <1>7
  <2>2. (CHOOSE p \in SteeringPort : Selected(p)) \in free
    <3>1. LET p == CHOOSE q \in SteeringPort : Selected(q)
          IN  p \in SteeringPort /\ Selected(p)
      BY <2>1, Zenon
    <3> QED BY <1>4, <3>1
  <2> QED BY <1>2, <1>7, <2>1, <2>2 DEF result
<1> QED BY <1>6, <1>7 DEF result

-----------------------------------------------------------------------------
(* SteeringWalk.                                                           *)

(* The ports from the one above q up to p, around the end of the range. *)
Above(q, p) == {r \in SteeringPort : Steps(q, r) > 0 /\ Steps(q, r) <= Steps(q, p)}

(* Since a port was held, every port between it and the present one has    *)
(* been tried, or every port at all.                                       *)
WalkInv ==
    /\ port \in Port \ {NoPort}
    /\ bind \in [SteeringPort -> BindResult]
    /\ tried \in [SteeringPort -> SUBSET SteeringPort]
    /\ \A q \in SteeringPort :
           \/ tried[q] = SteeringPort
           \/ port \in SteeringPort /\ Above(q, port) \subseteq tried[q]

(* A scan that begins above port p, or at the start of the range. *)
LEMMA ScanAbove ==
    ASSUME NEW p \in Port, NEW q \in SteeringPort
    PROVE  /\ r_client_next_steering_port(p) \in SteeringPort
           /\ Scanned(r_client_next_steering_port(p), q) \subseteq SteeringPort
           /\ p \in SteeringPort /\ q # p =>
                  Scanned(r_client_next_steering_port(p), q) = Above(p, q)
<1> DEFINE f == r_client_next_steering_port(p)
<1>1. p \in Nat /\ p <= PortMax
  BY PortFacts DEF Port
<1>2. f \in SteeringPort
  BY <1>1, PortFacts DEF r_client_next_steering_port
<1>3. ASSUME NEW r \in SteeringPort
      PROVE  Distance(f, r) = Steps(f, r)
  BY <1>2, StepsMod DEF Distance, R_STEERING_PORT_COUNT
<1>4. ASSUME p \in SteeringPort, q # p, NEW r \in SteeringPort
      PROVE  Steps(f, r) <= Steps(f, q) <=> Steps(p, r) > 0 /\ Steps(p, r) <= Steps(p, q)
  <2>1. f = IF p = PortMax THEN R_STEERING_PORT_MIN ELSE p + 1
    BY <1>4, PortFacts DEF r_client_next_steering_port
  <2> HIDE DEF f
  <2> QED BY <1>4, <2>1, PortFacts DEF Steps
<1> HIDE DEF f
<1>5. Scanned(f, q) = {r \in SteeringPort : Steps(f, r) <= Steps(f, q)}
  BY <1>3 DEF Scanned, SteeringPort
<1> QED BY <1>2, <1>4, <1>5 DEF Above, f

(* What a rebind does, in this module's terms. *)
LEMMA RebindStep ==
    ASSUME WalkInv, WalkNext
    PROVE  \E answers \in [SteeringPort -> BindResult], p \in SteeringPort \cup {NoPort} :
              /\ bind' = answers
              /\ p = r_client_select_steering_port(r_client_next_steering_port(port), answers)
              /\ p = NoPort => UNCHANGED <<port, tried>>
              /\ p # NoPort =>
                    /\ port' = p /\ p # port
                    /\ tried' = [q \in SteeringPort |->
                           IF q = p THEN {}
                           ELSE tried[q] \cup
                                Scanned(r_client_next_steering_port(port), p)]
<1>1. PICK answers \in [SteeringPort -> BindResult] : Rebind(answers)
  BY DEF WalkNext
<1> DEFINE first == r_client_next_steering_port(port)
           p == r_client_select_steering_port(first, answers)
<1>2. /\ port \in SteeringPort => answers[port] = "occupied"
      /\ bind' = answers
      /\ IF p = NoPort
           THEN UNCHANGED <<port, tried>>
           ELSE /\ port' = p
                /\ tried' = [q \in SteeringPort |->
                       IF q = p THEN {} ELSE tried[q] \cup Scanned(first, p)]
  BY <1>1 DEF Rebind, FirstPort
<1>3. first \in Port
  BY PortFacts DEF WalkInv, Port, r_client_next_steering_port
<1>4. (p \in SteeringPort /\ answers[p] = "ok") \/ p = NoPort
  BY <1>3, NearestPort
<1> QED BY <1>1, <1>2, <1>4

LEMMA WalkStarts == WalkInit => WalkInv
<1> SUFFICES ASSUME WalkInit PROVE WalkInv
  OBVIOUS
<1> USE DEF Port, NoPort, SteeringPort
<1>1. /\ port \in Port \ {NoPort}
      /\ bind = [p \in SteeringPort |-> "ok"]
      /\ tried = [p \in SteeringPort |-> IF p = port THEN {} ELSE SteeringPort]
  BY DEF WalkInit
<1>2. bind \in [SteeringPort -> BindResult]
  BY <1>1 DEF BindResult
<1>3. tried \in [SteeringPort -> SUBSET SteeringPort]
  BY <1>1
<1> USE DEF SteeringPort
<1>4. ASSUME NEW q \in SteeringPort, tried[q] # SteeringPort
      PROVE  port \in SteeringPort /\ Above(q, port) \subseteq tried[q]
  <2>1. q = port
    BY <1>1, <1>4
  <2>2. \A r \in SteeringPort : ~ (Steps(q, r) > 0 /\ Steps(q, r) <= Steps(q, q))
    BY PortFacts DEF Steps
  <2> QED BY <2>1, <2>2 DEF Above
<1> QED BY <1>1, <1>2, <1>3, <1>4 DEF WalkInv

(* Going up from q to the port and on from there to p passes every port    *)
(* between q and p.                                                        *)
LEMMA AboveJoins ==
    ASSUME NEW q \in SteeringPort, NEW p \in SteeringPort, NEW s \in SteeringPort
    PROVE  /\ Above(q, s) \subseteq Above(q, p) \cup Above(p, s)
           /\ p # s => SteeringPort \subseteq Above(s, p) \cup Above(p, s)
BY PortFacts DEF Above, Steps

LEMMA WalkKeeps ==
    ASSUME WalkInv, [WalkNext]_walkVars
    PROVE  WalkInv'
<1>1. CASE UNCHANGED walkVars
  BY <1>1 DEF WalkInv, walkVars, Above
<1>2. CASE WalkNext
  <2>1. PICK answers \in [SteeringPort -> BindResult], p \in SteeringPort \cup {NoPort} :
              /\ bind' = answers
              /\ p = r_client_select_steering_port(r_client_next_steering_port(port), answers)
              /\ p = NoPort => UNCHANGED <<port, tried>>
              /\ p # NoPort =>
                    /\ port' = p /\ p # port
                    /\ tried' = [q \in SteeringPort |->
                           IF q = p THEN {}
                           ELSE tried[q] \cup
                                Scanned(r_client_next_steering_port(port), p)]
    BY <1>2, RebindStep
  <2>2. CASE p = NoPort
    BY <2>1, <2>2 DEF WalkInv
  <2>3. CASE p # NoPort
    <3> DEFINE scanned == Scanned(r_client_next_steering_port(port), p)
    <3>1. p \in SteeringPort /\ p \in Port \ {NoPort} /\ port \in Port
      BY <2>3, PortFacts DEF WalkInv, Port
    <3>2. /\ scanned \subseteq SteeringPort
          /\ port \in SteeringPort => scanned = Above(port, p)
      BY <2>1, <2>3, <3>1, ScanAbove
    <3> HIDE DEF scanned
    <3>3. /\ port' = p
          /\ tried' = [q \in SteeringPort |-> IF q = p THEN {} ELSE tried[q] \cup scanned]
      BY <2>1, <2>3 DEF scanned
    <3>4. \A q \in SteeringPort : tried[q] \in SUBSET SteeringPort
      BY DEF WalkInv
    <3>5. tried' \in [SteeringPort -> SUBSET SteeringPort]
      BY <3>2, <3>3, <3>4
    <3>6. ASSUME NEW q \in SteeringPort
          PROVE  tried'[q] = SteeringPort \/ Above(q, p) \subseteq tried'[q]
      <4>1. CASE q = p
        <5>1. Above(p, p) = {}
          BY <3>1, PortFacts DEF Above, Steps
        <5> QED BY <4>1, <5>1
      <4>2. CASE q # p
        <5>1. tried'[q] = tried[q] \cup scanned
          BY <3>3, <4>2
        <5>2. CASE tried[q] = SteeringPort
          BY <3>2, <5>1, <5>2
        <5>3. CASE port \in SteeringPort /\ Above(q, port) \subseteq tried[q]
          <6>1. Above(q, p) \subseteq Above(q, port) \cup Above(port, p)
            BY <3>1, <5>3, AboveJoins
          <6> QED BY <3>2, <5>1, <5>3, <6>1
        <5> QED BY <5>2, <5>3 DEF WalkInv
      <4> QED BY <4>1, <4>2
    <3>7. bind' \in [SteeringPort -> BindResult] /\ port' \in Port \ {NoPort}
          /\ port' \in SteeringPort
      BY <2>1, <3>1, <3>3
    <3>8. \A q \in SteeringPort : Above(q, port)' = Above(q, p)
      BY <3>3 DEF Above
    <3> QED BY <3>5, <3>6, <3>7, <3>8 DEF WalkInv
  <2> QED BY <2>2, <2>3
<1> QED BY <1>1, <1>2

LEMMA WalkInvariance == WalkSpec => []WalkInv
<1>1. WalkInv /\ [WalkNext]_walkVars => WalkInv'
  BY WalkKeeps
<1> QED BY <1>1, WalkStarts, PTL DEF WalkSpec

(* Whichever ports are taken and wherever a scan begins, it finds the      *)
(* nearest port that is not occupied, going up and around the end of the   *)
(* range, and stops at one that cannot be bound for another reason         *)
(* (r_client_select_steering_port), for every range of ports.              *)
THEOREM NearestIsFound == WalkSpec => []SelectsNearest
<1>1. ASSUME WalkInv PROVE SelectsNearest
  <2> SUFFICES ASSUME NEW first \in Port
               PROVE  LET start == IF first \in SteeringPort THEN first ELSE R_STEERING_PORT_MIN
                          open == {p \in SteeringPort : bind[p] # "occupied"}
                          free == {p \in open :
                                      /\ \A q \in open :
                                             Distance(start, p) <= Distance(start, q)
                                      /\ bind[p] = "ok"}
                      IN  r_client_select_steering_port(first, bind)
                              \in (IF free = {} THEN {NoPort} ELSE free)
    BY DEF SelectsNearest
  <2> DEFINE start == IF first \in SteeringPort THEN first ELSE R_STEERING_PORT_MIN
  <2>1. start = FirstCandidate(first) /\ start \in SteeringPort
    BY PortFacts DEF FirstCandidate, Port
  <2>2. bind \in [SteeringPort -> BindResult]
    BY <1>1 DEF WalkInv
  <2> HIDE DEF start
  <2>3. \A p \in SteeringPort : Distance(start, p) = Steps(start, p)
    BY <2>1, StepsMod DEF Distance, R_STEERING_PORT_COUNT
  <2> DEFINE open == {p \in SteeringPort : bind[p] # "occupied"}
             near == {p \in open : /\ \A q \in open :
                                          Distance(start, p) <= Distance(start, q)
                                   /\ bind[p] = "ok"}
             free == {p \in open : /\ \A q \in open : Steps(start, p) <= Steps(start, q)
                                   /\ bind[p] = "ok"}
  <2>4. near = free
    BY <2>3
  <2>5. r_client_select_steering_port(first, bind)
            \in (IF free = {} THEN {NoPort} ELSE free)
    BY <2>1, <2>2, NearestPort
  <2> QED BY <2>4, <2>5 DEF start
<1> QED BY <1>1, WalkInvariance, PTL

(* A family comes back to a source port only after every other port of the *)
(* range has been tried, however many rebinds failed and whichever ports   *)
(* were taken meanwhile (runtime_on_steering_feedback).                    *)
THEOREM NoPortReusedEarly == WalkSpec => NoEarlyReuse
<1> DEFINE Step == port' # port =>
               /\ port' \in SteeringPort
               /\ SteeringPort \subseteq
                      tried[port'] \cup Scanned(FirstPort(port), port')
<1>1. ASSUME WalkInv, [WalkNext]_walkVars PROVE [Step]_walkVars
  <2> SUFFICES ASSUME WalkNext, port' # port
               PROVE  /\ port' \in SteeringPort
                      /\ SteeringPort \subseteq tried[port'] \cup
                             Scanned(r_client_next_steering_port(port), port')
    BY <1>1 DEF FirstPort
  <2>1. port' \in SteeringPort
    BY <1>1, RebindStep
  <2>2. port \in Port
    BY <1>1 DEF WalkInv
  <2> DEFINE p == port'
             scanned == Scanned(r_client_next_steering_port(port), p)
  <2>3. port \in SteeringPort => scanned = Above(port, p)
    BY <2>1, <2>2, ScanAbove
  <2> HIDE DEF scanned
  <2>4. CASE tried[p] = SteeringPort
    BY <2>1, <2>4 DEF scanned
  <2>5. CASE port \in SteeringPort /\ Above(p, port) \subseteq tried[p]
    <3>1. SteeringPort \subseteq Above(p, port) \cup Above(port, p)
      BY <2>1, <2>5, AboveJoins
    <3> QED BY <2>1, <2>3, <2>5, <3>1 DEF scanned
  <2> QED BY <1>1, <2>1, <2>4, <2>5 DEF WalkInv
<1>2. [][Step]_walkVars => NoEarlyReuse
  BY PTL DEF NoEarlyReuse
<1> QED BY <1>1, <1>2, WalkInvariance, PTL DEF WalkSpec
=============================================================================
