--------------------------- MODULE Events_proofs ---------------------------
(***************************************************************************)
(* Theorems about what runs in the threads of a program: the walks over    *)
(* the handlers of an object (EventDispatch), the walks of the loop over   *)
(* its sinks (EventLoop), and the locks that the calls take (LockOrder).   *)
(* The three share the threads, the objects of the tree and the lemmas on  *)
(* walks of a list that is edited meanwhile.                               *)
(***************************************************************************)
EXTENDS EventDispatch, EventLoop, LockOrder, AgQueue_proofs

\* The lists of handlers: a structure that is in one is named, and in no other.
ListsType ==
  /\ events \in [Object -> Seq(Handler)]
  /\ hname \in [Handler -> Name \cup {Nil}]
  /\ hflags = [h \in Handler |-> hflags[h]]
  /\ \A o \in Object : /\ NoRepeats(events[o])
                       /\ \A h \in Entries(events[o]) : hname[h] # Nil /\ hflags[h] \in Flags[o]
  /\ \A o, p \in Object : \A h : h \in Entries(events[o]) /\ h \in Entries(events[p]) => o = p

\* A call's receiver is an object, and the handler it is at is one of the receiver;
\* the thread of an asynchronous handler has a copy.
FrameOK(f) ==
  /\ f \in FrameType
  /\ f.kind = "async" => f.ev = Nil
  /\ f.ev # Nil => f.ev \in Entries(events[f.rcvr])

WalksInv ==
  /\ stack \in [Thread -> Seq(FrameType)]
  /\ \A th \in Thread : \A f \in Entries(stack[th]) : FrameOK(f)
  /\ sched # Nil => sched.rcvr \in Object

DispatchInv == ListsType /\ WalksInv

-----------------------------------------------------------------------------
(* Walking the handlers of an object *)

\* What ScanFrom finds is a handler of the name, further on in the list.
LEMMA ScanFacts ==
  ASSUME ListsType, NEW o \in Object, NEW n, NEW i \in Nat
  PROVE  \/ ScanFrom(o, n, i) = Nil
         \/ \E j \in DOMAIN events[o] : /\ j > i /\ ScanFrom(o, n, i) = events[o][j]
                                        /\ hname[events[o][j]] = n /\ n \in Name
                                        /\ events[o][j] \in Handler
<1> PICK list \in Seq(Handler) : list = events[o]  BY DEF ListsType
<1>1. DOMAIN list = 1 .. Len(list) /\ Len(list) \in Nat  BY LenProperties
<1> DEFINE J == {j \in DOMAIN list : j > i /\ hname[list[j]] = n}
<1>2. ScanFrom(o, n, i) = IF J = {} THEN Nil ELSE list[CHOOSE j \in J : \A k \in J : j <= k]
  BY DEF ScanFrom
<1>3. J \in SUBSET Nat  BY <1>1
<1>4. CASE J = {}  BY <1>2, <1>4
<1>5. CASE J # {}
  <2>1. \E j \in J : \A k \in J : j <= k
    <3> HIDE DEF J
    <3> QED  BY <1>3, <1>5, Least
  <2>2. PICK j \in J : ScanFrom(o, n, i) = list[j]
    <3> HIDE DEF J
    <3> QED  BY <1>2, <1>5, <2>1
  <2>3. list[j] \in Handler /\ list[j] \in Entries(list)  BY <1>1, ElementOfSeq DEF Entries
  <2>4. hname[list[j]] \in Name  BY <2>3 DEF ListsType
  <2> QED  BY <2>2, <2>3, <2>4
<1> QED  BY <1>4, <1>5

\* The first handler of a name, and the next one.
LEMMA MatchFacts ==
  ASSUME ListsType, NEW o \in Object, NEW n
  PROVE  /\ FirstMatch(o, n) # Nil =>
              /\ FirstMatch(o, n) \in Entries(events[o]) /\ FirstMatch(o, n) \in Handler
              /\ hname[FirstMatch(o, n)] = n /\ n \in Name
         /\ \A h : NextMatch(o, n, h) # Nil =>
              /\ NextMatch(o, n, h) \in Entries(events[o]) /\ NextMatch(o, n, h) \in Handler
              /\ Before(events[o], h, NextMatch(o, n, h))
<1> PICK list \in Seq(Handler) : list = events[o]  BY DEF ListsType
<1>1. FirstMatch(o, n) # Nil =>
        /\ FirstMatch(o, n) \in Entries(list) /\ FirstMatch(o, n) \in Handler
        /\ hname[FirstMatch(o, n)] = n /\ n \in Name
  <2>1. \/ FirstMatch(o, n) = Nil
        \/ \E j \in DOMAIN events[o] : /\ j > 0 /\ FirstMatch(o, n) = events[o][j]
                                       /\ hname[events[o][j]] = n /\ n \in Name
                                       /\ events[o][j] \in Handler
    BY ScanFacts DEF FirstMatch
  <2> QED  BY <2>1 DEF Entries
<1>2. ASSUME NEW h, NextMatch(o, n, h) # Nil
      PROVE  /\ NextMatch(o, n, h) \in Entries(list) /\ NextMatch(o, n, h) \in Handler
             /\ Before(list, h, NextMatch(o, n, h))
  <2> PICK x : x = NextMatch(o, n, h)  OBVIOUS
  <2>1. h \in Entries(list) /\ x = ScanFrom(o, n, Pos(list, h))  BY <1>2 DEF NextMatch
  <2> PICK i \in 1 .. Len(list) : i = Pos(list, h) /\ list[i] = h  BY <2>1, PosProperties
  <2>2. DOMAIN list = 1 .. Len(list) /\ Len(list) \in Nat  BY LenProperties
  <2>3. i \in Nat  BY <2>2
  <2>4. PICK j \in DOMAIN list : j > i /\ x = list[j] /\ list[j] \in Handler
    BY <1>2, <2>1, <2>3, ScanFacts
  <2>5. x \in Entries(list)  BY <2>4 DEF Entries
  <2>6. Before(list, h, x)
    <3>1. i \in DOMAIN list /\ i < j /\ list[i] = h /\ list[j] = x  BY <2>2, <2>4
    <3> QED  BY <3>1 DEF Before
  <2> QED  BY <2>4, <2>5, <2>6
<1> QED  BY <1>1, <1>2

-----------------------------------------------------------------------------
(* The stack of a thread *)

\* A frame on top of others.
LEMMA OnTopFacts ==
  ASSUME NEW S, NEW s \in Seq(S), NEW f \in S
  PROVE  /\ <<f>> \o s \in Seq(S) /\ Len(<<f>> \o s) = Len(s) + 1
         /\ (<<f>> \o s)[1] = f
         /\ \A i \in 1 .. Len(s) : (<<f>> \o s)[i + 1] = s[i]
         /\ Entries(<<f>> \o s) = {f} \cup Entries(s)
<1> PICK n \in Nat : n = Len(s) /\ DOMAIN s = 1 .. n  BY LenProperties
<1> PICK r : r = <<f>> \o s  OBVIOUS
<1>1. /\ r \in Seq(S) /\ Len(r) = n + 1 /\ r[1] = f
      /\ \A i \in 1 .. n : r[i + 1] = s[i]
  BY SMT
<1>2. DOMAIN r = 1 .. n + 1  BY <1>1, LenProperties
<1>3. ASSUME NEW x \in Entries(r)  PROVE x \in {f} \cup Entries(s)
  <2>1. PICK j \in 1 .. n + 1 : r[j] = x  BY <1>2 DEF Entries
  <2>2. CASE j = 1  BY <1>1, <2>1, <2>2
  <2>3. CASE j # 1
    <3>1. j - 1 \in 1 .. n /\ (j - 1) + 1 = j  BY <2>3
    <3>2. s[j - 1] = x  BY <1>1, <2>1, <3>1
    <3> QED  BY <3>1, <3>2 DEF Entries
  <2> QED  BY <2>2, <2>3
<1>4. ASSUME NEW x \in Entries(s)  PROVE x \in Entries(r)
  <2>1. PICK j \in 1 .. n : s[j] = x  BY DEF Entries
  <2>2. j + 1 \in 1 .. n + 1 /\ r[j + 1] = x  BY <1>1, <2>1
  <2> QED  BY <1>2, <2>2 DEF Entries
<1>5. f \in Entries(r)
  <2>1. 1 \in 1 .. n + 1  OBVIOUS
  <2> QED  BY <1>1, <1>2, <2>1 DEF Entries
<1> QED  BY <1>1, <1>3, <1>4, <1>5

\* A stack with one frame.
LEMMA SingleFacts ==
  ASSUME NEW S, NEW f \in S
  PROVE  <<f>> \in Seq(S) /\ Entries(<<f>>) = {f}
<1>1. <<f>> \in Seq(S) /\ Len(<<f>>) = 1 /\ <<f>>[1] = f  OBVIOUS
<1>2. DOMAIN <<f>> = {1}  BY <1>1, LenProperties
<1> QED  BY <1>1, <1>2 DEF Entries

\* Two frames on top of others.
LEMMA TwoOnTopFacts ==
  ASSUME NEW S, NEW s \in Seq(S), NEW f \in S, NEW g \in S
  PROVE  /\ <<f, g>> \o s \in Seq(S) /\ Len(<<f, g>> \o s) = Len(s) + 2
         /\ (<<f, g>> \o s)[1] = f /\ (<<f, g>> \o s)[2] = g
         /\ \A i \in 1 .. Len(s) : (<<f, g>> \o s)[i + 2] = s[i]
         /\ Entries(<<f, g>> \o s) = {f, g} \cup Entries(s)
<1> PICK n \in Nat : n = Len(s) /\ DOMAIN s = 1 .. n  BY LenProperties
<1> PICK r : r = <<f, g>> \o s  OBVIOUS
<1>1. /\ r \in Seq(S) /\ Len(r) = n + 2 /\ r[1] = f /\ r[2] = g
      /\ \A i \in 1 .. n : r[i + 2] = s[i]
  BY SMT
<1>2. DOMAIN r = 1 .. n + 2  BY <1>1, LenProperties
<1>3. ASSUME NEW x \in Entries(r)  PROVE x \in {f, g} \cup Entries(s)
  <2>1. PICK j \in 1 .. n + 2 : r[j] = x  BY <1>2 DEF Entries
  <2>2. CASE j = 1 \/ j = 2  BY <1>1, <2>1, <2>2
  <2>3. CASE j # 1 /\ j # 2
    <3>1. j - 2 \in 1 .. n /\ (j - 2) + 2 = j  BY <2>3
    <3>2. s[j - 2] = x  BY <1>1, <2>1, <3>1
    <3> QED  BY <3>1, <3>2 DEF Entries
  <2> QED  BY <2>2, <2>3
<1>4. ASSUME NEW x \in Entries(s)  PROVE x \in Entries(r)
  <2>1. PICK j \in 1 .. n : s[j] = x  BY DEF Entries
  <2>2. j + 2 \in 1 .. n + 2 /\ r[j + 2] = x  BY <1>1, <2>1
  <2> QED  BY <1>2, <2>2 DEF Entries
<1>5. f \in Entries(r) /\ g \in Entries(r)
  <2>1. 1 \in 1 .. n + 2 /\ 2 \in 1 .. n + 2  OBVIOUS
  <2> QED  BY <1>1, <1>2, <2>1 DEF Entries
<1> QED  BY <1>1, <1>3, <1>4, <1>5

\* The frame on top of a stack, and those below it.
LEMMA BelowTopFacts ==
  ASSUME NEW S, NEW s \in Seq(S), s # << >>
  PROVE  /\ Head(s) = s[1] /\ Head(s) \in S /\ Head(s) \in Entries(s)
         /\ Tail(s) \in Seq(S) /\ Len(Tail(s)) = Len(s) - 1
         /\ \A i \in 1 .. Len(s) - 1 : Tail(s)[i] = s[i + 1]
         /\ Entries(Tail(s)) \subseteq Entries(s)
         /\ Entries(s) = {Head(s)} \cup Entries(Tail(s))
<1> PICK n \in Nat : n = Len(s) /\ DOMAIN s = 1 .. n  BY LenProperties
<1> PICK r : r = Tail(s)  OBVIOUS
<1>1. /\ Head(s) = s[1] /\ Head(s) \in S /\ r \in Seq(S) /\ Len(r) = n - 1 /\ n # 0
      /\ \A i \in 1 .. n - 1 : r[i] = s[i + 1]
  BY SMT
<1>2. DOMAIN r = 1 .. n - 1  BY <1>1, LenProperties
<1>3. \A x \in Entries(r) : x \in Entries(s)
  <2>1. \A i \in 1 .. n - 1 : i + 1 \in 1 .. n  OBVIOUS
  <2> QED  BY <1>1, <1>2, <2>1 DEF Entries
<1>4. Head(s) \in Entries(s)
  <2>1. 1 \in 1 .. n  BY <1>1
  <2> QED  BY <1>1, <2>1 DEF Entries
<1>5. ASSUME NEW x \in Entries(s)  PROVE x \in {Head(s)} \cup Entries(r)
  <2>1. PICK j \in 1 .. n : s[j] = x  BY DEF Entries
  <2>2. CASE j = 1  BY <1>1, <2>1, <2>2
  <2>3. CASE j # 1
    <3>1. j - 1 \in 1 .. n - 1 /\ (j - 1) + 1 = j  BY <2>3
    <3>2. r[j - 1] = x  BY <1>1, <2>1, <3>1
    <3> QED  BY <1>2, <3>1, <3>2 DEF Entries
  <2> QED  BY <2>2, <2>3
<1> QED  BY <1>1, <1>3, <1>4, <1>5

\* The frame on top, when there is one.
LEMMA TopFacts ==
  ASSUME DispatchInv, NEW th \in Thread, stack[th] # << >>
  PROVE  /\ Top(th) \in Entries(stack[th]) /\ FrameOK(Top(th)) /\ Top(th) \in FrameType
         /\ Tail(stack[th]) \in Seq(FrameType)
         /\ Entries(Tail(stack[th])) \subseteq Entries(stack[th])
<1> PICK L \in Seq(FrameType) : L = stack[th]  BY DEF DispatchInv, WalksInv
<1>1. /\ Head(L) \in Entries(L) /\ Tail(L) \in Seq(FrameType)
      /\ Entries(Tail(L)) \subseteq Entries(L)
  BY BelowTopFacts
<1> QED  BY <1>1 DEF Top, DispatchInv, WalksInv, FrameOK

\* The lists stay as they are, and the new frames are at handlers of their receivers.
LEMMA FramesStep ==
  ASSUME DispatchInv, UNCHANGED <<events, hname, hflags>>,
         stack' \in [Thread -> Seq(FrameType)],
         \A th \in Thread : \A f \in Entries(stack'[th]) :
           f \in Entries(stack[th]) \/ FrameOK(f),
         sched' # Nil => sched'.rcvr \in Object
  PROVE  DispatchInv'
<1>1. ListsType'  BY DEF DispatchInv, ListsType
<1>2. WalksInv'  BY DEF DispatchInv, WalksInv, FrameOK
<1> QED  BY <1>1, <1>2 DEF DispatchInv

\* A call of AG_PostEvent puts its frame on the stack of the thread.
LEMMA PushStep ==
  ASSUME DispatchInv, UNCHANGED <<events, hname, hflags>>, sched' # Nil => sched'.rcvr \in Object,
         NEW th \in Thread, NEW f, FrameOK(f), Push(th, f)
  PROVE  DispatchInv'
<1> PICK L \in Seq(FrameType) : L = stack[th]  BY DEF DispatchInv, WalksInv
<1>0. f \in FrameType  BY DEF FrameOK
<1>1. <<f>> \o L \in Seq(FrameType) /\ Entries(<<f>> \o L) = {f} \cup Entries(L)
  BY <1>0, OnTopFacts
<1> PICK M \in Seq(FrameType) : M = <<f>> \o L  BY <1>1
<1>2. stack' = [stack EXCEPT ![th] = M]  BY DEF Push
<1>3. stack' \in [Thread -> Seq(FrameType)] /\ stack'[th] = M
      /\ \A u \in Thread : u # th => stack'[u] = stack[u]
  BY <1>2 DEF DispatchInv, WalksInv
<1>4. \A u \in Thread : \A g \in Entries(stack'[u]) : g \in Entries(stack[u]) \/ FrameOK(g)
  BY <1>1, <1>3
<1> QED  BY <1>3, <1>4, FramesStep

\* A call moves on: its frame is another one.
LEMMA BecomeStep ==
  ASSUME DispatchInv, UNCHANGED <<events, hname, hflags, sched>>,
         NEW th \in Thread, stack[th] # << >>, NEW f, FrameOK(f), Become(th, f)
  PROVE  DispatchInv'
<1> f \in FrameType  BY DEF FrameOK
<1>a. \A L \in Seq(FrameType) : /\ <<f>> \o L \in Seq(FrameType)
                                /\ Entries(<<f>> \o L) = {f} \cup Entries(L)
  BY OnTopFacts
<1> PICK L \in Seq(FrameType) : L = Tail(stack[th])  BY TopFacts
<1>0. Entries(L) \subseteq Entries(stack[th])  BY TopFacts
<1>1. <<f>> \o L \in Seq(FrameType) /\ Entries(<<f>> \o L) = {f} \cup Entries(L)
  BY <1>a
<1> PICK M \in Seq(FrameType) : M = <<f>> \o L  BY <1>1
<1>2. stack' = [stack EXCEPT ![th] = M]  BY DEF Become
<1>3. stack' \in [Thread -> Seq(FrameType)] /\ stack'[th] = M
      /\ \A u \in Thread : u # th => stack'[u] = stack[u]
  BY <1>2 DEF DispatchInv, WalksInv
<1>4. \A u \in Thread : \A g \in Entries(stack'[u]) : g \in Entries(stack[u]) \/ FrameOK(g)
  BY <1>0, <1>1, <1>3
<1>5. sched' # Nil => sched'.rcvr \in Object  BY DEF DispatchInv, WalksInv
<1> QED  BY <1>3, <1>4, <1>5, FramesStep

\* A call returns.
LEMMA PopStep ==
  ASSUME DispatchInv, UNCHANGED <<events, hname, hflags, sched>>,
         NEW th \in Thread, stack[th] # << >>, Pop(th)
  PROVE  DispatchInv'
<1> PICK L \in Seq(FrameType) : L = Tail(stack[th]) /\ Entries(L) \subseteq Entries(stack[th])
  BY TopFacts
<1>2. stack' = [stack EXCEPT ![th] = L]  BY DEF Pop
<1>3. stack' \in [Thread -> Seq(FrameType)] /\ stack'[th] = L
      /\ \A u \in Thread : u # th => stack'[u] = stack[u]
  BY <1>2 DEF DispatchInv, WalksInv
<1>4. \A u \in Thread : \A g \in Entries(stack'[u]) : g \in Entries(stack[u]) \/ FrameOK(g)
  BY <1>3
<1>5. sched' # Nil => sched'.rcvr \in Object  BY DEF DispatchInv, WalksInv
<1> QED  BY <1>3, <1>4, <1>5, FramesStep

-----------------------------------------------------------------------------
(* The walks stay at handlers that are linked *)

\* A handler is added.
LEMMA NewHandlerStep ==
  ASSUME DispatchInv, NEW o \in Object, NEW n \in Name, NEW h \in Handler, NEW flags,
         NewHandler(o, n, h, flags), UNCHANGED <<stack, sched>>
  PROVE  DispatchInv'
<1> PICK list \in Seq(Handler) : list = events[o]  BY DEF DispatchInv, ListsType
<1> PICK new : new = TailqInsertTail(list, h)  OBVIOUS
<1>1. /\ hname[h] = Nil /\ flags \in Flags[o] /\ events' = [events EXCEPT ![o] = new]
      /\ hname' = [hname EXCEPT ![h] = n] /\ hflags' = [hflags EXCEPT ![h] = flags]
  BY DEF NewHandler
<1>2. \A p \in Object : h \notin Entries(events[p])  BY <1>1 DEF DispatchInv, ListsType
<1>3. new \in Seq(Handler) /\ NoRepeats(new) /\ Entries(new) = Entries(list) \cup {h}
  BY <1>2, InsertTailProperties DEF DispatchInv, ListsType
<1>4. /\ events' \in [Object -> Seq(Handler)] /\ events'[o] = new
      /\ \A p \in Object : p # o => events'[p] = events[p]
      /\ hname' \in [Handler -> Name \cup {Nil}] /\ hname'[h] = n /\ hflags'[h] = flags
      /\ \A k \in Handler : k # h => hname'[k] = hname[k] /\ hflags'[k] = hflags[k]
      /\ hflags' = [k \in Handler |-> hflags'[k]]
  BY <1>1, <1>3 DEF DispatchInv, ListsType
<1>5. \A p \in Object : Entries(events[p]) \subseteq Entries(events'[p])
  BY <1>3, <1>4
<1>6. \A p \in Object : \A k \in Entries(events'[p]) :
        k \in Handler /\ (k \in Entries(events[p]) \/ (k = h /\ p = o))
  <2>1. \A p \in Object : Entries(events'[p]) \subseteq Handler  BY <1>4, EntriesType
  <2> QED  BY <1>3, <1>4, <2>1
<1>7. ListsType'
  <2>1. \A p \in Object : /\ NoRepeats(events'[p])
                          /\ \A k \in Entries(events'[p]) : hname'[k] # Nil /\ hflags'[k] \in Flags[p]
    <3>1. n # Nil  BY NilAssumption
    <3>2. \A p \in Object : NoRepeats(events'[p])  BY <1>3, <1>4 DEF DispatchInv, ListsType
    <3>3. ASSUME NEW p \in Object, NEW k \in Entries(events'[p])
          PROVE  hname'[k] # Nil /\ hflags'[k] \in Flags[p]
      <4>1. CASE k = h  BY <1>1, <1>2, <1>4, <1>6, <3>1, <4>1
      <4>2. CASE k # h
        <5>1. k \in Handler /\ k \in Entries(events[p])  BY <1>6, <4>2
        <5>2. hname[k] # Nil /\ hflags[k] \in Flags[p]  BY <5>1 DEF DispatchInv, ListsType
        <5> QED  BY <1>4, <4>2, <5>1, <5>2
      <4> QED  BY <4>1, <4>2
    <3> QED  BY <3>2, <3>3
  <2>2. ASSUME NEW p \in Object, NEW r \in Object, NEW k, k \in Entries(events'[p]),
               k \in Entries(events'[r])
        PROVE  p = r
    <3>1. /\ k \in Entries(events[p]) \/ (k = h /\ p = o)
          /\ k \in Entries(events[r]) \/ (k = h /\ r = o)
      BY <1>6, <2>2
    <3>2. k \in Entries(events[p]) /\ k \in Entries(events[r]) => p = r
      BY DEF DispatchInv, ListsType
    <3> QED  BY <1>2, <3>1, <3>2
  <2> QED  BY <1>4, <2>1, <2>2 DEF ListsType
<1>8. WalksInv'
  <2>1. \A f \in FrameType : f.rcvr \in Object  BY DEF FrameType
  <2> QED  BY <1>5, <2>1 DEF DispatchInv, WalksInv, FrameOK
<1> QED  BY <1>7, <1>8 DEF DispatchInv

\* A handler is removed: no call is at it, since its own thread does not remove what it
\* is called through, and the others do not get the lock.
LEMMA UnsetStep ==
  ASSUME DispatchInv, NEW th \in Thread, NEW o \in Object, NEW n,
         Unset(o, n), MayLock(th, o), ~InUse(th, FirstMatch(o, n))
  PROVE  DispatchInv'
<1> PICK list \in Seq(Handler) : list = events[o]  BY DEF DispatchInv, ListsType
<1> PICK h : h = FirstMatch(o, n)  OBVIOUS
<1>1. h \in Handler /\ h \in Entries(list)  BY MatchFacts DEF Unset, DispatchInv
<1> PICK new : new = TailqRemove(list, h)  OBVIOUS
<1>2. /\ events' = [events EXCEPT ![o] = new]
      /\ hname' = [hname EXCEPT ![h] = Nil] /\ hflags' = [hflags EXCEPT ![h] = {}]
      /\ UNCHANGED <<stack, sched>>
  BY DEF Unset
<1>3. new \in Seq(Handler) /\ NoRepeats(new) /\ Entries(new) = Entries(list) \ {h}
  BY <1>1, RemoveProperties DEF DispatchInv, ListsType
<1>4. /\ events' \in [Object -> Seq(Handler)] /\ events'[o] = new
      /\ \A p \in Object : p # o => events'[p] = events[p]
      /\ hname' \in [Handler -> Name \cup {Nil}]
      /\ \A k \in Handler : k # h => hname'[k] = hname[k] /\ hflags'[k] = hflags[k]
      /\ hflags' = [k \in Handler |-> hflags'[k]]
  BY <1>2, <1>3 DEF DispatchInv, ListsType
<1>5. \A p \in Object : h \in Entries(events[p]) => p = o
  BY <1>1 DEF DispatchInv, ListsType
<1>6. \A p \in Object : Entries(events'[p]) = Entries(events[p]) \ {h}
  BY <1>3, <1>4, <1>5
<1>7. ListsType'
  <2>1. \A p \in Object : NoRepeats(events'[p])  BY <1>3, <1>4 DEF DispatchInv, ListsType
  <2>2. \A p \in Object : Entries(events[p]) \subseteq Handler  BY EntriesType DEF DispatchInv, ListsType
  <2>3. \A p \in Object : \A k \in Entries(events'[p]) : hname'[k] # Nil /\ hflags'[k] \in Flags[p]
    <3> SUFFICES ASSUME NEW p \in Object, NEW k \in Entries(events'[p])
                 PROVE  hname'[k] # Nil /\ hflags'[k] \in Flags[p]
      OBVIOUS
    <3>1. k \in Entries(events[p]) /\ k # h /\ k \in Handler  BY <1>6, <2>2
    <3>2. hname[k] # Nil /\ hflags[k] \in Flags[p]  BY <3>1 DEF DispatchInv, ListsType
    <3> QED  BY <1>4, <3>1, <3>2
  <2>4. \A p, r \in Object : \A k : k \in Entries(events'[p]) /\ k \in Entries(events'[r]) => p = r
    BY <1>6 DEF DispatchInv, ListsType
  <2> QED  BY <1>4, <2>1, <2>3, <2>4 DEF ListsType
<1>8. ASSUME NEW u \in Thread, NEW f \in Entries(stack[u]), f.ev # Nil
      PROVE  f.ev # h
  <2>1. FrameOK(f)  BY DEF DispatchInv, WalksInv
  <2>2. f.rcvr \in Object /\ f.kind # "async" /\ f.ev \in Entries(events[f.rcvr])
    BY <1>8, <2>1 DEF FrameOK, FrameType
  <2>3. CASE u = th
    BY <2>3 DEF InUse
  <2>4. CASE u # th
    <3>1. f.rcvr \in Held(u)  BY <2>2 DEF Held
    <3>2. f.rcvr # o  BY <2>4, <3>1 DEF MayLock
    <3> QED  BY <1>5, <2>2, <3>2
  <2> QED  BY <2>3, <2>4
<1>9. WalksInv'
  <2>1. \A f \in FrameType : f.rcvr \in Object  BY DEF FrameType
  <2>2. ASSUME NEW u \in Thread, NEW f \in Entries(stack[u])  PROVE FrameOK(f)'
    <3>1. FrameOK(f)  BY DEF DispatchInv, WalksInv
    <3>2. f.ev # Nil => f.ev \in Entries(events'[f.rcvr])
      BY <1>6, <1>8, <2>1, <3>1 DEF FrameOK
    <3> QED  BY <3>1, <3>2 DEF FrameOK
  <2> QED  BY <1>2, <2>2 DEF DispatchInv, WalksInv
<1> QED  BY <1>7, <1>9 DEF DispatchInv

\* Two frames come in the place of the one on top.
LEMMA BecomeTwoStep ==
  ASSUME DispatchInv, UNCHANGED <<events, hname, hflags, sched>>,
         NEW th \in Thread, stack[th] # << >>, NEW f, NEW g, FrameOK(f), FrameOK(g),
         stack' = [stack EXCEPT ![th] = <<f, g>> \o Tail(@)]
  PROVE  DispatchInv'
<1>1. f \in FrameType /\ g \in FrameType  BY DEF FrameOK
<1>2. ASSUME NEW s \in Seq(FrameType)
      PROVE  /\ <<f, g>> \o s \in Seq(FrameType)
             /\ Entries(<<f, g>> \o s) = {f, g} \cup Entries(s)
  BY <1>1, TwoOnTopFacts
<1> PICK s \in Seq(FrameType) : s = Tail(stack[th])  BY TopFacts
<1>3. Entries(s) \subseteq Entries(stack[th])  BY TopFacts
<1>4. PICK M \in Seq(FrameType) : M = <<f, g>> \o s /\ Entries(M) = {f, g} \cup Entries(s)
  BY <1>2
<1>5. stack' = [stack EXCEPT ![th] = M]  BY <1>4
<1>6. /\ stack' \in [Thread -> Seq(FrameType)] /\ stack'[th] = M
      /\ \A u \in Thread : u # th => stack'[u] = stack[u]
  BY <1>5 DEF DispatchInv, WalksInv
<1>7. \A u \in Thread : \A k \in Entries(stack'[u]) : k \in Entries(stack[u]) \/ FrameOK(k)
  BY <1>3, <1>4, <1>6
<1>8. sched' # Nil => sched'.rcvr \in Object  BY DEF DispatchInv, WalksInv
<1> QED  BY <1>6, <1>7, <1>8, FramesStep

\* AG_ForwardEvent is called for a descendant.
LEMMA ForwardStep ==
  ASSUME DispatchInv, NEW th \in Thread, Forward(th)
  PROVE  DispatchInv'
<1> PICK f \in FrameType : f = Top(th) /\ FrameOK(f)  BY TopFacts DEF Forward, InFrame
<1> PICK todo \in Seq(Object) : todo = f.todo /\ todo # << >>  BY DEF Forward, FrameType
<1>1. Head(todo) \in Object /\ Tail(todo) \in Seq(Object)  BY BelowTopFacts
<1> PICK r \in Object : r = Head(todo)  BY <1>1
<1> PICK a : a = Frame("forward", r, f.name, FirstMatch(r, f.name), f.outer)  OBVIOUS
<1> PICK b : b = [f EXCEPT !.todo = Tail(todo)]  OBVIOUS
<1>2. FrameOK(a)
  <2>1. FirstMatch(r, f.name) # Nil =>
          FirstMatch(r, f.name) \in Handler /\ FirstMatch(r, f.name) \in Entries(events[r])
    BY MatchFacts DEF DispatchInv
  <2>2. << >> \in Seq(Object)  OBVIOUS
  <2> QED  BY <2>1, <2>2 DEF FrameOK, Frame, FrameType
<1>3. FrameOK(b)  BY <1>1 DEF FrameOK, FrameType
<1>5. stack' = [stack EXCEPT ![th] = <<a, b>> \o Tail(@)] /\ UNCHANGED <<events, hname, hflags, sched>>
  BY DEF Forward
<1>6. stack[th] # << >>  BY DEF Forward, InFrame
<1> QED  BY <1>2, <1>3, <1>5, <1>6, BecomeTwoStep

\* A sequence of some elements is one of more.
LEMMA SeqOfMore ==
  ASSUME NEW S, NEW T, S \subseteq T, NEW s \in Seq(S)
  PROVE  s \in Seq(T)
<1>1. \A i \in 1 .. Len(s) : s[i] \in S  BY ElementOfSeq
<1>2. s \in [1 .. Len(s) -> T] /\ Len(s) \in Nat  BY <1>1, LenProperties
<1> QED  BY <1>2, SeqDef

\* Handlers are called, and events posted.
LEMMA DispatchSteps ==
  ASSUME DispatchInv, NEW th \in Thread,
         Propagate(th) \/ Call(th) \/ HandlerReturns(th) \/ Return(th)
  PROVE  DispatchInv'
<1>1. stack[th] # << >> /\ UNCHANGED <<events, hname, hflags, sched>>
  BY DEF Propagate, Call, HandlerReturns, Return, AtHandler, InFrame
<1> PICK f \in FrameType : f = Top(th) /\ FrameOK(f)  BY <1>1, TopFacts
<1>2. CASE Propagate(th)
  <2> PICK todo : todo = Descendants[f.rcvr]  OBVIOUS
  <2>1. todo \in Seq(Object)
    <3>1. f.rcvr \in Object  BY DEF FrameType
    <3>2. todo \in Seq(Object \ {f.rcvr})  BY <3>1, DescendantsAssumption
    <3> QED  BY <3>2, SeqOfMore
  <2> PICK g : g = [f EXCEPT !.pc = "forward", !.propagated = TRUE, !.todo = todo]  OBVIOUS
  <2>2. FrameOK(g)  BY <2>1 DEF FrameOK, FrameType
  <2>3. Become(th, g)  BY <1>2 DEF Propagate
  <2> QED  BY <1>1, <2>2, <2>3, BecomeStep
<1>3. CASE Call(th)
  <2> PICK g : g = [f EXCEPT !.pc = "call"]  OBVIOUS
  <2>1. FrameOK(g)  BY DEF FrameOK, FrameType
  <2>2. Become(th, g)  BY <1>3 DEF Call
  <2> QED  BY <1>1, <2>1, <2>2, BecomeStep
<1>4. CASE HandlerReturns(th)
  <2>1. CASE Loops(f)
    <3> PICK h : h = NextMatch(f.rcvr, f.name, f.ev)  OBVIOUS
    <3> PICK g : g = [f EXCEPT !.ev = h, !.pc = "at"]  OBVIOUS
    <3>1. h # Nil => h \in Handler /\ h \in Entries(events[f.rcvr])
      <4>1. f.rcvr \in Object  BY DEF FrameType
      <4> QED  BY <4>1, MatchFacts DEF DispatchInv
    <3>2. f.kind # "async"  BY <2>1 DEF Loops
    <3>3. FrameOK(g)  BY <3>1, <3>2 DEF FrameOK, FrameType
    <3>4. Become(th, g)  BY <1>4, <2>1 DEF HandlerReturns, Advance
    <3> QED  BY <1>1, <3>3, <3>4, BecomeStep
  <2>2. CASE ~Loops(f)
    <3>1. Pop(th)  BY <1>4, <2>2 DEF HandlerReturns, Advance
    <3> QED  BY <1>1, <3>1, PopStep
  <2> QED  BY <2>1, <2>2
<1>5. CASE Return(th)
  <2>1. Pop(th)  BY <1>5 DEF Return
  <2> QED  BY <1>1, <2>1, PopStep
<1> QED  BY <1>2, <1>3, <1>4, <1>5

\* A thread is started with a frame of its own, and its starter goes on to the next
\* handler or returns.
LEMMA SpawnStep ==
  ASSUME DispatchInv, NEW th \in Thread, NEW new \in Thread, Spawn(th, new)
  PROVE  DispatchInv'
<1>1. stack[th] # << >> /\ stack[new] = << >> /\ UNCHANGED <<events, hname, hflags, sched>>
  BY DEF Spawn, AtHandler, InFrame
<1> PICK f \in FrameType : f = Top(th) /\ FrameOK(f)  BY <1>1, TopFacts
<1>2. f.rcvr \in Object /\ f.name \in Name /\ f.kind # "async"  BY DEF Spawn, FrameType
<1> PICK h : h = NextMatch(f.rcvr, f.name, f.ev)  OBVIOUS
<1>3. h # Nil => h \in Handler /\ h \in Entries(events[f.rcvr])
  BY <1>2, MatchFacts DEF DispatchInv
<1> DEFINE prop == "propagate" \in hflags[f.ev]
<1> PICK own \in BOOLEAN : own = ~(f.kind = "forward" /\ prop)  OBVIOUS
<1> PICK t : t = [Frame("async", f.rcvr, f.name, Nil, FALSE) EXCEPT !.propagated = own]  OBVIOUS
<1>g. PICK g : g = [f EXCEPT !.propagated = @ \/ (f.kind # "forward" /\ prop)]  OBVIOUS
<1>k. PICK k : k = [g EXCEPT !.ev = h]  OBVIOUS
<1>4. FrameOK(t)
  <2>1. << >> \in Seq(Object)  OBVIOUS
  <2> QED  BY <1>2, <2>1 DEF FrameOK, FrameType, Frame
<1>5. FrameOK(k)
  <2>1. (f.propagated \/ (f.kind # "forward" /\ prop)) \in BOOLEAN  BY DEF FrameType
  <2>2. g \in FrameType /\ g.kind = f.kind /\ g.rcvr = f.rcvr  BY <1>g, <2>1 DEF FrameType
  <2>3. k \in FrameType /\ k.kind = f.kind /\ k.rcvr = f.rcvr /\ k.ev = h
    <3>1. h \in Handler \cup {Nil}  BY <1>3
    <3>2. k \in FrameType /\ k.kind = g.kind /\ k.rcvr = g.rcvr /\ k.ev = h
      BY <1>k, <2>2, <3>1 DEF FrameType
    <3> QED  BY <2>2, <3>2
  <2> QED  BY <1>2, <1>3, <2>3 DEF FrameOK
<1>6. t \in FrameType /\ k \in FrameType  BY <1>4, <1>5 DEF FrameOK
<1>7. ASSUME NEW s \in Seq(FrameType)
      PROVE  <<k>> \o s \in Seq(FrameType) /\ Entries(<<k>> \o s) = {k} \cup Entries(s)
  BY <1>6, OnTopFacts
<1>8. <<t>> \in Seq(FrameType) /\ Entries(<<t>>) = {t}
  BY <1>6, SingleFacts
<1> PICK rest \in Seq(FrameType) : rest = Tail(stack[th])  BY <1>1, TopFacts
<1>9. Entries(rest) \subseteq Entries(stack[th])  BY <1>1, TopFacts
<1> PICK M : M = IF Loops(f) THEN <<k>> \o rest ELSE rest  OBVIOUS
<1>10. M \in Seq(FrameType) /\ Entries(M) \subseteq {k} \cup Entries(stack[th])
  <2>1. CASE Loops(f)
    <3>1. <<k>> \o rest \in Seq(FrameType) /\ Entries(<<k>> \o rest) = {k} \cup Entries(rest)
      BY <1>7
    <3>2. M = <<k>> \o rest  BY <2>1
    <3> QED  BY <1>9, <3>1, <3>2
  <2>2. CASE ~Loops(f)
    <3>1. M = rest  BY <2>2
    <3> QED  BY <1>9, <3>1
  <2> QED  BY <2>1, <2>2
<1>11. stack' = [stack EXCEPT ![new] = <<t>>, ![th] = M]
  BY <1>g, <1>k DEF Spawn
<1>12. /\ stack' \in [Thread -> Seq(FrameType)]
       /\ stack'[th] = M /\ stack'[new] = <<t>>
       /\ \A u \in Thread : u # th /\ u # new => stack'[u] = stack[u]
  BY <1>1, <1>8, <1>10, <1>11 DEF DispatchInv, WalksInv
<1>13. \A u \in Thread : \A x \in Entries(stack'[u]) : x \in Entries(stack[u]) \/ FrameOK(x)
  BY <1>4, <1>5, <1>8, <1>10, <1>12
<1>14. sched' # Nil => sched'.rcvr \in Object  BY <1>1 DEF DispatchInv, WalksInv
<1> QED  BY <1>1, <1>12, <1>13, <1>14, FramesStep

\* The application's calls.
LEMMA ApplicationStep ==
  ASSUME DispatchInv, NEW th \in Thread, Application(th)
  PROVE  DispatchInv'
<1>0. sched # Nil => sched.rcvr \in Object  BY DEF DispatchInv, WalksInv
<1>1. << >> \in Seq(Object)  OBVIOUS
<1>2. ASSUME NEW o \in Object, NEW n \in Name, NEW flags \in Flags[o], SetEvent(th, o, n, flags)
      PROVE  DispatchInv'
  <2>1. UNCHANGED <<stack, sched>>  BY <1>2 DEF SetEvent
  <2>2. CASE FirstMatch(o, n) = Nil
    BY <1>2, <2>1, <2>2, NewHandlerStep DEF SetEvent
  <2>3. CASE FirstMatch(o, n) # Nil
    <3> PICK h \in Handler : h = FirstMatch(o, n) /\ h \in Entries(events[o])
      BY <2>3, MatchFacts DEF DispatchInv
    <3> PICK more : more = hflags[h] \cup flags  OBVIOUS
    <3>1. /\ more \in Flags[o] /\ hflags' = [hflags EXCEPT ![h] = more]
          /\ UNCHANGED <<events, hname>>
      BY <1>2, <2>3 DEF SetEvent
    <3>2. /\ hflags' = [k \in Handler |-> hflags'[k]] /\ hflags'[h] = more
          /\ \A k \in Handler : k # h => hflags'[k] = hflags[k]
      BY <3>1 DEF DispatchInv, ListsType
    <3>3. \A p \in Object : Entries(events[p]) \subseteq Handler  BY EntriesType DEF DispatchInv, ListsType
    <3>4. ASSUME NEW p \in Object, NEW k \in Entries(events[p])  PROVE hflags'[k] \in Flags[p]
      <4>1. CASE k = h
        <5>1. p = o  BY <4>1 DEF DispatchInv, ListsType
        <5> QED  BY <3>1, <3>2, <4>1, <5>1
      <4>2. CASE k # h
        BY <3>2, <3>3, <4>2 DEF DispatchInv, ListsType
      <4> QED  BY <4>1, <4>2
    <3>5. ListsType'  BY <3>1, <3>2, <3>4 DEF DispatchInv, ListsType
    <3>6. WalksInv'  BY <2>1, <3>1 DEF DispatchInv, WalksInv, FrameOK
    <3> QED  BY <3>5, <3>6 DEF DispatchInv
  <2> QED  BY <2>2, <2>3
<1>3. ASSUME NEW o \in Object, NEW n \in Name, NEW flags \in Flags[o], AddEvent(th, o, n, flags)
      PROVE  DispatchInv'
  BY <1>3, NewHandlerStep DEF AddEvent
<1>4. ASSUME NEW o \in Object, NEW n \in Name, UnsetEvent(th, o, n)  PROVE DispatchInv'
  BY <1>4, UnsetStep DEF UnsetEvent
<1>5. ASSUME NEW o \in Object, NEW n \in Name, PostEvent(th, o, n)  PROVE DispatchInv'
  <2> PICK h : h = FirstMatch(o, n)  OBVIOUS
  <2> PICK outer \in BOOLEAN : outer = (stack[th] = << >>)  OBVIOUS
  <2> PICK f : f = Frame("post", o, n, h, outer)  OBVIOUS
  <2>1. h # Nil => h \in Handler /\ h \in Entries(events[o])  BY MatchFacts DEF DispatchInv
  <2>2. FrameOK(f)  BY <1>1, <2>1 DEF Frame, FrameOK, FrameType
  <2>3. Push(th, f) /\ UNCHANGED <<events, hname, hflags, sched>>  BY <1>5 DEF PostEvent
  <2> QED  BY <1>0, <2>2, <2>3, PushStep
<1>6. ASSUME NEW o \in Object, NEW n \in Name, NEW args \in SchedArgs, SchedEvent(th, o, n, args)
      PROVE  DispatchInv'
  <2>1. sched'.rcvr = o /\ UNCHANGED <<events, hname, hflags, stack>>  BY <1>6 DEF SchedEvent
  <2> QED  BY <2>1, FramesStep DEF DispatchInv, WalksInv
<1>7. ASSUME NEW o \in Object, NEW h \in Handler, PostEventByPtr(th, o, h)  PROVE DispatchInv'
  <2> PICK f : f = Frame("ptr", o, hname[h], h, FALSE)  OBVIOUS
  <2>1. h \in Entries(events[o])  BY <1>7 DEF PostEventByPtr
  <2>2. hname[h] \in Name  BY <2>1 DEF DispatchInv, ListsType
  <2>3. FrameOK(f)  BY <1>1, <2>1, <2>2 DEF Frame, FrameOK, FrameType
  <2>4. Push(th, f) /\ UNCHANGED <<events, hname, hflags, sched>>  BY <1>7 DEF PostEventByPtr
  <2> QED  BY <1>0, <2>3, <2>4, PushStep
<1> QED  BY <1>2, <1>3, <1>4, <1>5, <1>6, <1>7 DEF Application

\* Every step keeps the walks at linked handlers.
LEMMA DispatchStep ==
  ASSUME DispatchInv, [Next]_vars
  PROVE  DispatchInv'
<1>1. CASE UNCHANGED vars
  BY <1>1 DEF vars, DispatchInv, ListsType, WalksInv, FrameOK
<1>2. CASE EventTimeout
  <2> PICK o \in Object : o = sched.rcvr  BY <1>2 DEF EventTimeout, DispatchInv, WalksInv
  <2> PICK n : n = sched.argv[2]  OBVIOUS
  <2> PICK h : h = FirstMatch(o, n)  OBVIOUS
  <2>1. sched' = Nil /\ UNCHANGED <<events, hname, hflags>>  BY <1>2 DEF EventTimeout
  <2>2. CASE h = Nil
    <3>1. stack' = stack  BY <1>2, <2>2 DEF EventTimeout
    <3> QED  BY <2>1, <3>1, FramesStep DEF DispatchInv, WalksInv
  <2>3. CASE h # Nil
    <3> PICK f : f = Frame("timeout", o, n, h, FALSE)  OBVIOUS
    <3>1. h \in Handler /\ h \in Entries(events[o]) /\ n \in Name
      BY <2>3, MatchFacts DEF DispatchInv
    <3>2. << >> \in Seq(Object)  OBVIOUS
    <3>3. FrameOK(f)  BY <3>1, <3>2 DEF Frame, FrameOK, FrameType
    <3>4. Push(Main, f)  BY <1>2, <2>3 DEF EventTimeout
    <3> QED  BY <2>1, <3>3, <3>4, PushStep, ThreadAssumption
  <2> QED  BY <2>2, <2>3
<1>3. ASSUME NEW th \in Thread, Application(th)  PROVE DispatchInv'
  BY <1>3, ApplicationStep
<1>4. ASSUME NEW th \in Thread, Dispatch(th)  PROVE DispatchInv'
  BY <1>4, SpawnStep, ForwardStep, DispatchSteps DEF Dispatch
<1>5. ASSUME NEW th \in Thread, HandlerReturns(th)  PROVE DispatchInv'
  BY <1>5, DispatchSteps
<1> QED  BY <1>1, <1>2, <1>3, <1>4, <1>5 DEF Next

\* So they are there in every state.
LEMMA DispatchInvariant == Spec => []DispatchInv
<1>1. Init => DispatchInv
  <2>1. << >> \in Seq(Handler) /\ << >> \in Seq(FrameType) /\ Entries(<< >>) = {} /\ NoRepeats(<< >>)
    BY DEF Entries, NoRepeats
  <2> QED  BY <2>1 DEF Init, DispatchInv, ListsType, WalksInv
<1>2. DispatchInv /\ [Next]_vars => DispatchInv'  BY DispatchStep
<1> QED  BY <1>1, <1>2, PTL DEF Spec

\* No walk of an object's handlers goes on from one that was freed meanwhile, by another
\* thread or by a handler that it called.
THEOREM DispatchNeverAtFreedHandler == Spec => []NoUseAfterFree
<1>1. DispatchInv => NoUseAfterFree  BY DEF DispatchInv, WalksInv, FrameOK, NoUseAfterFree
<1> QED  BY <1>1, DispatchInvariant, PTL

-----------------------------------------------------------------------------
(* The event that the thread of the loop posts *)

\* Objects that are not the receiver of a walk's handler.
LEMMA Below ==
  ASSUME NEW o \in Object
  PROVE  Entries(Descendants[o]) \subseteq Object \ {o}
<1>1. Descendants[o] \in Seq(Object \ {o})  BY DescendantsAssumption
<1> QED  BY <1>1, EntriesType

\* A frame of the event is that of AG_PostEvent, the first of the thread, or one of
\* AG_ForwardEvent that another one of the event has called.
EventStack(th, s) ==
  \A i \in 1 .. Len(s) : s[i].outer =>
    th = Main /\ IF i = Len(s) THEN s[i].kind = "post" ELSE s[i].kind = "forward" /\ s[i + 1].outer

DeliveryInv ==
  /\ got \in [Handler -> Nat]
  /\ \A th \in Thread : EventStack(th, stack[th])

\* What a call that puts its frame over s must be.
MayCallFrom(th, f, s) == f.outer =>
  th = Main /\ IF s = << >> THEN f.kind = "post" ELSE f.kind = "forward" /\ s[1].outer

\* A stack is right when its top is, over a stack that is.
LEMMA EventStackFacts ==
  ASSUME NEW th, NEW f \in FrameType, NEW s \in Seq(FrameType)
  PROVE  EventStack(th, <<f>> \o s) <=> MayCallFrom(th, f, s) /\ EventStack(th, s)
<1> PICK n \in Nat : n = Len(s)  BY LenProperties
<1> PICK r : r = <<f>> \o s  OBVIOUS
<1>1. r \in Seq(FrameType) /\ Len(r) = n + 1 /\ r[1] = f /\ \A i \in 1 .. n : r[i + 1] = s[i]
  BY OnTopFacts
<1>2. s = << >> <=> n = 0  BY EmptySeq
<1> DEFINE Right(w, m, i) == w[i].outer =>
             th = Main /\ IF i = m THEN w[i].kind = "post" ELSE w[i].kind = "forward" /\ w[i + 1].outer
<1>3. EventStack(th, r) <=> \A i \in 1 .. n + 1 : Right(r, n + 1, i)  BY <1>1 DEF EventStack
<1>4. EventStack(th, s) <=> \A i \in 1 .. n : Right(s, n, i)  BY DEF EventStack
<1>5. \A i \in 1 .. n : Right(r, n + 1, i + 1) <=> Right(s, n, i)
  <2> SUFFICES ASSUME NEW i \in 1 .. n PROVE Right(r, n + 1, i + 1) <=> Right(s, n, i)  OBVIOUS
  <2>1. r[i + 1] = s[i] /\ (i + 1 = n + 1 <=> i = n)  BY <1>1
  <2>2. i # n => r[(i + 1) + 1] = s[i + 1]
    <3>1. i # n => i + 1 \in 1 .. n  OBVIOUS
    <3> QED  BY <1>1, <3>1
  <2> QED  BY <2>1, <2>2
<1>6. Right(r, n + 1, 1) <=> MayCallFrom(th, f, s)
  <2>1. CASE n = 0  BY <1>1, <1>2, <2>1 DEF MayCallFrom
  <2>2. CASE n # 0
    <3>1. 1 \in 1 .. n /\ 1 # n + 1  BY <2>2
    <3>2. r[1 + 1] = s[1]  BY <1>1, <3>1
    <3> QED  BY <1>1, <1>2, <2>2, <3>1, <3>2 DEF MayCallFrom
  <2> QED  BY <2>1, <2>2
<1> HIDE DEF Right
<1>7. (\A i \in 1 .. n + 1 : Right(r, n + 1, i))
        <=> (Right(r, n + 1, 1) /\ \A i \in 1 .. n : Right(r, n + 1, i + 1))
  <2>1. \A i \in 1 .. n + 1 : i = 1 \/ (i - 1 \in 1 .. n /\ (i - 1) + 1 = i)  OBVIOUS
  <2>2. 1 \in 1 .. n + 1 /\ \A i \in 1 .. n : i + 1 \in 1 .. n + 1  OBVIOUS
  <2>3. ASSUME Right(r, n + 1, 1), \A i \in 1 .. n : Right(r, n + 1, i + 1), NEW i \in 1 .. n + 1
        PROVE  Right(r, n + 1, i)
    <3>1. CASE i = 1  BY <2>3, <3>1
    <3>2. CASE i # 1
      <4> PICK j \in 1 .. n : j + 1 = i  BY <2>1, <3>2
      <4> QED  BY <2>3
    <3> QED  BY <3>1, <3>2
  <2> QED  BY <2>2, <2>3
<1> QED  BY <1>3, <1>4, <1>5, <1>6, <1>7

\* The calls on top of a stack: the same seen from the top.
LEMMA EventTop ==
  ASSUME NEW th, NEW S \in Seq(FrameType), S # << >>
  PROVE  EventStack(th, S) <=> MayCallFrom(th, S[1], Tail(S)) /\ EventStack(th, Tail(S))
<1> PICK t \in Seq(FrameType) : t = Tail(S)  BY BelowTopFacts
<1> PICK f \in FrameType : f = S[1]  BY BelowTopFacts
<1>1. S = <<f>> \o t
  <2>1. \A i \in 1 .. Len(S) - 1 : t[i] = S[i + 1]  BY BelowTopFacts
  <2>2. /\ <<f>> \o t \in Seq(FrameType) /\ Len(<<f>> \o t) = Len(t) + 1
        /\ (<<f>> \o t)[1] = f /\ \A i \in 1 .. Len(t) : (<<f>> \o t)[i + 1] = t[i]
    BY OnTopFacts
  <2>3. Len(t) = Len(S) - 1 /\ Len(S) \in Nat  BY BelowTopFacts, LenProperties
  <2> PICK r \in Seq(FrameType) : r = <<f>> \o t  BY <2>2
  <2>4. Len(r) = Len(S)  BY <2>2, <2>3
  <2>5. ASSUME NEW i \in 1 .. Len(S)  PROVE r[i] = S[i]
    <3>1. CASE i = 1  BY <2>2, <3>1
    <3>2. CASE i # 1
      <4> PICK j \in 1 .. Len(S) - 1 : j + 1 = i
        <5>1. i - 1 \in 1 .. Len(S) - 1 /\ (i - 1) + 1 = i  BY <2>3, <3>2
        <5> QED  BY <5>1
      <4> QED  BY <2>1, <2>2, <2>3
    <3> QED  BY <3>1, <3>2
  <2> QED  BY <2>4, <2>5, SeqEqual
<1>2. EventStack(th, <<f>> \o t) <=> MayCallFrom(th, f, t) /\ EventStack(th, t)
  BY EventStackFacts
<1> QED  BY <1>1, <1>2

\* A frame of the event is on the stack of the loop's thread.
LEMMA OuterFacts ==
  ASSUME DispatchInv, DeliveryInv, NEW th \in Thread, NEW S \in Seq(FrameType), S = stack[th],
         S # << >>, NEW f, f = Top(th)
  PROVE  /\ f = S[1] /\ f \in FrameType /\ FrameOK(f)
         /\ f.outer =>
              /\ th = Main
              /\ \/ Tail(S) = << >> /\ f.kind = "post"
                 \/ Tail(S) # << >> /\ Tail(S)[1].outer /\ f.kind = "forward"
<1>1. f = S[1] /\ f \in FrameType /\ f \in Entries(S)
  BY BelowTopFacts DEF Top
<1>2. FrameOK(f)  BY <1>1 DEF DispatchInv, WalksInv
<1>3. MayCallFrom(th, f, Tail(S))  BY <1>1, EventTop DEF DeliveryInv
<1> QED  BY <1>1, <1>2, <1>3 DEF MayCallFrom

\* Calls that are not of the event are made, return and go on: f on top of a stack,
\* or in the place of its top, or over g there.
PlainMove(S, M, f, g) ==
  \/ M = <<f>> \o S
  \/ /\ S # << >> /\ ~S[1].outer
     /\ M = <<f>> \o Tail(S) \/ M = Tail(S) \/ M = <<f, g>> \o Tail(S)

\* What keeps it so.
LEMMA StackMoves ==
  ASSUME NEW th, NEW S \in Seq(FrameType), EventStack(th, S), NEW f \in FrameType
  PROVE  /\ MayCallFrom(th, f, S) => EventStack(th, <<f>> \o S)
         /\ S # << >> =>
              /\ EventStack(th, Tail(S))
              /\ f.outer = S[1].outer /\ f.kind = S[1].kind => EventStack(th, <<f>> \o Tail(S))
<1>1. MayCallFrom(th, f, S) => EventStack(th, <<f>> \o S)  BY EventStackFacts
<1>2. ASSUME S # << >>
      PROVE  /\ EventStack(th, Tail(S))
             /\ f.outer = S[1].outer /\ f.kind = S[1].kind => EventStack(th, <<f>> \o Tail(S))
  <2> PICK t \in Seq(FrameType) : t = Tail(S)  BY <1>2, BelowTopFacts
  <2>1. MayCallFrom(th, S[1], t) /\ EventStack(th, t)  BY <1>2, EventTop
  <2>2. f.outer = S[1].outer /\ f.kind = S[1].kind => MayCallFrom(th, f, t)
    BY <2>1 DEF MayCallFrom
  <2> QED  BY <2>1, <2>2, EventStackFacts
<1> QED  BY <1>1, <1>2

\* A handler is called, or given a thread, or not.
LEMMA GotType ==
  ASSUME DeliveryInv, NEW f \in FrameType, Counted(f) \/ got' = got
  PROVE  got' \in [Handler -> Nat]
<1>1. f.ev \in Handler \cup {Nil}  BY DEF FrameType
<1> QED  BY <1>1 DEF DeliveryInv, Counted

\* A thread's stack is another one.
LEMMA OneStack ==
  ASSUME DispatchInv, DeliveryInv, got' \in [Handler -> Nat], NEW th \in Thread, NEW M,
         stack' = [stack EXCEPT ![th] = M], EventStack(th, M)
  PROVE  DeliveryInv'
<1>1. \A u \in Thread : stack'[u] = IF u = th THEN M ELSE stack[u]
  BY DEF DispatchInv, WalksInv
<1> QED  BY <1>1 DEF DeliveryInv

\* The application's calls, and the timer of AG_SchedEvent.
LEMMA ApplicationDelivery ==
  ASSUME DispatchInv, DeliveryInv, EventTimeout \/ \E th \in Thread : Application(th)
  PROVE  DeliveryInv'
<1>0. << >> \in Seq(Object)  OBVIOUS
<1>1. ASSUME UNCHANGED stack, got' \in [Handler -> Nat]  PROVE DeliveryInv'
  BY <1>1 DEF DeliveryInv
<1>2. ASSUME NEW th \in Thread, NEW f \in FrameType, MayCallFrom(th, f, stack[th]), Push(th, f),
             got' = got
      PROVE  DeliveryInv'
  <2>1. stack[th] \in Seq(FrameType)  BY DEF DispatchInv, WalksInv
  <2>2. EventStack(th, <<f>> \o stack[th])  BY <1>2, <2>1, StackMoves DEF DeliveryInv
  <2>3. stack' = [stack EXCEPT ![th] = <<f>> \o stack[th]]  BY <1>2 DEF Push
  <2>4. got' \in [Handler -> Nat]  BY <1>2 DEF DeliveryInv
  <2> QED  BY <2>2, <2>3, <2>4, OneStack
<1>3. CASE EventTimeout
  <2> PICK o \in Object : o = sched.rcvr  BY <1>3 DEF EventTimeout, DispatchInv, WalksInv
  <2> PICK n : n = sched.argv[2]  OBVIOUS
  <2> PICK h : h = FirstMatch(o, n)  OBVIOUS
  <2>1. got' = got  BY <1>3 DEF EventTimeout, ghosts
  <2>2. CASE h = Nil  BY <1>1, <1>3, <2>1, <2>2 DEF EventTimeout, DeliveryInv
  <2>3. CASE h # Nil
    <3>f. PICK f : f = Frame("timeout", o, n, h, FALSE)  OBVIOUS
    <3>1. h \in Handler /\ n \in Name  BY <2>3, MatchFacts DEF DispatchInv
    <3>2. f \in FrameType /\ ~f.outer  BY <1>0, <3>1, <3>f DEF Frame, FrameType
    <3>3. Push(Main, f)  BY <1>3, <2>3, <3>f DEF EventTimeout
    <3> QED  BY <1>2, <2>1, <3>2, <3>3, ThreadAssumption DEF MayCallFrom
  <2> QED  BY <2>2, <2>3
<1>4. ASSUME NEW th \in Thread, Application(th)  PROVE DeliveryInv'
  <2>1. ASSUME NEW o \in Object, NEW n \in Name, NEW flags \in Flags[o],
               SetEvent(th, o, n, flags) \/ AddEvent(th, o, n, flags)
        PROVE  DeliveryInv'
    BY <1>1, <2>1 DEF SetEvent, AddEvent, ghosts, DeliveryInv
  <2>2. ASSUME NEW o \in Object, NEW n \in Name, UnsetEvent(th, o, n)  PROVE DeliveryInv'
    <3>1. UNCHANGED stack /\ got' = [got EXCEPT ![FirstMatch(o, n)] = 0]
      BY <2>2 DEF UnsetEvent, Unset
    <3> QED  BY <1>1, <3>1 DEF DeliveryInv
  <2>3. ASSUME NEW o \in Object, NEW n \in Name, PostEvent(th, o, n)  PROVE DeliveryInv'
    <3> PICK outer \in BOOLEAN : outer = (stack[th] = << >>)  OBVIOUS
    <3>f. PICK f : f = Frame("post", o, n, FirstMatch(o, n), outer)  OBVIOUS
    <3>1. FirstMatch(o, n) \in Handler \cup {Nil}  BY MatchFacts DEF DispatchInv
    <3>2. f \in FrameType /\ f.kind = "post" /\ f.outer = outer
      BY <1>0, <3>1, <3>f DEF Frame, FrameType
    <3>3. Push(th, f) /\ got' = got  BY <2>3, <3>f DEF PostEvent
    <3>4. outer => th = Main  BY <2>3 DEF PostEvent, MayPost, Runs, InFrame
    <3> QED  BY <1>2, <3>2, <3>3, <3>4 DEF MayCallFrom
  <2>4. ASSUME NEW o \in Object, NEW n \in Name, NEW args \in SchedArgs, SchedEvent(th, o, n, args)
        PROVE  DeliveryInv'
    BY <1>1, <2>4 DEF SchedEvent, ghosts, DeliveryInv
  <2>5. ASSUME NEW o \in Object, NEW h \in Handler, PostEventByPtr(th, o, h)  PROVE DeliveryInv'
    <3>f. PICK f : f = Frame("ptr", o, hname[h], h, FALSE)  OBVIOUS
    <3>1. h \in Entries(events[o]) /\ hname[h] \in Name
      BY <2>5 DEF PostEventByPtr, DispatchInv, ListsType
    <3>2. f \in FrameType /\ ~f.outer  BY <1>0, <3>1, <3>f DEF Frame, FrameType
    <3>3. Push(th, f) /\ got' = got  BY <2>5, <3>f DEF PostEventByPtr, ghosts
    <3> QED  BY <1>2, <3>2, <3>3 DEF MayCallFrom
  <2> QED  BY <1>4, <2>1, <2>2, <2>3, <2>4, <2>5 DEF Application
<1> QED  BY <1>3, <1>4

\* The calls go on.
LEMMA DispatchDelivery ==
  ASSUME DispatchInv, DeliveryInv, NEW th \in Thread,
         Propagate(th) \/ Forward(th) \/ Call(th) \/ HandlerReturns(th) \/ Return(th)
  PROVE  DeliveryInv'
<1>s. PICK S \in Seq(FrameType) : S = stack[th]  BY DEF DispatchInv, WalksInv
<1>1. S # << >>
  BY <1>s DEF Propagate, Forward, Call, HandlerReturns, Return, AtHandler, InFrame
<1>f. PICK f \in FrameType : f = Top(th) /\ f = S[1]  BY <1>s, <1>1, OuterFacts
<1>2. EventStack(th, S)  BY <1>s DEF DeliveryInv
<1>3. ASSUME NEW g \in FrameType, g.outer = f.outer, g.kind = f.kind, Become(th, g),
             Counted(f) \/ got' = got
      PROVE  DeliveryInv'
  <2>1. EventStack(th, <<g>> \o Tail(S))  BY <1>f, <1>1, <1>2, <1>3, StackMoves
  <2>2. stack' = [stack EXCEPT ![th] = <<g>> \o Tail(S)]  BY <1>s, <1>3 DEF Become
  <2> QED  BY <1>3, <2>1, <2>2, GotType, OneStack
<1>4. ASSUME Pop(th), got' \in [Handler -> Nat]  PROVE DeliveryInv'
  <2>1. EventStack(th, Tail(S))  BY <1>f, <1>1, <1>2, StackMoves
  <2>2. stack' = [stack EXCEPT ![th] = Tail(S)]  BY <1>s, <1>4 DEF Pop
  <2> QED  BY <1>4, <2>1, <2>2, OneStack
<1>5. f.rcvr \in Object  BY DEF FrameType
<1>6. CASE Propagate(th)
  <2>d. PICK todo \in Seq(Object) : todo = Descendants[f.rcvr]
    <3>1. Descendants[f.rcvr] \in Seq(Object \ {f.rcvr})  BY <1>5, DescendantsAssumption
    <3> QED  BY <3>1, SeqOfMore
  <2>g. PICK g : g = [f EXCEPT !.pc = "forward", !.propagated = TRUE, !.todo = todo]  OBVIOUS
  <2>1. g \in FrameType /\ g.outer = f.outer /\ g.kind = f.kind  BY <2>g DEF FrameType
  <2>2. Become(th, g) /\ got' = got  BY <1>f, <1>6, <2>d, <2>g DEF Propagate
  <2> QED  BY <1>3, <2>1, <2>2
<1>7. CASE Forward(th)
  <2>1. f.todo # << >> /\ f.todo \in Seq(Object)  BY <1>f, <1>7 DEF Forward, FrameType
  <2>2. Head(f.todo) \in Object /\ Tail(f.todo) \in Seq(Object)  BY <2>1, BelowTopFacts
  <2>a. PICK a : a = Frame("forward", Head(f.todo), f.name, FirstMatch(Head(f.todo), f.name), f.outer)
    OBVIOUS
  <2>b. PICK b : b = [f EXCEPT !.todo = Tail(f.todo)]  OBVIOUS
  <2>3. FirstMatch(Head(f.todo), f.name) \in Handler \cup {Nil}
    BY <2>2, MatchFacts DEF DispatchInv
  <2>4. a \in FrameType /\ a.outer = f.outer /\ a.kind = "forward"
    <3>1. << >> \in Seq(Object)  OBVIOUS
    <3> QED  BY <2>2, <2>3, <2>a, <3>1 DEF Frame, FrameType
  <2>5. b \in FrameType /\ b.outer = f.outer /\ b.kind = f.kind
    BY <2>2, <2>b DEF FrameType
  <2>t. PICK t \in Seq(FrameType) : t = Tail(S)  BY <1>1, BelowTopFacts
  <2>m. PICK m \in Seq(FrameType) : m = <<b>> \o t /\ m[1] = b /\ m # << >>
    <3>1. <<b>> \o t \in Seq(FrameType) /\ (<<b>> \o t)[1] = b  BY <2>5, OnTopFacts
    <3>2. <<b>> \o t # << >>  OBVIOUS
    <3> QED  BY <3>1, <3>2
  <2>6. EventStack(th, m)  BY <1>f, <1>1, <1>2, <2>t, <2>m, <2>5, StackMoves
  <2>7. f.outer => th = Main  BY <1>s, <1>f, <1>1, OuterFacts
  <2>8. MayCallFrom(th, a, m)  BY <2>m, <2>4, <2>5, <2>7 DEF MayCallFrom
  <2>9. EventStack(th, <<a>> \o m)  BY <2>4, <2>6, <2>8, StackMoves
  <2>10. <<a, b>> \o t = <<a>> \o m
    <3>1. <<a, b>> = <<a>> \o <<b>>  OBVIOUS
    <3>2. <<a>> \in Seq(FrameType) /\ <<b>> \in Seq(FrameType)  BY <2>4, <2>5
    <3>3. (<<a>> \o <<b>>) \o t = <<a>> \o (<<b>> \o t)  BY <3>2
    <3> QED  BY <2>m, <3>1, <3>3
  <2>11. stack' = [stack EXCEPT ![th] = <<a>> \o m] /\ got' = got
    BY <1>s, <1>f, <1>7, <2>a, <2>b, <2>t, <2>10 DEF Forward, ghosts
  <2> QED  BY <2>9, <2>11, OneStack DEF DeliveryInv
<1>8. CASE Call(th)
  <2>g. PICK g : g = [f EXCEPT !.pc = "call"]  OBVIOUS
  <2>1. g \in FrameType /\ g.outer = f.outer /\ g.kind = f.kind  BY <2>g DEF FrameType
  <2>2. Become(th, g) /\ Counted(f)  BY <1>f, <1>8, <2>g DEF Call
  <2> QED  BY <1>3, <2>1, <2>2
<1>9. CASE HandlerReturns(th)
  <2>1. got' = got  BY <1>9 DEF HandlerReturns, ghosts
  <2>2. CASE Loops(f)
    <3>h. PICK h : h = NextMatch(f.rcvr, f.name, f.ev)  OBVIOUS
    <3>g. PICK g : g = [f EXCEPT !.ev = h, !.pc = "at"]  OBVIOUS
    <3>1. h \in Handler \cup {Nil}  BY <1>5, <3>h, MatchFacts DEF DispatchInv
    <3>2. g \in FrameType /\ g.outer = f.outer /\ g.kind = f.kind  BY <3>1, <3>g DEF FrameType
    <3>3. Become(th, g)  BY <1>f, <1>9, <2>2, <3>h, <3>g DEF HandlerReturns, Advance
    <3> QED  BY <1>3, <2>1, <3>2, <3>3
  <2>3. CASE ~Loops(f)
    <3>1. Pop(th)  BY <1>f, <1>9, <2>3 DEF HandlerReturns, Advance
    <3> QED  BY <1>4, <2>1, <3>1 DEF DeliveryInv
  <2> QED  BY <2>2, <2>3
<1>10. CASE Return(th)
  <2>1. Pop(th)  BY <1>10 DEF Return
  <2>2. got' = [h \in Handler |-> 0] \/ got' = got  BY <1>10 DEF Return, ghosts
  <2>3. got' \in [Handler -> Nat]  BY <2>2 DEF DeliveryInv
  <2> QED  BY <1>4, <2>1, <2>3
<1> QED  BY <1>6, <1>7, <1>8, <1>9, <1>10

\* A thread is started.
LEMMA SpawnDelivery ==
  ASSUME DispatchInv, DeliveryInv, NEW th \in Thread, NEW new \in Thread, Spawn(th, new)
  PROVE  DeliveryInv'
<1>s. PICK S \in Seq(FrameType) : S = stack[th]  BY DEF DispatchInv, WalksInv
<1>1. S # << >> /\ stack[new] = << >> /\ new # th
  BY <1>s DEF Spawn, AtHandler, InFrame
<1>f. PICK f \in FrameType : f = Top(th) /\ f = S[1]  BY <1>s, <1>1, OuterFacts
<1>2. f.rcvr \in Object /\ f.name \in Name  BY DEF FrameType
<1>h. PICK h : h = NextMatch(f.rcvr, f.name, f.ev)  OBVIOUS
<1>3. h \in Handler \cup {Nil}  BY <1>2, <1>h, MatchFacts DEF DispatchInv
<1> DEFINE prop == "propagate" \in hflags[f.ev]
<1>o. PICK own \in BOOLEAN : own = ~(f.kind = "forward" /\ prop)  OBVIOUS
<1>t. PICK t : t = [Frame("async", f.rcvr, f.name, Nil, FALSE) EXCEPT !.propagated = own]  OBVIOUS
<1>g. PICK g : g = [f EXCEPT !.propagated = @ \/ (f.kind # "forward" /\ prop)]  OBVIOUS
<1>k. PICK k : k = [g EXCEPT !.ev = h]  OBVIOUS
<1>4. t \in FrameType /\ ~t.outer
  <2>1. << >> \in Seq(Object)  OBVIOUS
  <2> QED  BY <1>2, <1>t, <2>1 DEF FrameType, Frame
<1>5. k \in FrameType /\ k.outer = f.outer /\ k.kind = f.kind
  <2>1. (f.propagated \/ (f.kind # "forward" /\ prop)) \in BOOLEAN  BY DEF FrameType
  <2>2. g \in FrameType /\ g.kind = f.kind /\ g.outer = f.outer  BY <1>g, <2>1 DEF FrameType
  <2> QED  BY <1>3, <1>k, <2>2 DEF FrameType
<1>m. PICK M : M = IF Loops(f) THEN <<k>> \o Tail(S) ELSE Tail(S)  OBVIOUS
<1>6. EventStack(th, M)
  <2>1. EventStack(th, S)  BY <1>s DEF DeliveryInv
  <2>2. EventStack(th, Tail(S)) /\ EventStack(th, <<k>> \o Tail(S))
    BY <1>f, <1>1, <1>5, <2>1, StackMoves
  <2> QED  BY <1>m, <2>2
<1>7. EventStack(new, <<t>>)
  <2>1. Len(<<t>>) = 1 /\ <<t>>[1] = t  OBVIOUS
  <2> QED  BY <1>4, <2>1 DEF EventStack
<1>8. stack' = [stack EXCEPT ![new] = <<t>>, ![th] = M] /\ Counted(f)
  BY <1>s, <1>f, <1>h, <1>o, <1>t, <1>g, <1>k, <1>m DEF Spawn
<1>9. \A u \in Thread : stack'[u] = IF u = th THEN M ELSE IF u = new THEN <<t>> ELSE stack[u]
  BY <1>1, <1>8 DEF DispatchInv, WalksInv
<1>10. got' \in [Handler -> Nat]  BY <1>8, GotType
<1> QED  BY <1>6, <1>7, <1>9, <1>10 DEF DeliveryInv

\* Every step keeps the frames of the event together at the bottom of a stack.
LEMMA DeliveryStep ==
  ASSUME DispatchInv, DeliveryInv, [Next]_vars
  PROVE  DispatchInv' /\ DeliveryInv'
<1>1. DispatchInv'  BY DispatchStep
<1>2. CASE UNCHANGED vars  BY <1>1, <1>2 DEF vars, DeliveryInv
<1>3. CASE EventTimeout \/ \E th \in Thread : Application(th)  BY <1>1, <1>3, ApplicationDelivery
<1>4. ASSUME NEW th \in Thread, Dispatch(th) \/ HandlerReturns(th)  PROVE DeliveryInv'
  BY <1>4, SpawnDelivery, DispatchDelivery DEF Dispatch
<1> QED  BY <1>1, <1>2, <1>3, <1>4 DEF Next

LEMMA DeliveryInitially == Init => DispatchInv /\ DeliveryInv
<1> SUFFICES ASSUME Init PROVE DispatchInv /\ DeliveryInv  OBVIOUS
<1>1. << >> \in Seq(Handler) /\ << >> \in Seq(FrameType) /\ Entries(<< >>) = {} /\ NoRepeats(<< >>)
      /\ Len(<< >>) = 0
  BY DEF Entries, NoRepeats
<1>2. DispatchInv  BY <1>1 DEF Init, DispatchInv, ListsType, WalksInv
<1>3. DeliveryInv  BY <1>1 DEF Init, DeliveryInv, EventStack
<1> QED  BY <1>2, <1>3

-----------------------------------------------------------------------------
(* An event reaches every handler *)

\* No handler has both flags: the copy that its thread gets loses AG_EVENT_PROPAGATE, and
\* the event would go to no descendant at all (Spawn).
NotBoth == \A o \in Object : \A fl \in Flags[o] : ~({"propagate", "async"} \subseteq fl)

\* The handlers that a walk has yet to call, or to give a thread.
Yet(f) == {h \in Handler : (h = f.ev /\ f.pc # "call") \/ Before(events[f.rcvr], f.ev, h)}

\* A handler the event is due to, of a descendant, was called for it, or is one that
\* AG_PostEvent (p) or AG_ForwardEvent (of the frames F) has before it.
Delivered(p, F, r, h) ==
  \/ got[h] > 0
  \/ p.pc = "forward" /\ r \in Entries(p.todo)
  \/ \E w \in F : w.kind = "forward" /\ h \in Yet(w)

\* What AG_PostEvent has done of its event, F being the frames of the event.
Served(p, F) ==
  /\ \A h \in due : /\ hname[h] = p.name
                    /\ \E r \in {p.rcvr} \cup Entries(Descendants[p.rcvr]) :
                         h \in Entries(events[r])
  /\ \A w \in F : w.name = p.name
  /\ \A h \in due : h \in Entries(events[p.rcvr]) => got[h] > 0 \/ h \in Yet(p)
  /\ fwd => p.propagated
  /\ p.propagated =>
       \A r \in Entries(Descendants[p.rcvr]) : \A h \in due :
         h \in Entries(events[r]) => Delivered(p, F, r, h)

\* The event is only propagated while AG_PostEvent has it.
Followed(F) ==
  /\ F = {} => ~fwd
  /\ \A p \in F : p.kind = "post" => Served(p, F)

\* The frames of the event.
OfEvent(s) == {f \in Entries(s) : f.outer}

\* What is known in every state of the event that the loop's thread posted.
CompleteInv ==
  /\ due \subseteq Handler /\ \A h \in due : hname[h] # Nil
  /\ fwd \in BOOLEAN
  /\ Followed(OfEvent(stack[Main]))

\* The search for a handler passes none of the name.
LEMMA ScanOrder ==
  ASSUME ListsType, NEW o \in Object, NEW n, NEW i \in Nat, NEW k \in DOMAIN events[o],
         k > i, hname[events[o][k]] = n
  PROVE  \/ ScanFrom(o, n, i) = events[o][k]
         \/ Before(events[o], ScanFrom(o, n, i), events[o][k])
<1> PICK list \in Seq(Handler) : list = events[o]  BY DEF ListsType
<1>1. DOMAIN list = 1 .. Len(list) /\ Len(list) \in Nat  BY LenProperties
<1> DEFINE J == {j \in DOMAIN list : j > i /\ hname[list[j]] = n}
<1>2. ScanFrom(o, n, i) = IF J = {} THEN Nil ELSE list[CHOOSE j \in J : \A l \in J : j <= l]
  BY DEF ScanFrom
<1>3. J \in SUBSET Nat /\ k \in J  BY <1>1
<1>4. \E j \in J : \A l \in J : j <= l
  <2> HIDE DEF J
  <2> QED  BY <1>3, Least
<1>5. PICK j \in J : ScanFrom(o, n, i) = list[j] /\ j <= k
  <2> HIDE DEF J
  <2> QED  BY <1>2, <1>3, <1>4
<1>6. j \in DOMAIN list /\ j \in Nat /\ k \in Nat  BY <1>1, <1>3
<1>7. CASE j = k  BY <1>5, <1>7
<1>8. CASE j < k  BY <1>5, <1>6, <1>8 DEF Before
<1> QED  BY <1>5, <1>6, <1>7, <1>8

\* A handler of the name is the first one or after it; and one that is after a handler
\* is the next one from there or after that.
LEMMA MatchOrder ==
  ASSUME ListsType, NEW o \in Object, NEW n, NEW h \in Entries(events[o]), hname[h] = n
  PROVE  /\ FirstMatch(o, n) = h \/ Before(events[o], FirstMatch(o, n), h)
         /\ \A e : Before(events[o], e, h) =>
              NextMatch(o, n, e) = h \/ Before(events[o], NextMatch(o, n, e), h)
<1> PICK list \in Seq(Handler) : list = events[o] /\ NoRepeats(list)  BY DEF ListsType
<1>1. DOMAIN list = 1 .. Len(list) /\ Len(list) \in Nat  BY LenProperties
<1>2. FirstMatch(o, n) = h \/ Before(list, FirstMatch(o, n), h)
  <2>1. PICK k \in DOMAIN list : list[k] = h  BY DEF Entries
  <2>2. k > 0  BY <1>1
  <2> QED  BY <2>1, <2>2, ScanOrder DEF FirstMatch
<1>3. ASSUME NEW e, Before(list, e, h)
      PROVE  NextMatch(o, n, e) = h \/ Before(list, NextMatch(o, n, e), h)
  <2>1. PICK i, k \in DOMAIN list : i < k /\ list[i] = e /\ list[k] = h  BY <1>3 DEF Before
  <2>2. e \in Entries(list)  BY <2>1 DEF Entries
  <2>3. Pos(list, e) = i
    <3>1. Pos(list, e) \in DOMAIN list /\ list[Pos(list, e)] = e  BY <1>1, <2>2, PosProperties
    <3> QED  BY <2>1, <3>1 DEF NoRepeats
  <2>4. i \in Nat /\ k > i  BY <1>1, <2>1
  <2>5. NextMatch(o, n, e) = ScanFrom(o, n, i)  BY <2>2, <2>3 DEF NextMatch
  <2>6. ScanFrom(o, n, i) = list[k] \/ Before(list, ScanFrom(o, n, i), list[k])
    BY <2>1, <2>4, ScanOrder
  <2> QED  BY <2>1, <2>5, <2>6
<1> QED  BY <1>2, <1>3

\* A walk passes no handler of the name of its event.
LEMMA YetFirst ==
  ASSUME ListsType, NEW f \in FrameType, f.ev = FirstMatch(f.rcvr, f.name), f.pc # "call",
         NEW h \in Entries(events[f.rcvr]), hname[h] = f.name
  PROVE  h \in Yet(f)
<1>1. f.rcvr \in Object  BY DEF FrameType
<1>2. h \in Handler
  <2>1. events[f.rcvr] \in Seq(Handler)  BY <1>1 DEF ListsType
  <2> QED  BY <2>1, EntriesType
<1> QED  BY <1>1, <1>2, MatchOrder DEF Yet

\* Neither does the search for the next handler, from one that was called.
LEMMA YetNext ==
  ASSUME ListsType, NEW f \in FrameType, NEW g \in FrameType, g.rcvr = f.rcvr,
         g.ev = NextMatch(f.rcvr, f.name, f.ev), g.pc # "call",
         NEW h \in Yet(f), hname[h] = f.name, h = f.ev => f.pc = "call"
  PROVE  h \in Yet(g)
<1>1. f.rcvr \in Object  BY DEF FrameType
<1>2. h \in Handler /\ Before(events[f.rcvr], f.ev, h)  BY DEF Yet
<1>3. h \in Entries(events[f.rcvr])  BY <1>2 DEF Before, Entries
<1>4. g.ev = h \/ Before(events[g.rcvr], g.ev, h)  BY <1>1, <1>2, <1>3, MatchOrder
<1> QED  BY <1>2, <1>4 DEF Yet

\* They are handlers of its receiver, and there are none after the last.
LEMMA YetFacts ==
  ASSUME DispatchInv, NEW f \in FrameType, FrameOK(f)
  PROVE  /\ Yet(f) \subseteq Entries(events[f.rcvr])
         /\ f.ev = Nil => Yet(f) = {}
<1>1. f.rcvr \in Object  BY DEF FrameType
<1>2. Entries(events[f.rcvr]) \subseteq Handler
  <2>1. events[f.rcvr] \in Seq(Handler)  BY <1>1 DEF DispatchInv, ListsType
  <2> QED  BY <2>1, EntriesType
<1>3. \A a, b : Before(events[f.rcvr], a, b) =>
        a \in Entries(events[f.rcvr]) /\ b \in Entries(events[f.rcvr])
  BY DEF Before, Entries
<1> QED  BY <1>2, <1>3, NilAssumption DEF Yet, FrameOK

\* Frames that are not of the event come and go.
LEMMA OfEventFacts ==
  ASSUME NEW s \in Seq(FrameType), NEW f \in FrameType
  PROVE  /\ OfEvent(<<f>> \o s) = {x \in {f} : x.outer} \cup OfEvent(s)
         /\ s # << >> => OfEvent(s) = {x \in {s[1]} : x.outer} \cup OfEvent(Tail(s))
<1>1. Entries(<<f>> \o s) = {f} \cup Entries(s)  BY OnTopFacts
<1>2. ASSUME s # << >>  PROVE Entries(s) = {s[1]} \cup Entries(Tail(s))
  BY <1>2, BelowTopFacts
<1> QED  BY <1>1, <1>2 DEF OfEvent

\* A step that leaves the event alone.
LEMMA SameFollowed ==
  ASSUME CompleteInv, UNCHANGED <<events, hname, got, due, fwd>>,
         OfEvent(stack'[Main]) = OfEvent(stack[Main])
  PROVE  CompleteInv'
<1> PICK F : F = OfEvent(stack[Main])  OBVIOUS
<1>1. Followed(F)  BY DEF CompleteInv
<1>2. Followed(F)'  BY <1>1 DEF Followed, Served, Delivered, Yet
<1>3. Followed(OfEvent(stack[Main]))'  BY <1>2
<1> QED  BY <1>3 DEF CompleteInv

\* Calls that are not of the event come and go.
LEMMA PlainFollowed ==
  ASSUME DispatchInv, CompleteInv, UNCHANGED <<events, hname, got, due, fwd>>,
         NEW th \in Thread, NEW M \in Seq(FrameType), stack'[th] = M,
         th # Main => stack'[Main] = stack[Main],
         NEW S \in Seq(FrameType), S = stack[th],
         NEW f \in FrameType, ~f.outer, NEW g \in FrameType, ~g.outer, PlainMove(S, M, f, g)
  PROVE  CompleteInv'
<1>0. ASSUME NEW s \in Seq(FrameType)  PROVE Entries(<<f, g>> \o s) = {f, g} \cup Entries(s)
  BY TwoOnTopFacts
<1>1. OfEvent(M) = OfEvent(S)
  <2>1. CASE M = <<f>> \o S
    <3>1. OfEvent(<<f>> \o S) = {x \in {f} : x.outer} \cup OfEvent(S)  BY OfEventFacts
    <3> QED  BY <2>1, <3>1
  <2>2. CASE S # << >> /\ ~S[1].outer
             /\ (M = <<f>> \o Tail(S) \/ M = Tail(S) \/ M = <<f, g>> \o Tail(S))
    <3> PICK s \in Seq(FrameType) : s = Tail(S)  BY <2>2, BelowTopFacts
    <3>1. OfEvent(S) = {x \in {S[1]} : x.outer} \cup OfEvent(s)  BY <2>2, OfEventFacts
    <3>2. OfEvent(<<f>> \o s) = {x \in {f} : x.outer} \cup OfEvent(s)  BY OfEventFacts
    <3>3. Entries(<<f, g>> \o s) = {f, g} \cup Entries(s)  BY <1>0
    <3>4. OfEvent(S) = OfEvent(s)  BY <2>2, <3>1
    <3>5. OfEvent(<<f>> \o s) = OfEvent(s)  BY <3>2
    <3>6. OfEvent(<<f, g>> \o s) = OfEvent(s)  BY <3>3 DEF OfEvent
    <3> QED  BY <2>2, <3>4, <3>5, <3>6
  <2> QED  BY <2>1, <2>2 DEF PlainMove
<1>2. OfEvent(stack'[Main]) = OfEvent(stack[Main])  BY <1>1
<1> QED  BY <1>2, SameFollowed

\* The handlers the event is due to are not touched.
LEMMA EditFollowed ==
  ASSUME DispatchInv, DispatchInv', CompleteInv, UNCHANGED <<stack, fwd>>,
         due' \subseteq due, \A h \in due' : hname'[h] = hname[h] /\ got'[h] = got[h],
         \A o \in Object : \A h \in due' : h \in Entries(events'[o]) <=> h \in Entries(events[o]),
         \A o \in Object : \A h \in due' : \A e \in Entries(events'[o]) :
           Before(events[o], e, h) => Before(events'[o], e, h)
  PROVE  CompleteInv'
<1> PICK F : F = OfEvent(stack[Main])  OBVIOUS
<1>1. \A w \in F : w \in FrameType /\ FrameOK(w)'
  BY ThreadAssumption DEF OfEvent, DispatchInv, WalksInv, FrameOK
<1>2. ASSUME NEW w \in F, NEW h \in due', h \in Yet(w)  PROVE h \in Yet(w)'
  <2>1. w.rcvr \in Object  BY <1>1 DEF FrameType
  <2>2. CASE h = w.ev /\ w.pc # "call"  BY <1>2, <2>2 DEF Yet
  <2>3. CASE Before(events[w.rcvr], w.ev, h)
    <3>1. w.ev \in Entries(events[w.rcvr])  BY <2>3 DEF Before, Entries
    <3>2. w.ev # Nil
      <4>1. Entries(events[w.rcvr]) \subseteq Handler
        BY <2>1, EntriesType DEF DispatchInv, ListsType
      <4> QED  BY <3>1, <4>1, NilAssumption
    <3>3. w.ev \in Entries(events'[w.rcvr])  BY <1>1, <3>2 DEF FrameOK
    <3>4. Before(events'[w.rcvr], w.ev, h)  BY <2>1, <2>3, <3>3
    <3> QED  BY <1>2, <3>4 DEF Yet
  <2> QED  BY <1>2, <2>2, <2>3 DEF Yet
<1>3. ASSUME NEW p \in F, p.kind = "post"  PROVE Served(p, F)'
  <2>1. p.rcvr \in Object  BY <1>1 DEF FrameType
  <2> PICK R \in SUBSET Object : R = Entries(Descendants[p.rcvr])  BY <2>1, Below
  <2>2. Served(p, F)  BY <1>3 DEF CompleteInv, Followed
  <2>3. ASSUME NEW h \in due'
        PROVE  hname'[h] = p.name /\ \E r \in {p.rcvr} \cup R : h \in Entries(events'[r])
    BY <2>1, <2>2 DEF Served
  <2>4. \A h \in due' : h \in Entries(events'[p.rcvr]) => got'[h] > 0 \/ h \in Yet(p)'
    BY <1>2, <2>1, <2>2 DEF Served
  <2>5. ASSUME p.propagated, NEW r \in R, NEW h \in due', h \in Entries(events'[r])
        PROVE  Delivered(p, F, r, h)'
    <3>1. Delivered(p, F, r, h)  BY <2>2, <2>5 DEF Served
    <3> QED  BY <1>2, <3>1 DEF Delivered
  <2>6. /\ \A w \in F : w.name = p.name
        /\ fwd' => p.propagated
    BY <2>2 DEF Served
  <2> QED  BY <2>3, <2>4, <2>5, <2>6 DEF Served
<1>4. Followed(F)'  BY <1>3 DEF CompleteInv, Followed
<1>5. Followed(OfEvent(stack[Main]))'  BY <1>4
<1> QED  BY <1>5 DEF CompleteInv

\* A call of the event moves on in its list.
LEMMA MoveFollowed ==
  ASSUME DispatchInv, UNCHANGED <<events, hname, due, fwd>>, due \subseteq Handler,
         \A h \in Handler : got[h] > 0 => got'[h] > 0,
         NEW f \in FrameType,
         NEW g \in FrameType, g.rcvr = f.rcvr, g.name = f.name, g.kind = f.kind,
         f.kind = "post" => g.propagated = f.propagated /\ (f.pc = "forward" => f.todo = << >>),
         \A h \in Yet(f) : hname[h] = f.name => got'[h] > 0 \/ h \in Yet(g),
         NEW R, Followed({f} \cup R)
  PROVE  Followed({g} \cup R)'
<1>1. \A w : Yet(w)' = Yet(w)  BY DEF Yet
<1>2. ASSUME g.kind = "post"  PROVE Served(g, {g} \cup R)'
  <2>1. Served(f, {f} \cup R)  BY <1>2 DEF Followed
  <2>2. /\ \A h \in due : /\ hname[h] = f.name
                          /\ \E r \in {f.rcvr} \cup Entries(Descendants[f.rcvr]) :
                               h \in Entries(events[r])
        /\ \A w \in {f} \cup R : w.name = f.name
        /\ \A h \in due : h \in Entries(events[f.rcvr]) => got[h] > 0 \/ h \in Yet(f)
        /\ fwd => f.propagated
        /\ g.propagated = f.propagated
    BY <1>2, <2>1 DEF Served
  <2>3. \A h \in due : h \in Entries(events[g.rcvr]) => got'[h] > 0 \/ h \in Yet(g)
    BY <2>2
  <2>4. ASSUME f.propagated, NEW r \in Entries(Descendants[f.rcvr]), NEW h \in due,
               h \in Entries(events[r])
        PROVE  Delivered(g, {g} \cup R, r, h)'
    <3>1. Delivered(f, {f} \cup R, r, h)  BY <2>1, <2>4 DEF Served
    <3>2. ~(f.pc = "forward" /\ r \in Entries(f.todo))
      <4>1. Entries(<< >>) = {}  BY DEF Entries
      <4> QED  BY <1>2, <4>1
    <3>3. got[h] > 0 \/ \E w \in R : w.kind = "forward" /\ h \in Yet(w)
      BY <1>2, <3>1, <3>2 DEF Delivered
    <3> QED  BY <1>1, <3>3 DEF Delivered
  <2> QED  BY <1>1, <2>2, <2>3, <2>4 DEF Served
<1>3. ASSUME NEW p \in R, p.kind = "post"  PROVE Served(p, {g} \cup R)'
  <2>1. Served(p, {f} \cup R)  BY <1>3 DEF Followed
  <2>2. /\ \A h \in due : /\ hname[h] = p.name
                          /\ \E r \in {p.rcvr} \cup Entries(Descendants[p.rcvr]) :
                               h \in Entries(events[r])
        /\ \A w \in {f} \cup R : w.name = p.name
        /\ \A h \in due : h \in Entries(events[p.rcvr]) => got[h] > 0 \/ h \in Yet(p)
        /\ fwd => p.propagated
    BY <2>1 DEF Served
  <2>3. \A h \in due : h \in Entries(events[p.rcvr]) => got'[h] > 0 \/ h \in Yet(p)
    BY <2>2
  <2>4. ASSUME p.propagated, NEW r \in Entries(Descendants[p.rcvr]), NEW h \in due,
               h \in Entries(events[r])
        PROVE  Delivered(p, {g} \cup R, r, h)'
    <3>1. Delivered(p, {f} \cup R, r, h)  BY <2>1, <2>4 DEF Served
    <3>2. hname[h] = f.name  BY <2>2
    <3>3. \/ got'[h] > 0
          \/ p.pc = "forward" /\ r \in Entries(p.todo)
          \/ \E w \in {g} \cup R : w.kind = "forward" /\ h \in Yet(w)
      BY <3>1, <3>2 DEF Delivered
    <3> QED  BY <1>1, <3>3 DEF Delivered
  <2> QED  BY <1>1, <2>2, <2>3, <2>4 DEF Served
<1> QED  BY <1>2, <1>3 DEF Followed

\* A handler that is called, or given a thread, counts; the others stay counted.
LEMMA CountedFacts ==
  ASSUME got \in [Handler -> Nat], NEW f \in FrameType, f.outer, Counted(f)
  PROVE  /\ \A h \in Handler : got[h] > 0 => got'[h] > 0
         /\ \A h \in Handler : h = f.ev => got'[h] > 0
<1>1. f.ev \in Handler \cup {Nil}  BY DEF FrameType
<1>2. CASE f.ev = Nil
  <2>1. got' = got  BY <1>2 DEF Counted
  <2>2. f.ev \notin Handler  BY <1>2, NilAssumption
  <2> QED  BY <2>1, <2>2
<1>3. CASE f.ev # Nil
  <2>1. got' = [got EXCEPT ![f.ev] = @ + 1] /\ f.ev \in Handler  BY <1>1, <1>3 DEF Counted
  <2>2. got[f.ev] \in Nat /\ got'[f.ev] = got[f.ev] + 1  BY <2>1
  <2>3. \A h \in Handler : h # f.ev => got'[h] = got[h]  BY <2>1
  <2> QED  BY <2>2, <2>3
<1> QED  BY <1>2, <1>3

\* The call on top of the stack, of the event, moves on.
LEMMA EventFollowed ==
  ASSUME DispatchInv, CompleteInv, UNCHANGED <<events, hname, due, fwd>>,
         \A h \in Handler : got[h] > 0 => got'[h] > 0,
         NEW S \in Seq(FrameType), S = stack[Main], S # << >>,
         NEW f \in FrameType, f = S[1], f.outer,
         NEW g \in FrameType, g.outer, g.rcvr = f.rcvr, g.name = f.name, g.kind = f.kind,
         f.kind = "post" => g.propagated = f.propagated /\ (f.pc = "forward" => f.todo = << >>),
         \A h \in Yet(f) : hname[h] = f.name => got'[h] > 0 \/ h \in Yet(g),
         NEW M, M = <<g>> \o Tail(S), stack'[Main] = M
  PROVE  CompleteInv'
<1> PICK s \in Seq(FrameType) : s = Tail(S)  BY BelowTopFacts
<1> PICK R : R = OfEvent(s)  OBVIOUS
<1>1. OfEvent(S) = {f} \cup R
  <2>1. OfEvent(S) = {x \in {S[1]} : x.outer} \cup OfEvent(Tail(S))  BY OfEventFacts
  <2> QED  BY <2>1
<1>2. OfEvent(M) = {g} \cup R
  <2>1. OfEvent(<<g>> \o s) = {x \in {g} : x.outer} \cup OfEvent(s)  BY OfEventFacts
  <2> QED  BY <2>1
<1>3. Followed({f} \cup R) /\ due \subseteq Handler  BY <1>1 DEF CompleteInv
<1>4. Followed({g} \cup R)'  BY <1>3, MoveFollowed
<1>5. Followed(OfEvent(stack[Main]))'  BY <1>2, <1>4
<1> QED  BY <1>5 DEF CompleteInv

\* The call of AG_ForwardEvent has reached the end of its list, and returns.
LEMMA DropFollowed ==
  ASSUME UNCHANGED <<events, hname, got, due, fwd>>,
         NEW f, Yet(f) = {}, NEW R, R # {}, Followed({f} \cup R)
  PROVE  Followed(R)'
<1>1. \A w : Yet(w)' = Yet(w)  BY DEF Yet
<1>2. ASSUME NEW p \in R, p.kind = "post"  PROVE Served(p, R)'
  <2>1. Served(p, {f} \cup R)  BY <1>2 DEF Followed
  <2>2. /\ \A h \in due : /\ hname[h] = p.name
                          /\ \E r \in {p.rcvr} \cup Entries(Descendants[p.rcvr]) :
                               h \in Entries(events[r])
        /\ \A w \in {f} \cup R : w.name = p.name
        /\ \A h \in due : h \in Entries(events[p.rcvr]) => got[h] > 0 \/ h \in Yet(p)
        /\ fwd => p.propagated
    BY <2>1 DEF Served
  <2>3. ASSUME p.propagated, NEW r \in Entries(Descendants[p.rcvr]), NEW h \in due,
               h \in Entries(events[r])
        PROVE  Delivered(p, R, r, h)'
    <3>1. Delivered(p, {f} \cup R, r, h)  BY <2>1, <2>3 DEF Served
    <3> QED  BY <1>1, <3>1 DEF Delivered
  <2> QED  BY <1>1, <2>2, <2>3 DEF Served
<1> QED  BY <1>2 DEF Followed

\* A call of AG_ForwardEvent is made.
LEMMA AddFollowed ==
  ASSUME NEW R, NEW b \in R, NEW a, a.name = b.name, a.kind = "forward", Followed(R)'
  PROVE  Followed({a} \cup R)'
<1> SUFFICES ASSUME NEW p \in R, p.kind = "post"  PROVE Served(p, {a} \cup R)'
  BY DEF Followed
<1>1. Served(p, R)'  BY DEF Followed
<1>2. \A w \in {a} \cup R : w.name = p.name  BY <1>1 DEF Served
<1>3. \A r, h : Delivered(p, R, r, h)' => Delivered(p, {a} \cup R, r, h)'  BY DEF Delivered
<1> QED  BY <1>1, <1>2, <1>3 DEF Served

\* The event is not due to a handler that is added meanwhile.
LEMMA NewHandlerFollowed ==
  ASSUME DispatchInv, DispatchInv', CompleteInv, NEW o \in Object, NEW n \in Name,
         NEW h \in Handler, NEW flags, NewHandler(o, n, h, flags), UNCHANGED <<stack, ghosts>>
  PROVE  CompleteInv'
<1> PICK list \in Seq(Handler) : list = events[o]  BY DEF DispatchInv, ListsType
<1> PICK new : new = TailqInsertTail(list, h)  OBVIOUS
<1>0. UNCHANGED <<stack, due, got, fwd>>  BY DEF ghosts
<1>1. /\ hname[h] = Nil /\ events' = [events EXCEPT ![o] = new]
      /\ hname' = [hname EXCEPT ![h] = n]
  BY DEF NewHandler
<1>2. h \notin due /\ due \subseteq Handler  BY <1>1 DEF CompleteInv
<1>3. /\ events'[o] = new /\ \A p \in Object : p # o => events'[p] = events[p]
      /\ \A k \in Handler : k # h => hname'[k] = hname[k]
  BY <1>1 DEF DispatchInv, ListsType
<1>4. Entries(new) = Entries(list) \cup {h}
  <2>1. h \notin Entries(list) /\ NoRepeats(list)  BY <1>1 DEF DispatchInv, ListsType
  <2> QED  BY <2>1, InsertTailProperties
<1>5. \A a, b : Before(list, a, b) => Before(new, a, b)  BY BeforeInsertTail
<1>6. \A p \in Object : \A k \in due : k \in Entries(events'[p]) <=> k \in Entries(events[p])
  BY <1>2, <1>3, <1>4
<1>7. \A p \in Object : \A k \in due : \A e \in Entries(events'[p]) :
        Before(events[p], e, k) => Before(events'[p], e, k)
  BY <1>3, <1>5
<1>8. \A k \in due : hname'[k] = hname[k]  BY <1>2, <1>3
<1> QED  BY <1>0, <1>6, <1>7, <1>8, EditFollowed

\* The event is no more due to a handler that is deleted.
LEMMA UnsetFollowed ==
  ASSUME DispatchInv, DispatchInv', CompleteInv, DeliveryInv, NEW o \in Object, NEW n, Unset(o, n)
  PROVE  CompleteInv'
<1> PICK list \in Seq(Handler) : list = events[o]  BY DEF DispatchInv, ListsType
<1> PICK h \in Handler : h = FirstMatch(o, n) /\ h \in Entries(list)
  BY MatchFacts DEF Unset, DispatchInv
<1> PICK new : new = TailqRemove(list, h)  OBVIOUS
<1>1. /\ events' = [events EXCEPT ![o] = new] /\ hname' = [hname EXCEPT ![h] = Nil]
      /\ due' = due \ {h} /\ got' = [got EXCEPT ![h] = 0] /\ UNCHANGED <<stack, fwd>>
  BY DEF Unset
<1>2. due \subseteq Handler  BY DEF CompleteInv
<1>3. /\ events'[o] = new /\ \A p \in Object : p # o => events'[p] = events[p]
      /\ \A k \in Handler : k # h => hname'[k] = hname[k] /\ got'[k] = got[k]
  BY <1>1 DEF DispatchInv, ListsType, DeliveryInv
<1>4. Entries(new) = Entries(list) \ {h}
  <2>1. NoRepeats(list)  BY DEF DispatchInv, ListsType
  <2> QED  BY <2>1, RemoveProperties
<1>5. \A a, b : Before(list, a, b) /\ a # h /\ b # h => Before(new, a, b)  BY RemoveKeepsOrder
<1>6. \A p \in Object : \A k \in due' : k \in Entries(events'[p]) <=> k \in Entries(events[p])
  BY <1>1, <1>3, <1>4
<1>7. \A p \in Object : \A k \in due' : \A e \in Entries(events'[p]) :
        Before(events[p], e, k) => Before(events'[p], e, k)
  BY <1>1, <1>3, <1>4, <1>5
<1>8. \A k \in due' : hname'[k] = hname[k] /\ got'[k] = got[k]  BY <1>1, <1>2, <1>3
<1> QED  BY <1>1, <1>6, <1>7, <1>8, EditFollowed

\* The event is posted: it is due to the handlers there are.
LEMMA PostFollowed ==
  ASSUME DispatchInv, CompleteInv, NEW o \in Object, NEW n \in Name,
         stack[Main] = << >>, PostEvent(Main, o, n)
  PROVE  CompleteInv'
<1>f. PICK f : f = Frame("post", o, n, FirstMatch(o, n), TRUE)  OBVIOUS
<1>1. f \in FrameType
  <2>1. << >> \in Seq(Object)  OBVIOUS
  <2>2. FirstMatch(o, n) \in Handler \cup {Nil}  BY MatchFacts DEF DispatchInv
  <2> QED  BY <1>f, <2>1, <2>2 DEF Frame, FrameType
<1>2. /\ f.rcvr = o /\ f.name = n /\ f.ev = FirstMatch(o, n) /\ f.pc = "at" /\ f.kind = "post"
      /\ ~f.propagated /\ f.outer
  BY <1>f DEF Frame
<1>3. stack'[Main] = <<f>>
  <2>1. (stack[Main] = << >>) = TRUE  OBVIOUS
  <2>2. Push(Main, f)  BY <1>f, <2>1 DEF PostEvent
  <2>3. <<f>> \o << >> = <<f>>  OBVIOUS
  <2> QED  BY <2>2, <2>3, ThreadAssumption DEF Push, DispatchInv, WalksInv
<1>4. OfEvent(stack'[Main]) = {f}
  <2>1. Entries(<<f>>) = {f}  BY SingleFacts
  <2> QED  BY <1>2, <1>3, <2>1 DEF OfEvent
<1>5. /\ due' = {h \in Handler : hname[h] = n /\ \E r \in {o} \cup Entries(Descendants[o]) :
                                                   h \in Entries(events[r])}
      /\ UNCHANGED <<events, hname, got, fwd>>
  BY DEF PostEvent
<1>6. ~fwd
  <2>1. OfEvent(stack[Main]) = {}  BY DEF OfEvent, Entries
  <2> QED  BY <2>1 DEF CompleteInv, Followed
<1>7. Served(f, {f})'
  <2>1. \A h \in due' : h \in Entries(events[o]) => h \in Yet(f)
    BY <1>1, <1>2, <1>5, YetFirst DEF DispatchInv
  <2>2. Yet(f)' = Yet(f)  BY <1>5 DEF Yet
  <2>3. \A h \in due' : h \in Entries(events'[o]) => h \in Yet(f)'  BY <1>5, <2>1, <2>2
  <2>4. \A h \in due' : /\ hname'[h] = n
                        /\ \E r \in {o} \cup Entries(Descendants[o]) : h \in Entries(events'[r])
    BY <1>5
  <2>5. ~fwd'  BY <1>5, <1>6
  <2> QED  BY <1>2, <2>3, <2>4, <2>5 DEF Served
<1>8. Followed(OfEvent(stack[Main]))'  BY <1>4, <1>7 DEF Followed
<1>9. due' \subseteq Handler /\ \A h \in due' : hname'[h] # Nil  BY <1>5, NilAssumption
<1> QED  BY <1>5, <1>8, <1>9 DEF CompleteInv

\* The application's calls.
LEMMA ApplicationFollowed ==
  ASSUME DispatchInv, DispatchInv', DeliveryInv, CompleteInv, NEW th \in Thread, Application(th)
  PROVE  CompleteInv'
<1> PICK S \in Seq(FrameType) : S = stack[th]  BY DEF DispatchInv, WalksInv
<1>0. << >> \in Seq(Object)  OBVIOUS
<1>1. ASSUME UNCHANGED <<stack, ghosts, events, hname>>  PROVE CompleteInv'
  <2>1. UNCHANGED <<events, hname, got, due, fwd>>  BY <1>1 DEF ghosts
  <2>2. OfEvent(stack'[Main]) = OfEvent(stack[Main])  BY <1>1
  <2> QED  BY <2>1, <2>2, SameFollowed
<1>2. ASSUME NEW o \in Object, NEW n \in Name, NEW flags \in Flags[o], SetEvent(th, o, n, flags)
      PROVE  CompleteInv'
  <2>1. UNCHANGED <<stack, ghosts>>  BY <1>2 DEF SetEvent
  <2>2. CASE FirstMatch(o, n) = Nil
    BY <1>2, <2>1, <2>2, NewHandlerFollowed DEF SetEvent
  <2>3. CASE FirstMatch(o, n) # Nil
    BY <1>1, <1>2, <2>1, <2>3 DEF SetEvent
  <2> QED  BY <2>2, <2>3
<1>3. ASSUME NEW o \in Object, NEW n \in Name, NEW flags \in Flags[o], AddEvent(th, o, n, flags)
      PROVE  CompleteInv'
  BY <1>3, NewHandlerFollowed DEF AddEvent
<1>4. ASSUME NEW o \in Object, NEW n \in Name, UnsetEvent(th, o, n)  PROVE CompleteInv'
  BY <1>4, UnsetFollowed DEF UnsetEvent
<1>5. ASSUME NEW f \in FrameType, ~f.outer, Push(th, f), UNCHANGED <<events, hname, got, due, fwd>>
      PROVE  CompleteInv'
  <2> PICK M : M = <<f>> \o S  OBVIOUS
  <2>1. M \in Seq(FrameType)  BY OnTopFacts
  <2>2. stack'[th] = M /\ \A u \in Thread : u # th => stack'[u] = stack[u]
    BY <1>5 DEF Push, DispatchInv, WalksInv
  <2>3. PlainMove(S, M, f, f)  BY DEF PlainMove
  <2> QED  BY <1>5, <2>1, <2>2, <2>3, PlainFollowed, ThreadAssumption
<1>6. ASSUME NEW o \in Object, NEW n \in Name, PostEvent(th, o, n)  PROVE CompleteInv'
  <2>1. CASE stack[th] = << >>
    <3>1. th = Main  BY <1>6, <2>1 DEF PostEvent, MayPost, Runs, InFrame
    <3> QED  BY <1>6, <2>1, <3>1, PostFollowed
  <2>2. CASE stack[th] # << >>
    <3> PICK f : f = Frame("post", o, n, FirstMatch(o, n), FALSE)  OBVIOUS
    <3>1. FirstMatch(o, n) \in Handler \cup {Nil}  BY MatchFacts DEF DispatchInv
    <3>2. f \in FrameType /\ ~f.outer  BY <1>0, <3>1 DEF Frame, FrameType
    <3>3. (stack[th] = << >>) = FALSE  BY <2>2
    <3>4. Push(th, f) /\ UNCHANGED <<events, hname, got, due, fwd>>
      BY <1>6, <3>3 DEF PostEvent
    <3> QED  BY <1>5, <3>2, <3>4
  <2> QED  BY <2>1, <2>2
<1>7. ASSUME NEW o \in Object, NEW n \in Name, NEW args \in SchedArgs, SchedEvent(th, o, n, args)
      PROVE  CompleteInv'
  BY <1>1, <1>7 DEF SchedEvent
<1>8. ASSUME NEW o \in Object, NEW h \in Handler, PostEventByPtr(th, o, h)  PROVE CompleteInv'
  <2> PICK f : f = Frame("ptr", o, hname[h], h, FALSE)  OBVIOUS
  <2>1. h \in Entries(events[o]) /\ hname[h] \in Name
    BY <1>8 DEF PostEventByPtr, DispatchInv, ListsType
  <2>2. f \in FrameType /\ ~f.outer  BY <1>0, <2>1 DEF Frame, FrameType
  <2>3. Push(th, f) /\ UNCHANGED <<events, hname, got, due, fwd>>
    BY <1>8 DEF PostEventByPtr, ghosts
  <2> QED  BY <1>5, <2>2, <2>3
<1> QED  BY <1>2, <1>3, <1>4, <1>6, <1>7, <1>8 DEF Application

\* A handler is called, or returns.
LEMMA CallFollowed ==
  ASSUME DispatchInv, DeliveryInv, CompleteInv, NEW th \in Thread, Call(th) \/ HandlerReturns(th)
  PROVE  CompleteInv'
<1> PICK S \in Seq(FrameType) : S = stack[th]  BY DEF DispatchInv, WalksInv
<1>1. S # << >> /\ UNCHANGED <<events, hname, due, fwd>>
  BY DEF Call, HandlerReturns, AtHandler, InFrame, ghosts
<1> PICK f \in FrameType : f = Top(th) /\ f = S[1] /\ FrameOK(f)  BY <1>1, OuterFacts
<1>2. f.outer => th = Main /\ f.kind \in {"post", "forward"}  BY <1>1, OuterFacts
<1>3. ASSUME NEW g \in FrameType, Become(th, g), g.outer = f.outer, g.rcvr = f.rcvr,
             g.name = f.name, g.kind = f.kind, g.propagated = f.propagated,
             f.pc = "forward" => f.todo = << >>, Counted(f) \/ got' = got,
             f.outer => \A h \in Yet(f) : hname[h] = f.name => got'[h] > 0 \/ h \in Yet(g)
      PROVE  CompleteInv'
  <2>m. PICK M : M = <<g>> \o Tail(S)  OBVIOUS
  <2>1. M \in Seq(FrameType)
    <3>1. Tail(S) \in Seq(FrameType)  BY <1>1, BelowTopFacts
    <3>2. <<g>> \o Tail(S) \in Seq(FrameType)  BY <3>1, OnTopFacts
    <3> QED  BY <2>m, <3>2
  <2>2. stack'[th] = M /\ \A u \in Thread : u # th => stack'[u] = stack[u]
    BY <1>3, <2>m DEF Become, DispatchInv, WalksInv
  <2>3. CASE f.outer
    <3>1. th = Main  BY <1>2, <2>3
    <3>2. \A h \in Handler : got[h] > 0 => got'[h] > 0
      BY <1>3, <2>3, CountedFacts DEF DeliveryInv
    <3>3. S = stack[Main] /\ stack'[Main] = M  BY <2>2, <3>1
    <3> QED  BY <1>1, <1>3, <2>m, <2>3, <3>2, <3>3, EventFollowed
  <2>4. CASE ~f.outer
    <3>1. UNCHANGED <<events, hname, got, due, fwd>>  BY <1>1, <1>3, <2>4 DEF Counted
    <3>2. PlainMove(S, M, g, g)  BY <1>1, <2>m, <2>4 DEF PlainMove
    <3> QED  BY <1>3, <2>1, <2>2, <2>4, <3>1, <3>2, PlainFollowed, ThreadAssumption
  <2> QED  BY <2>3, <2>4
<1>4. CASE Call(th)
  <2> PICK g : g = [f EXCEPT !.pc = "call"]  OBVIOUS
  <2>1. /\ g \in FrameType /\ g.outer = f.outer /\ g.rcvr = f.rcvr /\ g.kind = f.kind
        /\ g.name = f.name /\ g.propagated = f.propagated /\ g.pc = "call" /\ g.ev = f.ev
    BY DEF FrameType
  <2>2. Become(th, g) /\ Counted(f) /\ (f.pc = "forward" => f.todo = << >>)
    BY <1>4 DEF Call, AtHandler, InFrame
  <2>3. ASSUME f.outer, NEW h \in Yet(f)  PROVE got'[h] > 0 \/ h \in Yet(g)
    <3>1. CASE h = f.ev
      <4>1. h \in Handler  BY DEF Yet
      <4> QED  BY <2>2, <2>3, <3>1, <4>1, CountedFacts DEF DeliveryInv
    <3>2. CASE h # f.ev  BY <2>1, <3>2 DEF Yet
    <3> QED  BY <3>1, <3>2
  <2> QED  BY <1>3, <2>1, <2>2, <2>3
<1>5. CASE HandlerReturns(th)
  <2>1. got' = got /\ f.pc = "call"  BY <1>5 DEF HandlerReturns, InFrame, ghosts
  <2>2. CASE Loops(f)
    <3> PICK h : h = NextMatch(f.rcvr, f.name, f.ev)  OBVIOUS
    <3> PICK g : g = [f EXCEPT !.ev = h, !.pc = "at"]  OBVIOUS
    <3>1. h # Nil => h \in Handler
      <4>1. f.rcvr \in Object  BY DEF FrameType
      <4> QED  BY <4>1, MatchFacts DEF DispatchInv
    <3>2. /\ g \in FrameType /\ g.outer = f.outer /\ g.rcvr = f.rcvr /\ g.kind = f.kind
          /\ g.name = f.name /\ g.propagated = f.propagated /\ g.pc = "at" /\ g.ev = h
      BY <3>1 DEF FrameType
    <3>3. Become(th, g)  BY <1>5, <2>2 DEF HandlerReturns, Advance
    <3>4. ASSUME NEW x \in Yet(f), hname[x] = f.name  PROVE x \in Yet(g)
      <4>1. ListsType  BY DEF DispatchInv
      <4>2. g.rcvr = f.rcvr /\ g.ev = NextMatch(f.rcvr, f.name, f.ev) /\ g.pc # "call"
        BY <3>2
      <4>3. g \in FrameType /\ (x = f.ev => f.pc = "call")  BY <2>1, <3>2
      <4> QED  BY <3>4, <4>1, <4>2, <4>3, YetNext
    <3> QED  BY <1>3, <2>1, <3>2, <3>3, <3>4
  <2>3. CASE ~Loops(f)
    <3>1. ~f.outer  BY <1>2, <2>3 DEF Loops
    <3> PICK M : M = Tail(S)  OBVIOUS
    <3>2. M \in Seq(FrameType)  BY <1>1, BelowTopFacts
    <3>3. stack'[th] = M /\ \A u \in Thread : u # th => stack'[u] = stack[u]
      BY <1>5, <2>3 DEF HandlerReturns, Advance, Pop, DispatchInv, WalksInv
    <3>4. PlainMove(S, M, f, f)  BY <1>1, <3>1 DEF PlainMove
    <3> QED  BY <1>1, <2>1, <3>1, <3>2, <3>3, <3>4, PlainFollowed, ThreadAssumption
  <2> QED  BY <2>2, <2>3
<1> QED  BY <1>4, <1>5

\* A thread is started for an asynchronous handler, which then does not propagate.
LEMMA SpawnFollowed ==
  ASSUME NotBoth, DispatchInv, DeliveryInv, CompleteInv, NEW th \in Thread, NEW new \in Thread,
         Spawn(th, new)
  PROVE  CompleteInv'
<1> PICK S \in Seq(FrameType) : S = stack[th]  BY DEF DispatchInv, WalksInv
<1>1. /\ S # << >> /\ stack[new] = << >> /\ new # Main /\ new # th
      /\ UNCHANGED <<events, hname, due>>
  BY DEF Spawn, AtHandler, InFrame
<1> PICK f \in FrameType : f = Top(th) /\ f = S[1] /\ FrameOK(f)  BY <1>1, OuterFacts
<1>2. f.outer => th = Main /\ f.kind \in {"post", "forward"}  BY <1>1, OuterFacts
<1>3. /\ f.rcvr \in Object /\ f.pc = "at" /\ f.ev # Nil
      /\ "async" \in hflags[f.ev]
  BY DEF Spawn, AtHandler, InFrame, FrameType, Async
<1>p. "propagate" \notin hflags[f.ev]
  <2>1. hflags[f.ev] \in Flags[f.rcvr]  BY <1>3 DEF FrameOK, DispatchInv, ListsType
  <2>2. ~({"propagate", "async"} \subseteq hflags[f.ev])  BY <1>3, <2>1 DEF NotBoth
  <2> QED  BY <1>3, <2>2
<1> PICK h : h = NextMatch(f.rcvr, f.name, f.ev)  OBVIOUS
<1>4. h # Nil => h \in Handler  BY <1>3, MatchFacts DEF DispatchInv
<1> DEFINE prop == "propagate" \in hflags[f.ev]
<1>o. PICK own \in BOOLEAN : own = ~(f.kind = "forward" /\ prop)  OBVIOUS
<1>t. PICK t : t = [Frame("async", f.rcvr, f.name, Nil, FALSE) EXCEPT !.propagated = own]  OBVIOUS
<1>g. PICK g : g = [f EXCEPT !.propagated = @ \/ (f.kind # "forward" /\ prop)]  OBVIOUS
<1>k. PICK k : k = [g EXCEPT !.ev = h]  OBVIOUS
<1>5. /\ k \in FrameType /\ k.outer = f.outer /\ k.rcvr = f.rcvr /\ k.kind = f.kind
      /\ k.name = f.name /\ k.pc = "at" /\ k.ev = h /\ k.propagated = f.propagated
  <2>1. (f.propagated \/ (f.kind # "forward" /\ prop)) = f.propagated
    <3>1. f.propagated \in BOOLEAN  BY DEF FrameType
    <3> QED  BY <1>p, <3>1
  <2>2. g = [f EXCEPT !.propagated = f.propagated]  BY <1>g, <2>1
  <2>3. /\ g \in FrameType /\ g.outer = f.outer /\ g.rcvr = f.rcvr /\ g.kind = f.kind
        /\ g.name = f.name /\ g.pc = f.pc /\ g.propagated = f.propagated
    BY <2>2 DEF FrameType
  <2>4. h \in Handler \cup {Nil}  BY <1>4
  <2>5. /\ k \in FrameType /\ k.outer = g.outer /\ k.rcvr = g.rcvr /\ k.kind = g.kind
        /\ k.name = g.name /\ k.pc = g.pc /\ k.ev = h /\ k.propagated = g.propagated
    BY <1>k, <2>3, <2>4 DEF FrameType
  <2> QED  BY <1>3, <2>3, <2>5
<1>m. PICK M : M = IF Loops(f) THEN <<k>> \o Tail(S) ELSE Tail(S)  OBVIOUS
<1>6. M \in Seq(FrameType)
  <2>1. Tail(S) \in Seq(FrameType)  BY <1>1, BelowTopFacts
  <2>2. <<k>> \o Tail(S) \in Seq(FrameType)  BY <1>5, <2>1, OnTopFacts
  <2> QED  BY <1>m, <2>1, <2>2
<1>7. /\ stack' = [stack EXCEPT ![new] = <<t>>, ![th] = M] /\ Counted(f)
      /\ fwd' = (fwd \/ (f.outer /\ f.kind = "post" /\ prop))
  BY <1>o, <1>t, <1>g, <1>k, <1>m DEF Spawn
<1>8. stack'[th] = M /\ (th # Main => stack'[Main] = stack[Main])
  BY <1>1, <1>7, ThreadAssumption DEF DispatchInv, WalksInv
<1>9. CASE f.outer
  <2>1. th = Main /\ M = <<k>> \o Tail(S)  BY <1>2, <1>9, <1>m DEF Loops
  <2>2. /\ \A x \in Handler : got[x] > 0 => got'[x] > 0
        /\ \A x \in Handler : x = f.ev => got'[x] > 0
    BY <1>7, <1>9, CountedFacts DEF DeliveryInv
  <2>3. ASSUME NEW x \in Yet(f), hname[x] = f.name  PROVE got'[x] > 0 \/ x \in Yet(k)
    <3>1. x \in Handler  BY DEF Yet
    <3>2. CASE x = f.ev  BY <2>2, <3>1, <3>2
    <3>3. CASE x # f.ev  BY <1>5, <2>3, <3>3, YetNext DEF DispatchInv
    <3> QED  BY <3>2, <3>3
  <2>4. fwd' = fwd  BY <1>p, <1>7 DEF CompleteInv
  <2>5. S = stack[Main] /\ stack'[Main] = M  BY <1>8, <2>1
  <2>6. f.pc = "forward" => f.todo = << >>  BY <1>3
  <2> QED  BY <1>1, <1>5, <1>9, <2>1, <2>2, <2>3, <2>4, <2>5, <2>6, EventFollowed
<1>10. CASE ~f.outer
  <2>1. UNCHANGED <<events, hname, got, due, fwd>>
    BY <1>p, <1>1, <1>7, <1>10 DEF Counted, CompleteInv
  <2>2. M = <<k>> \o Tail(S) \/ M = Tail(S)  BY <1>m
  <2>3. ~k.outer /\ S # << >> /\ ~S[1].outer  BY <1>1, <1>5, <1>10
  <2>4. PlainMove(S, M, k, k)  BY <2>2, <2>3 DEF PlainMove
  <2> QED  BY <1>5, <1>6, <1>8, <2>1, <2>3, <2>4, PlainFollowed
<1> QED  BY <1>9, <1>10

\* There are none of the event in an empty stack.
LEMMA NoneOfEvent == OfEvent(<< >>) = {}
BY DEF OfEvent, Entries

\* The event is to go to all the descendants.
LEMMA PropagateFollowed ==
  ASSUME DispatchInv, DeliveryInv, CompleteInv, NEW th \in Thread, Propagate(th)
  PROVE  CompleteInv'
<1> PICK S \in Seq(FrameType) : S = stack[th]  BY DEF DispatchInv, WalksInv
<1>1. S # << >> /\ UNCHANGED <<events, hname, got, due>>
  BY DEF Propagate, AtHandler, InFrame
<1> PICK f \in FrameType : f = Top(th) /\ f = S[1] /\ FrameOK(f)  BY <1>1, OuterFacts
<1>2. f.rcvr \in Object /\ f.pc = "at" /\ Propagates(f) /\ (f.ev # Nil \/ f.kind = "async")
  BY DEF Propagate, AtHandler, InFrame, FrameType
<1>d. PICK todo \in Seq(Object) : todo = Descendants[f.rcvr]
  <2>1. Descendants[f.rcvr] \in Seq(Object \ {f.rcvr})  BY <1>2, DescendantsAssumption
  <2>2. Descendants[f.rcvr] \in Seq(Object)  BY <2>1, SeqOfMore
  <2> QED  BY <2>2
<1>g. PICK g : g = [f EXCEPT !.pc = "forward", !.propagated = TRUE, !.todo = todo]  OBVIOUS
<1>3. /\ g \in FrameType /\ g.outer = f.outer /\ g.rcvr = f.rcvr /\ g.kind = f.kind
      /\ g.name = f.name /\ g.propagated /\ g.pc = "forward" /\ g.ev = f.ev /\ g.todo = todo
  BY <1>g DEF FrameType
<1>m. PICK M : M = <<g>> \o Tail(S)  OBVIOUS
<1>4. M \in Seq(FrameType)
  <2>1. Tail(S) \in Seq(FrameType)  BY <1>1, BelowTopFacts
  <2>2. <<g>> \o Tail(S) \in Seq(FrameType)  BY <1>3, <2>1, OnTopFacts
  <2> QED  BY <1>m, <2>2
<1>5. stack'[th] = M /\ \A u \in Thread : u # th => stack'[u] = stack[u]
  <2>1. Become(th, g)  BY <1>d, <1>g DEF Propagate
  <2> QED  BY <1>m, <2>1 DEF Become, DispatchInv, WalksInv
<1>6. fwd' = (fwd \/ (f.outer /\ f.kind = "post"))  BY DEF Propagate
<1>7. CASE ~f.outer
  <2>1. fwd' = fwd  BY <1>6, <1>7 DEF CompleteInv
  <2>2. PlainMove(S, M, g, g)  BY <1>1, <1>m, <1>7 DEF PlainMove
  <2>3. ~g.outer  BY <1>3, <1>7
  <2> QED  BY <1>1, <1>3, <1>4, <1>5, <2>1, <2>2, <2>3, PlainFollowed, ThreadAssumption
<1>8. CASE f.outer
  <2>1. /\ th = Main
        /\ \/ Tail(S) = << >> /\ f.kind = "post"
           \/ Tail(S) # << >> /\ Tail(S)[1].outer /\ f.kind = "forward"
    BY <1>1, <1>8, OuterFacts
  <2>2. ASSUME f.kind = "forward"  PROVE CompleteInv'
    <3>1. fwd' = fwd  BY <1>6, <2>2 DEF CompleteInv
    <3>2. \A h \in Yet(f) : h \in Yet(g)  BY <1>2, <1>3 DEF Yet
    <3>3. stack'[Main] = M /\ S = stack[Main]  BY <1>5, <2>1
    <3> QED  BY <1>1, <1>3, <1>8, <1>m, <2>2, <3>1, <3>2, <3>3, EventFollowed
  <2> SUFFICES ASSUME f.kind = "post", Tail(S) = << >>  PROVE CompleteInv'  BY <2>1, <2>2
  <2>4. OfEvent(S) = {f} /\ OfEvent(M) = {g}
    <3> PICK s \in Seq(FrameType) : s = Tail(S)  BY <1>1, BelowTopFacts
    <3>1. OfEvent(s) = {}  BY NoneOfEvent
    <3>2. OfEvent(S) = {x \in {S[1]} : x.outer} \cup OfEvent(s)  BY <1>1, OfEventFacts
    <3>3. OfEvent(<<g>> \o s) = {x \in {g} : x.outer} \cup OfEvent(s)  BY <1>3, OfEventFacts
    <3> QED  BY <1>3, <1>8, <1>m, <3>1, <3>2, <3>3
  <2>5. Served(f, {f})  BY <2>1, <2>4 DEF CompleteInv, Followed
  <2>6. Yet(g)' = Yet(f)  BY <1>1, <1>2, <1>3 DEF Yet
  <2>7. Served(g, {g})'
    <3>1. /\ \A h \in due : /\ hname[h] = f.name
                            /\ \E r \in {f.rcvr} \cup Entries(Descendants[f.rcvr]) :
                                 h \in Entries(events[r])
          /\ \A h \in due : h \in Entries(events[f.rcvr]) => got[h] > 0 \/ h \in Yet(f)
      BY <2>5 DEF Served
    <3>2. \A r \in Entries(Descendants[f.rcvr]) : r \in Entries(g.todo)  BY <1>3, <1>d
    <3>3. \A r \in Entries(Descendants[f.rcvr]) : \A h : Delivered(g, {g}, r, h)'
      BY <1>3, <3>2 DEF Delivered
    <3> QED  BY <1>1, <1>3, <2>6, <3>1, <3>3 DEF Served
  <2>8. stack'[Main] = M  BY <1>5, <2>1
  <2>9. Followed(OfEvent(stack[Main]))'  BY <2>4, <2>7, <2>8 DEF Followed
  <2>10. fwd' \in BOOLEAN  BY <1>6
  <2> QED  BY <1>1, <2>9, <2>10 DEF CompleteInv
<1> QED  BY <1>7, <1>8

\* It goes to the next descendant.
LEMMA ForwardFollowed ==
  ASSUME DispatchInv, DeliveryInv, CompleteInv, NEW th \in Thread, Forward(th)
  PROVE  CompleteInv'
<1> PICK S \in Seq(FrameType) : S = stack[th]  BY DEF DispatchInv, WalksInv
<1>1. S # << >> /\ UNCHANGED <<events, hname, got, due, fwd>>
  BY DEF Forward, InFrame, ghosts
<1> PICK f \in FrameType : f = Top(th) /\ f = S[1] /\ FrameOK(f)  BY <1>1, OuterFacts
<1>2. f.rcvr \in Object /\ f.pc = "forward" /\ f.todo # << >>
  BY DEF Forward, InFrame, FrameType
<1>d. PICK todo \in Seq(Object) : todo = f.todo  BY DEF FrameType
<1>3. Head(todo) \in Object /\ Tail(todo) \in Seq(Object)
      /\ Entries(todo) = {Head(todo)} \cup Entries(Tail(todo))
  BY <1>2, <1>d, BelowTopFacts
<1>r. PICK r \in Object : r = Head(todo)  BY <1>3
<1>e. PICK rest \in Seq(Object) : rest = Tail(todo)  BY <1>3
<1>h. PICK h : h = FirstMatch(r, f.name)  OBVIOUS
<1>a. PICK a : a = Frame("forward", r, f.name, h, f.outer)  OBVIOUS
<1>b. PICK b : b = [f EXCEPT !.todo = rest]  OBVIOUS
<1>4. h # Nil => h \in Handler  BY <1>h, MatchFacts DEF DispatchInv
<1>5. /\ a \in FrameType /\ a.outer = f.outer /\ a.kind = "forward" /\ a.rcvr = r
      /\ a.name = f.name /\ a.pc = "at" /\ a.ev = h
  <2>1. << >> \in Seq(Object)  OBVIOUS
  <2> QED  BY <1>4, <1>a, <2>1 DEF Frame, FrameType
<1>6. /\ b \in FrameType /\ b.outer = f.outer /\ b.kind = f.kind /\ b.rcvr = f.rcvr
      /\ b.name = f.name /\ b.pc = "forward" /\ b.ev = f.ev /\ b.propagated = f.propagated
      /\ b.todo = rest
  BY <1>2, <1>b DEF FrameType
<1>m. PICK M : M = <<a, b>> \o Tail(S)  OBVIOUS
<1>t. PICK s \in Seq(FrameType) : s = Tail(S)  BY <1>1, BelowTopFacts
<1>7. M \in Seq(FrameType) /\ Entries(M) = {a, b} \cup Entries(s)
  <2>1. /\ <<a, b>> \o s \in Seq(FrameType)
        /\ Entries(<<a, b>> \o s) = {a, b} \cup Entries(s)
    BY <1>5, <1>6, TwoOnTopFacts
  <2> QED  BY <1>m, <1>t, <2>1
<1>8. stack'[th] = M /\ \A u \in Thread : u # th => stack'[u] = stack[u]
  <2>1. stack' = [stack EXCEPT ![th] = <<a, b>> \o Tail(@)]
    BY <1>d, <1>r, <1>e, <1>h, <1>a, <1>b DEF Forward
  <2> QED  BY <1>m, <2>1 DEF DispatchInv, WalksInv
<1>9. CASE ~f.outer
  <2>1. PlainMove(S, M, a, b)  BY <1>1, <1>m, <1>9 DEF PlainMove
  <2>2. ~a.outer /\ ~b.outer  BY <1>5, <1>6, <1>9
  <2> QED  BY <1>1, <1>5, <1>6, <1>7, <1>8, <2>1, <2>2, PlainFollowed, ThreadAssumption
<1>10. CASE f.outer
  <2>1. /\ th = Main
        /\ \/ Tail(S) = << >> /\ f.kind = "post"
           \/ Tail(S) # << >> /\ Tail(S)[1].outer /\ f.kind = "forward"
    BY <1>1, <1>10, OuterFacts
  <2>2. OfEvent(S) = {f} \cup OfEvent(s) /\ OfEvent(M) = {a, b} \cup OfEvent(s)
    <3>1. OfEvent(S) = {x \in {S[1]} : x.outer} \cup OfEvent(s)  BY <1>1, <1>t, OfEventFacts
    <3>2. OfEvent(M) = {a, b} \cup OfEvent(s)  BY <1>5, <1>6, <1>7, <1>10 DEF OfEvent
    <3> QED  BY <1>10, <3>1, <3>2
  <2>3. ASSUME f.kind = "forward"  PROVE CompleteInv'
    <3> PICK R : R = OfEvent(s)  OBVIOUS
    <3>1. Followed({f} \cup R) /\ due \subseteq Handler  BY <2>1, <2>2 DEF CompleteInv
    <3>2. \A x \in Yet(f) : x \in Yet(b)  BY <1>2, <1>6 DEF Yet
    <3>3. Followed({b} \cup R)'  BY <1>1, <1>6, <2>3, <3>1, <3>2, MoveFollowed
    <3>4. a.name = b.name /\ a.kind = "forward"  BY <1>5, <1>6
    <3>5. Followed({a} \cup ({b} \cup R))'
      <4> PICK Q : Q = {b} \cup R  OBVIOUS
      <4>1. b \in Q /\ Followed(Q)'  BY <3>3
      <4>2. Followed({a} \cup Q)'  BY <3>4, <4>1, AddFollowed
      <4> QED  BY <4>2
    <3>6. OfEvent(stack'[Main]) = {a} \cup ({b} \cup R)  BY <1>8, <2>1, <2>2
    <3>7. Followed(OfEvent(stack[Main]))'  BY <3>5, <3>6
    <3> QED  BY <1>1, <3>7 DEF CompleteInv
  <2> SUFFICES ASSUME f.kind = "post", Tail(S) = << >>  PROVE CompleteInv'  BY <2>1, <2>3
  <2>4. OfEvent(S) = {f} /\ OfEvent(M) = {a, b}  BY <1>t, <2>2, NoneOfEvent
  <2>5. Served(f, {f})  BY <2>1, <2>4 DEF CompleteInv, Followed
  <2>6. Yet(b)' = Yet(f) /\ Yet(a)' = Yet(a)  BY <1>1, <1>2, <1>6 DEF Yet
  <2>7. /\ \A x \in due : /\ hname[x] = f.name
                          /\ \E u \in {f.rcvr} \cup Entries(Descendants[f.rcvr]) :
                               x \in Entries(events[u])
        /\ \A x \in due : x \in Entries(events[f.rcvr]) => got[x] > 0 \/ x \in Yet(f)
        /\ fwd => f.propagated
    BY <2>5 DEF Served
  <2>8. ASSUME f.propagated, NEW u \in Entries(Descendants[f.rcvr]), NEW x \in due,
               x \in Entries(events[u])
        PROVE  Delivered(b, {a, b}, u, x)'
    <3>1. Delivered(f, {f}, u, x)  BY <2>5, <2>8 DEF Served
    <3>2. \/ got[x] > 0
          \/ u = r
          \/ u \in Entries(rest)
      BY <1>3, <1>d, <1>r, <1>e, <3>1 DEF Delivered
    <3>3. ASSUME u = r  PROVE x \in Yet(a)
      <4>1. a.ev = FirstMatch(a.rcvr, a.name) /\ a.pc # "call"  BY <1>h, <1>5
      <4>2. x \in Entries(events[a.rcvr]) /\ hname[x] = a.name  BY <1>5, <2>7, <2>8, <3>3
      <4> QED  BY <1>5, <4>1, <4>2, YetFirst DEF DispatchInv
    <3> QED  BY <1>1, <1>5, <1>6, <2>6, <3>2, <3>3 DEF Delivered
  <2>9. Served(b, {a, b})'
    <3>1. \A w \in {a, b} : w.name = b.name  BY <1>5, <1>6
    <3> QED  BY <1>1, <1>6, <2>6, <2>7, <2>8, <3>1 DEF Served
  <2>10. stack'[Main] = M  BY <1>8, <2>1
  <2>11. Followed({a, b})'  BY <1>5, <2>9 DEF Followed
  <2>12. Followed(OfEvent(stack[Main]))'  BY <2>4, <2>10, <2>11
  <2> QED  BY <1>1, <2>12 DEF CompleteInv
<1> QED  BY <1>9, <1>10

\* The call returns.
LEMMA ReturnFollowed ==
  ASSUME DispatchInv, DeliveryInv, CompleteInv, NEW th \in Thread, Return(th)
  PROVE  CompleteInv'
<1>s. PICK S \in Seq(FrameType) : S = stack[th]  BY DEF DispatchInv, WalksInv
<1>1. S # << >> /\ UNCHANGED <<events, hname>>  BY <1>s DEF Return, InFrame
<1>f. PICK f \in FrameType : f = Top(th) /\ f = S[1] /\ FrameOK(f)  BY <1>s, <1>1, OuterFacts
<1>2. Tail(S) \in Seq(FrameType) /\ Len(Tail(S)) = Len(S) - 1  BY <1>1, BelowTopFacts
<1>m. PICK M \in Seq(FrameType) : M = Tail(S)  BY <1>2
<1>3. stack'[th] = M /\ \A u \in Thread : u # th => stack'[u] = stack[u]
  BY <1>s, <1>m DEF Return, Pop, DispatchInv, WalksInv
<1>4. IF M = << >> /\ f.outer THEN due' = {} /\ fwd' = FALSE
                              ELSE UNCHANGED <<due, got, fwd>>
  BY <1>f, <1>3 DEF Return, ghosts
<1>5. CASE ~f.outer
  <2>1. UNCHANGED <<events, hname, got, due, fwd>>  BY <1>1, <1>4, <1>5
  <2>2. PlainMove(S, M, f, f)  BY <1>1, <1>f, <1>m, <1>5 DEF PlainMove
  <2> QED  BY <1>s, <1>3, <1>5, <2>1, <2>2, PlainFollowed, ThreadAssumption
<1>6. CASE f.outer
  <2>1. /\ th = Main
        /\ \/ M = << >> /\ f.kind = "post"
           \/ M # << >> /\ M[1].outer /\ f.kind = "forward"
    BY <1>s, <1>1, <1>f, <1>m, <1>6, OuterFacts
  <2>2. CASE M = << >>
    <3>1. M = << >>  BY <2>2
    <3>2. due' = {} /\ fwd' = FALSE  BY <1>4, <1>6, <3>1
    <3>3. OfEvent(stack'[Main]) = {}
      <4>1. Entries(<< >>) = {}  BY DEF Entries
      <4> QED  BY <1>3, <2>1, <3>1, <4>1 DEF OfEvent
    <3>4. Followed(OfEvent(stack[Main]))'  BY <3>2, <3>3 DEF Followed
    <3> QED  BY <3>2, <3>4 DEF CompleteInv
  <2>3. CASE M # << >>
    <3>1. M # << >>  BY <2>3
    <3>2. UNCHANGED <<events, hname, got, due, fwd>>  BY <1>1, <1>4, <3>1
    <3>3. f.ev = Nil
      <4>1. f.kind # "async"  BY <2>1
      <4> QED  BY <1>f, <4>1 DEF Return, AtHandler
    <3>4. Yet(f) = {}  BY <1>f, <3>3, YetFacts
    <3>5. OfEvent(S) = {f} \cup OfEvent(M)
      <4>1. OfEvent(S) = {x \in {S[1]} : x.outer} \cup OfEvent(Tail(S))  BY <1>1, OfEventFacts
      <4> QED  BY <1>f, <1>m, <1>6, <4>1
    <3>6. OfEvent(M) # {}
      <4>1. M[1].outer  BY <2>1, <2>3
      <4>2. M[1] \in Entries(M)  BY <2>3, BelowTopFacts
      <4> QED  BY <4>1, <4>2 DEF OfEvent
    <3>7. Followed({f} \cup OfEvent(M))  BY <1>s, <2>1, <3>5 DEF CompleteInv
    <3> PICK R : R = OfEvent(M)  OBVIOUS
    <3>8. Followed(R)'  BY <3>2, <3>4, <3>6, <3>7, DropFollowed
    <3>9. OfEvent(stack'[Main]) = R  BY <1>3, <2>1
    <3>10. Followed(OfEvent(stack[Main]))'  BY <3>8, <3>9
    <3> QED  BY <3>2, <3>10 DEF CompleteInv
  <2> QED  BY <2>1, <2>2, <2>3
<1> QED  BY <1>5, <1>6

\* The timer of AG_SchedEvent runs its handler.
LEMMA TimeoutFollowed ==
  ASSUME DispatchInv, CompleteInv, EventTimeout
  PROVE  CompleteInv'
<1>1. UNCHANGED <<events, hname, got, due, fwd>>  BY DEF EventTimeout, ghosts
<1>2. CASE UNCHANGED stack
  <2>1. OfEvent(stack'[Main]) = OfEvent(stack[Main])  BY <1>2
  <2> QED  BY <1>1, <2>1, SameFollowed
<1> PICK o \in Object : o = sched.rcvr  BY DEF EventTimeout, DispatchInv, WalksInv
<1> PICK n : n = sched.argv[2]  OBVIOUS
<1> PICK h : h = FirstMatch(o, n)  OBVIOUS
<1>3. CASE h = Nil  BY <1>2, <1>3 DEF EventTimeout
<1>4. CASE h # Nil
  <2>f. PICK f : f = Frame("timeout", o, n, h, FALSE)  OBVIOUS
  <2>1. h \in Handler /\ n \in Name  BY <1>4, MatchFacts DEF DispatchInv
  <2>2. << >> \in Seq(Object)  OBVIOUS
  <2>3. f \in FrameType /\ ~f.outer  BY <2>f, <2>1, <2>2 DEF Frame, FrameType
  <2>4. Push(Main, f)  BY <1>4, <2>f DEF EventTimeout
  <2>s. PICK S \in Seq(FrameType) : S = stack[Main]
    BY ThreadAssumption DEF DispatchInv, WalksInv
  <2>m. PICK M \in Seq(FrameType) : M = <<f>> \o S  BY <2>3, OnTopFacts
  <2>5. stack'[Main] = M
    BY <2>s, <2>m, <2>4, ThreadAssumption DEF Push, DispatchInv, WalksInv
  <2>6. PlainMove(S, M, f, f)  BY <2>m DEF PlainMove
  <2> QED  BY <1>1, <2>s, <2>3, <2>5, <2>6, PlainFollowed, ThreadAssumption
<1> QED  BY <1>3, <1>4

\* Every step keeps account of the event.
LEMMA FollowedStep ==
  ASSUME NotBoth, DispatchInv, DispatchInv', DeliveryInv, CompleteInv, [Next]_vars
  PROVE  CompleteInv'
<1>1. CASE UNCHANGED vars
  <2>1. UNCHANGED <<events, hname, got, due, fwd>> /\ OfEvent(stack'[Main]) = OfEvent(stack[Main])
    BY <1>1 DEF vars
  <2> QED  BY <2>1, SameFollowed
<1>2. CASE EventTimeout  BY <1>2, TimeoutFollowed
<1>3. ASSUME NEW th \in Thread, Application(th)  PROVE CompleteInv'
  BY <1>3, ApplicationFollowed
<1>4. ASSUME NEW th \in Thread, Dispatch(th)  PROVE CompleteInv'
  BY <1>4, SpawnFollowed, PropagateFollowed, ForwardFollowed, CallFollowed, ReturnFollowed
     DEF Dispatch
<1>5. ASSUME NEW th \in Thread, HandlerReturns(th)  PROVE CompleteInv'
  BY <1>5, CallFollowed
<1> QED  BY <1>1, <1>2, <1>3, <1>4, <1>5 DEF Next

\* When AG_PostEvent returns, its walk has no handler before it.
LEMMA ReturnsComplete ==
  ASSUME DispatchInv, DeliveryInv, CompleteInv, [Next]_vars, NEW o \in Object,
         stack[Main] # << >>, Top(Main).outer, stack'[Main] = << >>, Top(Main).rcvr = o,
         NEW h \in due, h \in Entries(events[o]) \/ fwd
  PROVE  got[h] > 0
<1>s. PICK S \in Seq(FrameType) : S = stack[Main] /\ S # << >>
  BY ThreadAssumption DEF DispatchInv, WalksInv
<1>f. PICK f \in FrameType : f = Top(Main) /\ f = S[1] /\ FrameOK(f)
  BY <1>s, OuterFacts, ThreadAssumption
<1>1. f.outer /\ f.rcvr = o  BY <1>f
<1>2. \/ Tail(S) = << >> /\ f.kind = "post"
      \/ Tail(S) # << >> /\ Tail(S)[1].outer /\ f.kind = "forward"
  BY <1>s, <1>f, <1>1, OuterFacts, ThreadAssumption
<1>3. f.kind \in {"post", "forward"} /\ Loops(f)  BY <1>2 DEF Loops
<1>t. PICK t \in Seq(FrameType) : t = Tail(S) /\ Len(t) = Len(S) - 1  BY <1>s, BelowTopFacts
<1>4. \A x, y : <<x>> \o S # << >> /\ <<x>> \o t # << >> /\ <<x, y>> \o t # << >>
  OBVIOUS
<1>5. ASSUME NEW th \in Thread, NEW x, Push(th, x) \/ Become(th, x)  PROVE FALSE
  <2>1. stack'[Main] = <<x>> \o S \/ stack'[Main] = <<x>> \o t \/ stack'[Main] = S
    BY <1>s, <1>t, <1>5, ThreadAssumption DEF Push, Become, DispatchInv, WalksInv
  <2> QED  BY <1>s, <1>4, <2>1
<1>6. stack' # stack  BY <1>s
<1>7. ASSUME NEW th \in Thread, Application(th)  PROVE FALSE
  <2>1. \A p \in Object, n \in Name : ~PostEvent(th, p, n)  BY <1>5 DEF PostEvent
  <2>2. \A p \in Object, x \in Handler : ~PostEventByPtr(th, p, x)
    BY <1>5 DEF PostEventByPtr
  <2>3. \A p \in Object, n \in Name : ~UnsetEvent(th, p, n)  BY <1>6 DEF UnsetEvent, Unset
  <2>4. \A p \in Object, n \in Name : \A flags \in Flags[p] :
          ~SetEvent(th, p, n, flags) /\ ~AddEvent(th, p, n, flags)
    BY <1>6 DEF SetEvent, AddEvent
  <2>5. \A p \in Object, n \in Name : \A args \in SchedArgs : ~SchedEvent(th, p, n, args)
    BY <1>6 DEF SchedEvent
  <2> QED  BY <1>7, <2>1, <2>2, <2>3, <2>4, <2>5 DEF Application
<1>8. ASSUME NEW th \in Thread, NEW new \in Thread, Spawn(th, new)  PROVE FALSE
  <2>1. \E k, M : \/ stack' = [stack EXCEPT ![new] = k, ![th] = M] /\ th # Main
                  \/ \E x : stack' = [stack EXCEPT ![new] = k, ![th] = <<x>> \o t] /\ th = Main
    BY <1>s, <1>f, <1>t, <1>3, <1>8 DEF Spawn
  <2>2. new # Main  BY <1>8 DEF Spawn
  <2>3. stack'[Main] = S \/ \E x : stack'[Main] = <<x>> \o t
    BY <1>s, <2>1, <2>2, ThreadAssumption DEF DispatchInv, WalksInv
  <2> QED  BY <1>s, <1>4, <2>3
<1>9. ASSUME NEW th \in Thread, Forward(th)  PROVE FALSE
  <2>1. \E x, y : stack' = [stack EXCEPT ![th] = <<x, y>> \o Tail(@)]
    BY <1>9 DEF Forward
  <2>2. stack'[Main] = S \/ \E x, y : stack'[Main] = <<x, y>> \o t
    BY <1>s, <1>t, <2>1, ThreadAssumption DEF DispatchInv, WalksInv
  <2> QED  BY <1>s, <1>4, <2>2
<1>10. ASSUME NEW th \in Thread, HandlerReturns(th)  PROVE FALSE
  <2>1. CASE th = Main
    <3>1. \E x : Become(Main, x)  BY <1>f, <1>3, <1>10, <2>1 DEF HandlerReturns, Advance
    <3> QED  BY <1>5, <3>1, ThreadAssumption
  <2>2. CASE th # Main
    <3>1. \E M : stack' = [stack EXCEPT ![th] = M]
      BY <1>10 DEF HandlerReturns, Advance, Become, Pop
    <3> QED  BY <1>s, <2>2, <3>1, ThreadAssumption DEF DispatchInv, WalksInv
  <2> QED  BY <2>1, <2>2
<1>11. ASSUME NEW th \in Thread, Return(th), th # Main  PROVE FALSE
  BY <1>s, <1>11, ThreadAssumption DEF Return, Pop, DispatchInv, WalksInv
<1>12. Return(Main)
  <2>1. \A th \in Thread : ~Propagate(th) /\ ~Call(th)  BY <1>5 DEF Propagate, Call
  <2>2. ~EventTimeout /\ ~UNCHANGED vars  BY <1>s, <1>6 DEF EventTimeout, vars
  <2> QED  BY <1>7, <1>8, <1>9, <1>10, <1>11, <2>1, <2>2 DEF Next, Dispatch
<1>13. t = << >> /\ f.kind = "post"
  <2>1. t = << >>
    BY <1>s, <1>t, <1>12, ThreadAssumption DEF Return, Pop, DispatchInv, WalksInv
  <2> QED  BY <1>2, <1>t, <2>1
<1>14. f.pc = "at" /\ f.ev = Nil
  BY <1>f, <1>3, <1>12 DEF Return, InFrame, AtHandler
<1>15. OfEvent(S) = {f}
  <2>1. OfEvent(S) = {x \in {S[1]} : x.outer} \cup OfEvent(Tail(S))  BY <1>s, OfEventFacts
  <2>2. OfEvent(Tail(S)) = {}  BY <1>13, <1>t, NoneOfEvent
  <2> QED  BY <1>f, <1>1, <2>1, <2>2
<1>16. Served(f, {f}) /\ h \in Handler  BY <1>s, <1>13, <1>15 DEF CompleteInv, Followed
<1>17. Yet(f) = {}  BY <1>f, <1>14, YetFacts
<1>18. CASE h \in Entries(events[o])  BY <1>1, <1>16, <1>17, <1>18 DEF Served
<1>19. CASE h \notin Entries(events[o])
  <2>1. fwd /\ f.propagated  BY <1>16, <1>19 DEF Served
  <2>2. PICK r \in Entries(Descendants[o]) : h \in Entries(events[r])
    BY <1>1, <1>16, <1>19 DEF Served
  <2>3. Delivered(f, {f}, r, h)  BY <1>1, <1>16, <2>1, <2>2 DEF Served
  <2> QED  BY <1>14, <1>17, <2>3 DEF Delivered
<1> QED  BY <1>18, <1>19

\* When AG_PostEvent returns to the code of the loop's thread, all the handlers the event
\* was due to have been called for it: each that the receiver had and, if one of them had
\* AG_EVENT_PROPAGATE, each that its descendants had, but those deleted meanwhile. A walk
\* passes none of the name whatever is inserted, removed and posted from the handlers and
\* from other threads, and the forwarding leaves out no descendant.
THEOREM DeliveredCompletely ==
  ASSUME NotBoth
  PROVE  Spec => DeliveredToAll
<1> DEFINE Complete(o) == (stack[Main] # << >> /\ Top(Main).outer /\ stack'[Main] = << >>
                             /\ Top(Main).rcvr = o) =>
                            \A h \in due : (h \in Entries(events[o]) \/ fwd) => got[h] > 0
<1>1. Init => DispatchInv /\ DeliveryInv  BY DeliveryInitially
<1>2. Init => CompleteInv
  <2> SUFFICES ASSUME Init PROVE CompleteInv  OBVIOUS
  <2>1. OfEvent(stack[Main]) = {}
    <3>1. stack[Main] = << >>  BY ThreadAssumption DEF Init
    <3> QED  BY <3>1 DEF OfEvent, Entries
  <2>2. due = {} /\ fwd = FALSE  BY DEF Init
  <2> QED  BY <2>1, <2>2 DEF CompleteInv, Followed
<1>3. DispatchInv /\ DeliveryInv /\ CompleteInv /\ [Next]_vars
        => DispatchInv' /\ DeliveryInv' /\ CompleteInv'
  BY DeliveryStep, FollowedStep
<1>4. DispatchInv /\ DeliveryInv /\ CompleteInv /\ [Next]_vars
        => [\A o \in Object : Complete(o)]_vars
  BY ReturnsComplete
<1> QED  BY <1>1, <1>2, <1>3, <1>4, PTL DEF Spec, DeliveredToAll

-----------------------------------------------------------------------------
(* Lists *)

\* The first entry of a list comes before the others, and what comes after an entry
\* is the next one, or comes after that.
LEMMA WalkOrder ==
  ASSUME NEW S, NEW list \in Seq(S), NEW nil
  PROVE  /\ \A b \in Entries(list) :
              b = TailqFirst(list, nil) \/ Before(list, TailqFirst(list, nil), b)
         /\ \A a \in Entries(list) : NoRepeats(list) =>
              \A b : Before(list, a, b) =>
                b = TailqNext(list, a, nil) \/ Before(list, TailqNext(list, a, nil), b)
<1> PICK n \in Nat : n = Len(list) /\ DOMAIN list = 1 .. n  BY LenProperties
<1>1. ASSUME NEW b \in Entries(list)
      PROVE  b = TailqFirst(list, nil) \/ Before(list, TailqFirst(list, nil), b)
  <2>1. PICK j \in 1 .. n : list[j] = b  BY DEF Entries
  <2>2. list # << >>
    <3>1. n # 0  BY <2>1
    <3> QED  BY <3>1, EmptySeq
  <2>3. TailqFirst(list, nil) = list[1]  BY <2>2 DEF TailqFirst
  <2>4. CASE j = 1  BY <2>1, <2>3, <2>4
  <2>5. CASE j # 1
    <3>1. 1 \in DOMAIN list /\ j \in DOMAIN list /\ 1 < j  BY <2>1, <2>5
    <3>2. Before(list, list[1], b)  BY <2>1, <3>1 DEF Before
    <3> QED  BY <2>3, <3>2
  <2> QED  BY <2>4, <2>5
<1>2. ASSUME NEW a \in Entries(list), NoRepeats(list), NEW b, Before(list, a, b)
      PROVE  b = TailqNext(list, a, nil) \/ Before(list, TailqNext(list, a, nil), b)
  <2>1. PICK i, j \in 1 .. n : i < j /\ list[i] = a /\ list[j] = b  BY <1>2 DEF Before
  <2>2. Pos(list, a) \in 1 .. n /\ list[Pos(list, a)] = a  BY PosProperties
  <2>3. Pos(list, a) = i  BY <1>2, <2>1, <2>2 DEF NoRepeats
  <2>4. i # n /\ i + 1 \in 1 .. n  BY <2>1
  <2>5. TailqNext(list, a, nil) = list[i + 1]  BY <2>3, <2>4 DEF TailqNext
  <2>6. CASE j = i + 1  BY <2>1, <2>5, <2>6
  <2>7. CASE j # i + 1
    <3>1. i + 1 < j  BY <2>1, <2>7
    <3>2. Before(list, list[i + 1], b)  BY <2>1, <2>4, <3>1 DEF Before
    <3> QED  BY <2>5, <3>2
  <2> QED  BY <2>6, <2>7
<1> QED  BY <1>1, <1>2

-----------------------------------------------------------------------------
(* The loop: EventLoop *)

\* What is removed from a list is gone; the others stay, in their order.
LEMMA WithoutFacts ==
  ASSUME NEW T, NEW list \in Seq(T), NoRepeats(list), NEW S
  PROVE  /\ Without(list, S) \in Seq(T) /\ NoRepeats(Without(list, S))
         /\ Entries(Without(list, S)) = Entries(list) \ S
         /\ \A a, b : Before(list, a, b) /\ a \notin S /\ b \notin S =>
              Before(Without(list, S), a, b)
<1> PICK n \in Nat : n = Len(list) /\ DOMAIN list = 1 .. n  BY LenProperties
<1> DEFINE Grown(i, k) == IF list[i] \in S THEN k ELSE Append(k, list[i])
           Rec(F) == F = [i \in 0 .. n |-> IF i = 0 THEN << >>
                                           ELSE IF list[i] \in S THEN F[i - 1]
                                           ELSE Append(F[i - 1], list[i])]
           kept == CHOOSE F : Rec(F)
<1>1. \A i \in 1 .. n : list[i] \in T  BY ElementOfSeq
<1>2. \E F : Rec(F)
  <2> PICK K : K = Seq(T)  OBVIOUS
  <2> DEFINE step == [x \in (1 .. n) \X K |-> Grown(x[1], x[2])]
  <2>1. step \in Steps(n, K)
    <3>1. ASSUME NEW i \in 1 .. n, NEW k \in K  PROVE Grown(i, k) \in K
      <4>1. Append(k, list[i]) \in K  BY <1>1, AppendProperties
      <4> QED  BY <4>1
    <3> HIDE DEF Step
    <3> QED  BY <3>1 DEF Steps
  <2>2. PICK F : ByStep(F, n, K, << >>, step)
    <3> HIDE DEF step
    <3>1. << >> \in K  BY EmptySeq
    <3> QED  BY <2>1, <3>1, StepByStep
  <2>3. F \in [0 .. n -> K] /\ F[0] = << >>  BY <2>2 DEF ByStep
  <2>4. ASSUME NEW i \in 1 .. n  PROVE F[i] = Grown(i, F[i - 1])
    <3>1. i - 1 \in 0 .. n  OBVIOUS
    <3>2. F[i - 1] \in K  BY <2>3, <3>1
    <3>3. F[i] = step[<<i, F[i - 1]>>]  BY <2>2 DEF ByStep
    <3> HIDE DEF Step
    <3> QED  BY <3>2, <3>3
  <2>5. \A i \in 0 .. n : i # 0 => i \in 1 .. n  OBVIOUS
  <2>6. Rec(F)
    <3>1. F = [i \in 0 .. n |-> F[i]]  BY <2>3
    <3>2. \A i \in 0 .. n : F[i] = IF i = 0 THEN << >> ELSE Grown(i, F[i - 1])
      <4> HIDE DEF Step
      <4> QED  BY <2>3, <2>4, <2>5
    <3> QED  BY <3>1, <3>2
  <2> QED  BY <2>6
<1>3. Rec(kept)  BY <1>2
<1>4. Without(list, S) = kept[n]  BY DEF Without
<1> HIDE DEF kept
<1>5. \A i \in 0 .. n : kept[i] = IF i = 0 THEN << >> ELSE Grown(i, kept[i - 1])
  BY <1>3, Zenon
<1> HIDE DEF Rec
<1> DEFINE Upto(m) == {list[i] : i \in 1 .. m}
           Good(m, k) == /\ k \in Seq(T) /\ NoRepeats(k) /\ Entries(k) = Upto(m) \ S
                         /\ \A i, j \in 1 .. m : i < j /\ list[i] \notin S /\ list[j] \notin S
                              => Before(k, list[i], list[j])
           Right == {m \in 0 .. n : Good(m, kept[m])}
<1>6. 0 \in Right
  <2>1. 0 \in 0 .. n /\ kept[0] = << >>  BY <1>5
  <2>2. Good(0, << >>)
    <3>1. << >> \in Seq(T) /\ DOMAIN << >> = {} /\ 1 .. 0 = {}  BY EmptySeq, LenProperties
    <3> QED  BY <3>1 DEF NoRepeats, Entries
  <2> HIDE DEF Good
  <2> QED  BY <2>1, <2>2
<1>7. ASSUME NEW m \in 0 .. n, m # n, m \in Right  PROVE m + 1 \in Right
  <2>1. m + 1 \in 1 .. n /\ m + 1 \in 0 .. n /\ m + 1 - 1 = m  BY <1>7
  <2> PICK p \in 1 .. n : p = m + 1  BY <2>1
  <2> PICK e \in T : e = list[p]  BY <1>1
  <2> PICK k : k = kept[m]  OBVIOUS
  <2>2. Good(m, k)
    <3> HIDE DEF Good
    <3> QED  BY <1>7
  <2>3. kept[p] = Grown(p, k)
    <3> HIDE DEF Step
    <3>1. p \in 0 .. n /\ p # 0 /\ p - 1 = m  BY <2>1
    <3>2. kept[p] = Grown(p, kept[p - 1])  BY <1>5, <3>1
    <3> QED  BY <3>1, <3>2
  <2>4. Upto(p) = Upto(m) \cup {e}
    <3>1. 1 .. p = (1 .. m) \cup {p}  BY <2>1
    <3> QED  BY <3>1
  <2>5. k \in Seq(T) /\ NoRepeats(k) /\ Entries(k) = Upto(m) \ S
    BY <2>2
  <2>6. \A i, j \in 1 .. m : i < j /\ list[i] \notin S /\ list[j] \notin S
          => Before(k, list[i], list[j])
    BY <2>2
  <2>7. \A i, j \in 1 .. p : i < j => i \in 1 .. m /\ (j = p \/ j \in 1 .. m)
    BY <2>1
  <2>8. CASE e \in S
    <3>1. kept[p] = k  BY <2>3, <2>8
    <3>2. Upto(p) \ S = Upto(m) \ S  BY <2>4, <2>8
    <3>3. \A i, j \in 1 .. p : i < j /\ list[i] \notin S /\ list[j] \notin S
            => Before(k, list[i], list[j])
      BY <2>6, <2>7, <2>8
    <3> HIDE DEF Upto
    <3>4. Good(p, k)  BY <2>5, <3>2, <3>3
    <3> HIDE DEF Good
    <3> QED  BY <2>1, <3>1, <3>4
  <2>9. CASE e \notin S
    <3> PICK r : r = TailqInsertTail(k, e)  OBVIOUS
    <3>1. kept[p] = r  BY <2>3, <2>9 DEF TailqInsertTail
    <3>2. e \notin Entries(k)
      <4>1. \A i \in 1 .. m : list[i] # e
        <5>1. \A i \in 1 .. m : i \in DOMAIN list /\ i # p  BY <2>1
        <5> QED  BY <5>1 DEF NoRepeats
      <4> QED  BY <4>1, <2>5
    <3>3. r \in Seq(T) /\ NoRepeats(r) /\ Entries(r) = Entries(k) \cup {e}
      BY <2>5, <3>2, InsertTailProperties
    <3>4. Entries(r) = Upto(p) \ S  BY <2>4, <2>5, <2>9, <3>3
    <3>5. ASSUME NEW i \in 1 .. p, NEW j \in 1 .. p, i < j, list[i] \notin S, list[j] \notin S
          PROVE  Before(r, list[i], list[j])
      <4>1. CASE j = p
        <5>1. i \in 1 .. m  BY <2>7, <3>5
        <5>2. list[i] \in Upto(m) \ S  BY <3>5, <5>1
        <5>3. list[i] \in Entries(k)  BY <2>5, <5>2
        <5> QED  BY <2>5, <4>1, <5>3, TailIsLast
      <4>2. CASE j # p
        <5>1. i \in 1 .. m /\ j \in 1 .. m  BY <2>7, <3>5, <4>2
        <5>2. Before(k, list[i], list[j])  BY <2>6, <3>5, <5>1
        <5> QED  BY <2>5, <5>2, BeforeInsertTail
      <4> QED  BY <4>1, <4>2
    <3> HIDE DEF Upto
    <3>6. Good(p, r)  BY <3>3, <3>4, <3>5
    <3> HIDE DEF Good
    <3> QED  BY <2>1, <3>1, <3>6
  <2> QED  BY <2>8, <2>9
<1>8. n \in Right
  <2> HIDE DEF Right
  <2>1. n \in 0 .. n  OBVIOUS
  <2>2. \A m \in 0 .. n : m # n /\ m \in Right => m + 1 \in Right  BY <1>7
  <2> QED  BY <1>6, <2>1, <2>2, UpTo
<1> PICK k : k = kept[n]  OBVIOUS
<1>9. /\ k \in Seq(T) /\ NoRepeats(k) /\ Entries(k) = Upto(n) \ S
      /\ \A i, j \in 1 .. n : i < j /\ list[i] \notin S /\ list[j] \notin S
           => Before(k, list[i], list[j])
  <2>1. Good(n, k)
    <3> HIDE DEF Good
    <3> QED  BY <1>8
  <2> QED  BY <2>1
<1>10. Upto(n) = Entries(list)  BY DEF Entries
<1> HIDE DEF Upto
<1>11. \A a, b : Before(list, a, b) /\ a \notin S /\ b \notin S => Before(k, a, b)
  BY <1>9 DEF Before
<1>12. Without(list, S) = k  BY <1>4
<1> QED  BY <1>9, <1>10, <1>11, <1>12

\* The loop of the main thread is the only one (the sinks that the others walk are
\* those of the main thread, which edits them under no lock).
OneLoop == Thread = {Main}

LoopType ==
  /\ q \in [Thread -> [Lists -> Seq(Sink)]]
  /\ \A l \in Lists : NoRepeats(q[Main][l]) /\ \A s \in Entries(q[Main][l]) : ListOf[s] = l
  /\ pc \in [Thread -> Lists \cup {"idle", "select", "timers"}]
  /\ es \in [Thread -> Sink \cup {Nil}]
  /\ calling \in [Thread -> Sink \cup {Nil}]
  /\ rdFds \in [Thread -> [asked : SUBSET Sink, set : SUBSET Event, wait : BOOLEAN]]
  /\ owed \in [Thread -> SUBSET Sink]

\* A walk is at an entry of its list, and it is its function that runs.
WalkInv ==
  /\ pc[Main] \in Lists /\ es[Main] # Nil => es[Main] \in Entries(q[Main][pc[Main]])
  /\ calling[Main] # Nil => pc[Main] \in Lists /\ calling[Main] = es[Main]
  /\ pc[Main] = "select" => rdFds[Main].asked = Entries(q[Main]["sinks"])

\* The sinks that select reported and that were not called yet are linked, and the walk
\* has them before it.
OwedInv ==
  /\ pc[Main] \in {"timers", "sinks"} =>
       \A s \in owed[Main] : s \in Entries(q[Main]["sinks"]) /\ EventOf[s] \in rdFds[Main].set
  /\ pc[Main] = "sinks" =>
       \A s \in owed[Main] :
         /\ es[Main] # Nil
         /\ \/ s = es[Main] /\ calling[Main] = Nil
            \/ Before(q[Main]["sinks"], es[Main], s)
  /\ pc[Main] \notin {"timers", "sinks"} => owed[Main] = {}

LoopInv == LoopType /\ WalkInv /\ OwedInv

\* The application edits the lists, but not where the walk is, nor the order of what it
\* has before it.
LEMMA ListsEdited ==
  ASSUME OneLoop, LoopInv, MayCall(Main), LoopType', UNCHANGED <<pc, es, calling, rdFds>>,
         es[Main] \in Entries(q[Main][pc[Main]]) /\ calling[Main] # Nil
           => es[Main] \in Entries(q'[Main][pc[Main]]),
         \A s \in owed'[Main] : s \in owed[Main] /\
           (s \in Entries(q[Main]["sinks"]) => s \in Entries(q'[Main]["sinks"])),
         calling[Main] # Nil /\ pc[Main] = "sinks" =>
           \A s \in owed'[Main] : Before(q[Main]["sinks"], es[Main], s)
                                    => Before(q'[Main]["sinks"], es[Main], s)
  PROVE  LoopInv'
<1> USE DEF LoopInv
<1>1. pc[Main] = "idle" \/ calling[Main] # Nil \/ pc[Main] = "timers"  BY DEF MayCall
<1>2. pc[Main] # "select"  BY <1>1 DEF WalkInv, Lists
<1>3. WalkInv'
  <2>1. pc[Main] \in Lists => calling[Main] # Nil  BY <1>1 DEF Lists
  <2> QED  BY <1>2, <2>1 DEF WalkInv
<1>4. OwedInv'
  <2>1. pc[Main] = "sinks" => calling[Main] # Nil  BY <1>1
  <2> QED  BY <2>1 DEF OwedInv
<1> QED  BY <1>3, <1>4

\* A sink is added at the tail of its list.
LEMMA AddStep ==
  ASSUME OneLoop, LoopInv, NEW s \in Sink, AddEventSink(Main, s)
  PROVE  LoopInv'
<1> PICK l \in Lists : l = ListOf[s]  BY SinkAssumption, BlockingAssumption
<1> PICK list \in Seq(Sink) : list = q[Main][l]  BY ThreadAssumption DEF LoopInv, LoopType
<1> PICK new : new = TailqInsertTail(list, s)  OBVIOUS
<1>1. /\ MayCall(Main) /\ s \notin Entries(list)
      /\ q' = [q EXCEPT ![Main][l] = new]
      /\ UNCHANGED <<pc, es, calling, rdFds, owed>>
  BY ThreadAssumption DEF AddEventSink, MayAdd, Linked, walkvars
<1>2. NoRepeats(list) /\ \A x \in Entries(list) : ListOf[x] = l  BY DEF LoopInv, LoopType
<1>3. new \in Seq(Sink) /\ NoRepeats(new) /\ Entries(new) = Entries(list) \cup {s}
  BY <1>1, <1>2, InsertTailProperties
<1>4. \A a, b : Before(list, a, b) => Before(new, a, b)  BY BeforeInsertTail
<1>5. \A k \in Lists : q'[Main][k] = IF k = l THEN new ELSE q[Main][k]
  BY <1>1, ThreadAssumption DEF LoopInv, LoopType
<1>6. q' \in [Thread -> [Lists -> Seq(Sink)]]
  BY <1>1, <1>3, ThreadAssumption DEF LoopInv, LoopType
<1>7. LoopType'
  <2>1. \A k \in Lists : NoRepeats(q'[Main][k]) /\ \A x \in Entries(q'[Main][k]) : ListOf[x] = k
    BY <1>2, <1>3, <1>5 DEF LoopInv, LoopType
  <2> QED  BY <1>1, <1>6, <2>1 DEF LoopInv, LoopType
<1>8. \A k \in Lists : Entries(q[Main][k]) \subseteq Entries(q'[Main][k])
  BY <1>3, <1>5
<1>9. \A a, b : Before(q[Main]["sinks"], a, b) => Before(q'[Main]["sinks"], a, b)
  BY <1>4, <1>5 DEF Lists
<1>10. calling[Main] # Nil => pc[Main] \in Lists  BY DEF LoopInv, WalkInv
<1>11. "sinks" \in Lists  BY DEF Lists
<1> QED  BY <1>1, <1>7, <1>8, <1>9, <1>10, <1>11, ListsEdited

\* Sinks other than the one whose function runs are removed.
LEMMA DeletedStep ==
  ASSUME OneLoop, LoopInv, NEW S, MayCall(Main), calling[Main] \notin S, Deleted(Main, S),
         UNCHANGED <<pc, es, calling, rdFds>>
  PROVE  LoopInv'
<1>1. /\ \A l \in Lists : q'[Main][l] = Without(q[Main][l], S)
      /\ q' \in [Thread -> [Lists -> Seq(Sink)]]
      /\ owed'[Main] = owed[Main] \ S /\ owed' \in [Thread -> SUBSET Sink]
  <2>1. \A l \in Lists : q[Main][l] \in Seq(Sink) /\ NoRepeats(q[Main][l])
    BY ThreadAssumption DEF LoopInv, LoopType
  <2>2. \A l \in Lists : Without(q[Main][l], S) \in Seq(Sink)  BY <2>1, WithoutFacts
  <2>3. q'[Main] = [l \in Lists |-> Without(q[Main][l], S)] /\ q' = [q EXCEPT ![Main] = q'[Main]]
    BY ThreadAssumption DEF Deleted, LoopInv, LoopType
  <2>4. q'[Main] \in [Lists -> Seq(Sink)]  BY <2>2, <2>3
  <2>5. owed' = [u \in Thread |-> owed[u] \ S]  BY DEF Deleted
  <2>6. owed'[Main] = owed[Main] \ S /\ owed' \in [Thread -> SUBSET Sink]
    BY <2>5, ThreadAssumption DEF LoopInv, LoopType
  <2> QED  BY <2>3, <2>4, <2>6, ThreadAssumption DEF LoopInv, LoopType
<1>2. ASSUME NEW l \in Lists
      PROVE  /\ NoRepeats(q'[Main][l]) /\ Entries(q'[Main][l]) = Entries(q[Main][l]) \ S
             /\ \A a, b : Before(q[Main][l], a, b) /\ a \notin S /\ b \notin S
                            => Before(q'[Main][l], a, b)
  <2>1. q[Main][l] \in Seq(Sink) /\ NoRepeats(q[Main][l])
    BY ThreadAssumption DEF LoopInv, LoopType
  <2> QED  BY <1>1, <2>1, WithoutFacts
<1>3. LoopType'  BY <1>1, <1>2 DEF LoopInv, LoopType
<1>4. calling[Main] # Nil => pc[Main] \in Lists /\ es[Main] \notin S
  BY DEF LoopInv, WalkInv
<1>5. "sinks" \in Lists  BY DEF Lists
<1> QED  BY <1>1, <1>2, <1>3, <1>4, <1>5, ListsEdited

\* A walk begins.
LEMMA ReachesStep ==
  ASSUME OneLoop, LoopInv, NEW l \in Lists, Reaches(Main, l), calling[Main] = Nil,
         UNCHANGED <<q, calling, owed>>, LoopType',
         owed[Main] # {} => l = "sinks" /\ pc[Main] = "timers",
         l = "sinks" => pc[Main] = "timers" /\ rdFds' = rdFds
  PROVE  LoopInv'
<1> PICK list \in Seq(Sink) : list = q[Main][l]  BY ThreadAssumption DEF LoopInv, LoopType
<1>1. pc'[Main] = l /\ es'[Main] = TailqFirst(list, Nil)
  BY ThreadAssumption DEF Reaches, Walked, LoopInv, LoopType
<1>2. es'[Main] # Nil => es'[Main] \in Entries(list)  BY <1>1, FirstNextQueued
<1>3. \A b \in Entries(list) : b = es'[Main] \/ Before(list, es'[Main], b)
  BY <1>1, WalkOrder
<1>4. \A b \in Entries(list) : es'[Main] # Nil
  <2>1. \A b \in Entries(list) : es'[Main] \in Sink  BY <1>1, EntriesType, TailqFirstNext
  <2> QED  BY <2>1, SinkAssumption, BlockingAssumption
<1>5. WalkInv'  BY <1>1, <1>2 DEF WalkInv, Lists
<1>6. OwedInv'
  <2>1. CASE l = "sinks"
    <3>1. pc[Main] = "timers" /\ rdFds' = rdFds /\ owed' = owed /\ list = q[Main]["sinks"]
      BY <2>1
    <3>2. \A s \in owed[Main] : s \in Entries(list) /\ EventOf[s] \in rdFds[Main].set
      BY <3>1 DEF LoopInv, OwedInv
    <3> QED  BY <1>1, <1>3, <1>4, <2>1, <3>1, <3>2 DEF OwedInv
  <2>2. CASE l # "sinks"
    <3>1. owed'[Main] = {} /\ pc'[Main] \notin {"timers", "sinks"}  BY <1>1, <2>2 DEF Lists
    <3> QED  BY <3>1 DEF OwedInv
  <2> QED  BY <2>1, <2>2
<1> QED  BY <1>5, <1>6 DEF LoopInv

\* A walk goes on, when what select reported and has not been called is ahead.
LEMMA MovesOnStep ==
  ASSUME OneLoop, LoopInv, OnEntry(Main), MovesOn(Main),
         pc[Main] = "sinks" => calling[Main] # Nil \/ es[Main] \notin owed[Main]
  PROVE  LoopInv'
<1> PICK l \in Lists : l = pc[Main]  BY DEF OnEntry
<1> PICK list \in Seq(Sink) : list = q[Main][l]  BY ThreadAssumption DEF LoopInv, LoopType
<1> PICK e : e = es[Main]  OBVIOUS
<1>1. /\ e \in Entries(list) /\ es'[Main] = TailqNext(list, e, Nil)
      /\ calling'[Main] = Nil /\ UNCHANGED <<q, pc, rdFds, owed>>
  BY ThreadAssumption DEF OnEntry, MovesOn, Walked, srcvars, LoopInv, LoopType
<1>2. NoRepeats(list)  BY DEF LoopInv, LoopType
<1>3. es'[Main] # Nil => es'[Main] \in Entries(list)  BY <1>1, FirstNextQueued
<1>4. \A b : Before(list, e, b) => b = es'[Main] \/ Before(list, es'[Main], b)
  BY <1>1, <1>2, WalkOrder
<1>5. es'[Main] \in Sink \cup {Nil}
  <2>1. TailqNext(list, e, Nil) \in Sink \cup {Nil}  BY <1>1, TailqFirstNext
  <2> QED  BY <1>1, <2>1
<1>6. LoopType'  BY <1>1, <1>5, ThreadAssumption DEF MovesOn, LoopInv, LoopType
<1>7. WalkInv'  BY <1>1, <1>3 DEF LoopInv, WalkInv, Lists
<1>8. OwedInv'
  <2>1. ASSUME l = "sinks", NEW s \in owed[Main]
        PROVE  /\ es'[Main] # Nil
               /\ s = es'[Main] \/ Before(list, es'[Main], s)
    <3>1. Before(list, e, s)  BY <2>1, <1>1 DEF LoopInv, OwedInv
    <3>2. s = es'[Main] \/ Before(list, es'[Main], s)  BY <1>4, <3>1
    <3>3. es'[Main] = Nil => es'[Main] \notin Entries(list) /\ s # Nil
      <4>1. Entries(list) \subseteq Sink /\ s \in Sink
        BY EntriesType, ThreadAssumption DEF LoopInv, LoopType
      <4> QED  BY <4>1, SinkAssumption, BlockingAssumption
    <3>4. Before(list, es'[Main], s) => es'[Main] \in Entries(list)  BY <1>2, BeforeIsOrder
    <3> QED  BY <3>2, <3>3, <3>4
  <2> QED  BY <1>1, <2>1 DEF LoopInv, OwedInv
<1> QED  BY <1>6, <1>7, <1>8 DEF LoopInv

\* The loop keeps its place, whatever functions and timer callbacks do, unless one
\* deletes the sink it is called through.
LEMMA LoopStep ==
  ASSUME OneLoop, "self" \notin Liberties, LoopInv, [LoopNext]_loopvars
  PROVE  LoopInv'
<1> DEFINE fixed == <<q, pc, es, calling, rdFds, owed>>
<1>0. /\ \A th \in Thread : th = Main
      /\ LoopType /\ WalkInv /\ OwedInv
  BY DEF OneLoop, LoopInv
<1>1. ASSUME UNCHANGED fixed  PROVE LoopInv'
  BY <1>1 DEF LoopInv, LoopType, WalkInv, OwedInv
<1>2. ASSUME CallFunction(Main)  PROVE LoopInv'
  <2> PICK e : e = es[Main]  OBVIOUS
  <2>1. /\ pc[Main] \in Lists /\ e \in Entries(q[Main][pc[Main]]) /\ calling[Main] = Nil
        /\ Called(Main) /\ UNCHANGED <<q, pc, es, rdFds>>
        /\ calling' = [calling EXCEPT ![Main] = e] /\ owed' = [owed EXCEPT ![Main] = @ \ {e}]
    BY <1>2, <1>0, ThreadAssumption DEF CallFunction, AtEntry, OnEntry, Walked, srcvars
  <2>2. e \in Sink  BY <2>1, <1>0, EntriesType, ThreadAssumption DEF LoopType
  <2>3. calling'[Main] = e /\ owed'[Main] = owed[Main] \ {e}
    BY <2>1, <1>0, ThreadAssumption DEF LoopType
  <2>4. LoopType'  BY <2>1, <2>2, <1>0, ThreadAssumption DEF LoopType
  <2>5. WalkInv'  BY <2>1, <2>3, <1>0 DEF WalkInv
  <2>6. OwedInv'  BY <2>1, <2>3, <1>0 DEF OwedInv
  <2> QED  BY <2>4, <2>5, <2>6 DEF LoopInv
<1>3. ASSUME Skip(Main)  PROVE LoopInv'
  <2>1. pc[Main] = "sinks" => es[Main] \notin owed[Main]
    BY <1>3, <1>0 DEF Skip, Called, OwedInv
  <2> QED  BY <1>3, <2>1, MovesOnStep DEF Skip, AtEntry
<1>4. ASSUME FunctionReturns(Main)  PROVE LoopInv'
  BY <1>4, MovesOnStep DEF FunctionReturns
<1>5. ASSUME NEW l \in Lists, Reaches(Main, l), UNCHANGED <<q, calling, owed>>, calling[Main] = Nil,
             rdFds' \in [Thread -> [asked : SUBSET Sink, set : SUBSET Event, wait : BOOLEAN]]
      PROVE  LoopType'
  <2> PICK list \in Seq(Sink) : list = q[Main][l]  BY <1>0, ThreadAssumption DEF LoopType
  <2>1. TailqFirst(list, Nil) \in Sink \cup {Nil}  BY TailqFirstNext
  <2>2. es' = [es EXCEPT ![Main] = TailqFirst(list, Nil)] /\ pc' = [pc EXCEPT ![Main] = l]
    BY <1>5 DEF Reaches, Walked
  <2> QED  BY <1>0, <1>5, <2>1, <2>2, ThreadAssumption DEF LoopType
<1>6. ASSUME NEW l \in Lists, l # "sinks", Reaches(Main, l), UNCHANGED <<q, calling, owed, rdFds>>,
             calling[Main] = Nil, owed[Main] = {}
      PROVE  LoopInv'
  <2>1. LoopType'  BY <1>0, <1>5, <1>6 DEF LoopType
  <2> QED  BY <1>6, <2>1, ReachesStep
<1>7. ASSUME StartLoop(Main)  PROVE LoopInv'
  <2>1. pc[Main] = "idle" /\ Reaches(Main, "prologues") /\ UNCHANGED <<q, calling, owed, rdFds>>
    BY <1>7 DEF StartLoop
  <2>2. calling[Main] = Nil /\ owed[Main] = {}  BY <1>0, <2>1 DEF WalkInv, OwedInv, Lists
  <2>3. "prologues" \in Lists  BY DEF Lists
  <2> QED  BY <1>6, <2>1, <2>2, <2>3
<1>8. ASSUME PrologueEnds(Main)  PROVE LoopInv'
  <2>1. /\ pc[Main] = "prologues" /\ calling[Main] = Nil /\ Reaches(Main, "spinners")
        /\ UNCHANGED <<q, calling, owed, rdFds>>
    BY <1>8 DEF PrologueEnds, AtEnd, srcvars
  <2>2. owed[Main] = {} /\ "spinners" \in Lists  BY <1>0, <2>1 DEF OwedInv, Lists
  <2> QED  BY <1>6, <2>1, <2>2
<1>9. ASSUME TimersDone(Main)  PROVE LoopInv'
  <2>1. /\ pc[Main] = "timers" /\ Reaches(Main, "sinks") /\ UNCHANGED <<q, calling, owed, rdFds>>
    BY <1>9 DEF TimersDone, srcvars
  <2>2. calling[Main] = Nil /\ "sinks" \in Lists  BY <1>0, <2>1 DEF WalkInv, Lists
  <2>3. LoopType'  BY <1>0, <1>5, <2>1, <2>2 DEF LoopType
  <2> QED  BY <2>1, <2>2, <2>3, ReachesStep
<1>10. ASSUME SinksEnd(Main)  PROVE LoopInv'
  <2>1. /\ pc[Main] = "sinks" /\ calling[Main] = Nil /\ es[Main] = Nil
        /\ Reaches(Main, "epilogues") /\ UNCHANGED <<q, calling, owed>>
        /\ rdFds' = [rdFds EXCEPT ![Main] = NoFds]
    BY <1>10 DEF SinksEnd, AtEnd, srcvars
  <2>2. owed[Main] = {} /\ "epilogues" \in Lists  BY <1>0, <2>1 DEF OwedInv, Lists
  <2>3. NoFds \in [asked : SUBSET Sink, set : SUBSET Event, wait : BOOLEAN]  BY DEF NoFds
  <2>4. rdFds' \in [Thread -> [asked : SUBSET Sink, set : SUBSET Event, wait : BOOLEAN]]
    BY <1>0, <2>1, <2>3 DEF LoopType
  <2>5. LoopType'  BY <1>5, <2>1, <2>2, <2>4
  <2> QED  BY <2>1, <2>2, <2>5, ReachesStep
<1>11. ASSUME NEW r, Ends(Main, r), UNCHANGED <<q, es, calling, owed>>,
              calling[Main] = Nil, owed[Main] = {}
       PROVE  LoopInv'
  <2>1. NoFds \in [asked : SUBSET Sink, set : SUBSET Event, wait : BOOLEAN]  BY DEF NoFds
  <2>2. /\ rdFds' = [rdFds EXCEPT ![Main] = NoFds] /\ pc' = [pc EXCEPT ![Main] = "idle"]
        /\ pc'[Main] = "idle"
    BY <1>0, <1>11, ThreadAssumption DEF Ends, LoopType
  <2>3. LoopType'  BY <1>0, <1>11, <2>1, <2>2 DEF LoopType
  <2> QED  BY <1>11, <2>2, <2>3 DEF LoopInv, WalkInv, OwedInv, Lists
<1>12. ASSUME EpiloguesEnd(Main)  PROVE LoopInv'
  <2>1. pc[Main] = "epilogues" /\ calling[Main] = Nil /\ UNCHANGED <<q, calling, owed>>
    BY <1>12 DEF EpiloguesEnd, AtEnd, srcvars
  <2>2. owed[Main] = {} /\ "spinners" \in Lists  BY <1>0, <2>1 DEF OwedInv, Lists
  <2>3. CASE breakReq[Main]
    BY <1>11, <1>12, <2>1, <2>2, <2>3 DEF EpiloguesEnd
  <2>4. CASE ~breakReq[Main]
    BY <1>6, <1>12, <2>1, <2>2, <2>4 DEF EpiloguesEnd
  <2> QED  BY <2>3, <2>4
<1>13. ASSUME SelectFails(Main)  PROVE LoopInv'
  <2>1. pc[Main] = "select" /\ Ends(Main, 1) /\ UNCHANGED <<q, es, calling, owed>>
    BY <1>13 DEF SelectFails, srcvars
  <2>2. calling[Main] = Nil /\ owed[Main] = {}  BY <1>0, <2>1 DEF WalkInv, OwedInv, Lists
  <2> QED  BY <1>11, <2>1, <2>2
<1>14. ASSUME BuildSets(Main), pc'[Main] = "select", UNCHANGED <<q, es, calling, owed>>,
              pc' \in [Thread -> {"select"}], calling[Main] = Nil, owed[Main] = {}
       PROVE  LoopInv'
  <2> PICK fds : fds = [asked |-> Entries(q[Main]["sinks"]), set |-> {},
                        wait |-> Blocking /\ q[Main]["spinners"] = << >>]
    OBVIOUS
  <2>1. Entries(q[Main]["sinks"]) \subseteq Sink
    BY <1>0, EntriesType, ThreadAssumption DEF LoopType, Lists
  <2>2. fds \in [asked : SUBSET Sink, set : SUBSET Event, wait : BOOLEAN]
        /\ fds.asked = Entries(q[Main]["sinks"])
    BY <2>1, SinkAssumption, BlockingAssumption
  <2>3. rdFds' = [rdFds EXCEPT ![Main] = fds]  BY <1>14 DEF BuildSets
  <2>4. rdFds'[Main] = fds /\ LoopType'  BY <1>0, <1>14, <2>2, <2>3, ThreadAssumption DEF LoopType
  <2> QED  BY <1>14, <2>2, <2>4 DEF LoopInv, WalkInv, OwedInv, Lists
<1>15. ASSUME Poll(Main)  PROVE LoopInv'
  <2>1. /\ pc[Main] = "spinners" /\ calling[Main] = Nil /\ BuildSets(Main)
        /\ pc' = [pc EXCEPT ![Main] = "select"] /\ UNCHANGED <<q, es, calling, owed>>
    BY <1>15 DEF Poll, AtEnd, srcvars
  <2>2. owed[Main] = {}  BY <1>0, <2>1 DEF OwedInv
  <2>3. pc'[Main] = "select" /\ pc' \in [Thread -> {"select"}]
    BY <1>0, <2>1, ThreadAssumption DEF LoopType
  <2> QED  BY <1>14, <2>1, <2>2, <2>3
<1>16. ASSUME SelectInterrupted(Main)  PROVE LoopInv'
  <2>1. /\ pc[Main] = "select" /\ BuildSets(Main) /\ UNCHANGED <<q, pc, es, calling, owed>>
    BY <1>16 DEF SelectInterrupted, srcvars, walkvars
  <2>2. calling[Main] = Nil /\ owed[Main] = {}  BY <1>0, <2>1 DEF WalkInv, OwedInv, Lists
  <2>3. pc'[Main] = "select" /\ pc' \in [Thread -> {"select"}]
    BY <1>0, <2>1 DEF LoopType
  <2> QED  BY <1>14, <2>1, <2>2, <2>3
<1>17. ASSUME Wakes(Main)  PROVE LoopInv'
  <2> PICK asked, set : asked = rdFds[Main].asked /\ set = Reported(Main)  OBVIOUS
  <2>1. /\ pc[Main] = "select" /\ pc' = [pc EXCEPT ![Main] = "timers"]
        /\ rdFds' = [rdFds EXCEPT ![Main].set = set]
        /\ owed' = [owed EXCEPT ![Main] = {s \in asked : EventOf[s] \in ready /\ Linked(s)}]
        /\ UNCHANGED <<q, es, calling>>
    BY <1>17 DEF Wakes, srcvars
  <2>2. asked \subseteq Sink /\ asked = Entries(q[Main]["sinks"])
    BY <1>0, <2>1, ThreadAssumption DEF LoopType, WalkInv
  <2>3. set = {EventOf[s] : s \in asked} \cap ready  BY DEF Reported
  <2>4. set \subseteq Event  BY <2>2, <2>3, SinkAssumption, BlockingAssumption
  <2>5. /\ rdFds' \in [Thread -> [asked : SUBSET Sink, set : SUBSET Event, wait : BOOLEAN]]
        /\ rdFds'[Main].asked = asked /\ rdFds'[Main].set = set
    BY <1>0, <2>1, <2>4, ThreadAssumption DEF LoopType
  <2>6. /\ pc'[Main] = "timers" /\ owed'[Main] \subseteq asked
        /\ \A s \in owed'[Main] : EventOf[s] \in set
    BY <1>0, <2>1, <2>3, ThreadAssumption DEF LoopType
  <2>7. LoopType'  BY <1>0, <2>1, <2>2, <2>5, ThreadAssumption DEF LoopType
  <2>8. calling[Main] = Nil  BY <1>0, <2>1 DEF WalkInv, Lists
  <2>9. WalkInv'
    BY <2>1, <2>2, <2>5, <2>6, <2>8 DEF WalkInv, Lists
  <2>10. OwedInv'  BY <2>1, <2>2, <2>5, <2>6 DEF OwedInv
  <2> QED  BY <2>7, <2>9, <2>10 DEF LoopInv
<1>18. ASSUME NEW s \in Sink, AddEventSink(Main, s)  PROVE LoopInv'
  BY <1>18, AddStep
<1>19. ASSUME NEW s \in Sink, DelEventSink(Main, s)  PROVE LoopInv'
  <2>1. /\ MayCall(Main) /\ calling[Main] # s /\ Deleted(Main, {s})
        /\ UNCHANGED <<pc, es, calling, rdFds>>
    BY <1>19 DEF DelEventSink, MayDel, walkvars
  <2>2. calling[Main] \notin {s}  BY <2>1
  <2> QED  BY <2>1, <2>2, DeletedStep
<1>20. ASSUME NEW e \in Event, DelEventSinksByIdent(Main, e)  PROVE LoopInv'
  <2> PICK S : S = {s \in Entries(q[Main]["sinks"]) : EventOf[s] = e}  OBVIOUS
  <2>1. /\ S # {} /\ \A s \in S : MayDel(Main, s)
        /\ Deleted(Main, S) /\ UNCHANGED <<pc, es, calling, rdFds>>
    BY <1>20 DEF DelEventSinksByIdent, walkvars
  <2>2. MayCall(Main) /\ calling[Main] \notin S  BY <2>1 DEF MayDel
  <2> QED  BY <2>1, <2>2, DeletedStep
<1>21. ASSUME Exit(Main)  PROVE LoopInv'
  <2>1. /\ pc[Main] = "idle" /\ q' = [q EXCEPT ![Main] = [l \in Lists |-> << >>]]
        /\ owed' = [u \in Thread |-> owed[u] \ UNION {Entries(q[Main][l]) : l \in Lists}]
        /\ UNCHANGED <<pc, es, calling, rdFds>>
    BY <1>21 DEF Exit, walkvars
  <2>2. << >> \in Seq(Sink) /\ Entries(<< >>) = {} /\ NoRepeats(<< >>)
    BY DEF Entries, NoRepeats
  <2>3. \A l \in Lists : q'[Main][l] = << >>  BY <1>0, <2>1, ThreadAssumption DEF LoopType
  <2>4. q' \in [Thread -> [Lists -> Seq(Sink)]]
    BY <1>0, <2>1, <2>2 DEF LoopType
  <2>5. owed' \in [Thread -> SUBSET Sink] /\ owed'[Main] = {}
    <3>1. owed[Main] = {}  BY <1>0, <2>1 DEF OwedInv
    <3> QED  BY <1>0, <2>1, <3>1, ThreadAssumption DEF LoopType
  <2>6. LoopType'  BY <1>0, <2>1, <2>2, <2>3, <2>4, <2>5 DEF LoopType
  <2>7. calling[Main] = Nil  BY <1>0, <2>1 DEF WalkInv, Lists
  <2> QED  BY <2>1, <2>5, <2>6, <2>7 DEF LoopInv, WalkInv, OwedInv, Lists
<1>22. ASSUME Drain(Main) \/ (\E c \in Code : Terminate(Main, c)) \/ \E e \in Event : Arrive(e)
       PROVE  LoopInv'
  BY <1>1, <1>22 DEF Drain, Terminate, Arrive, srcvars, walkvars
<1>23. CASE UNCHANGED loopvars  BY <1>1, <1>23 DEF loopvars
<1>24. ASSUME Pass(Main)  PROVE LoopInv'
  BY <1>2, <1>3, <1>4, <1>8, <1>9, <1>10, <1>12, <1>15, <1>17, <1>24 DEF Pass, SelectReturns
<1>25. ASSUME LoopEdits(Main)  PROVE LoopInv'
  BY <1>7, <1>18, <1>19, <1>20, <1>21, <1>22, <1>25 DEF LoopEdits
<1> QED
  BY <1>0, <1>13, <1>16, <1>17, <1>22, <1>23, <1>24, <1>25 DEF LoopNext, SelectReturnsForTimer

\* Agar starts with one source, whose lists are empty.
LEMMA LoopInitially ==
  ASSUME OneLoop, LoopInit
  PROVE  LoopInv
<1>1. << >> \in Seq(Sink) /\ Entries(<< >>) = {} /\ NoRepeats(<< >>)
  BY DEF Entries, NoRepeats
<1>2. NoFds \in [asked : SUBSET Sink, set : SUBSET Event, wait : BOOLEAN]  BY DEF NoFds
<1>3. LoopType  BY <1>1, <1>2, ThreadAssumption DEF LoopInit, LoopType
<1>4. WalkInv /\ OwedInv
  BY ThreadAssumption DEF LoopInit, WalkInv, OwedInv, Lists
<1> QED  BY <1>3, <1>4 DEF LoopInv

\* The invariant of the loop, in every state.
LEMMA LoopInvariant ==
  ASSUME OneLoop, "self" \notin Liberties
  PROVE  LoopSpec => []LoopInv
<1>1. LoopInit => LoopInv  BY LoopInitially
<1>2. LoopInv /\ [LoopNext]_loopvars => LoopInv'  BY LoopStep
<1> QED  BY <1>1, <1>2, PTL DEF LoopSpec

\* The loop never goes on from a sink that was freed, if no function deletes the one
\* it is called through, and no other thread runs a loop.
THEOREM LoopNeverAtFreedSink ==
  ASSUME OneLoop, "self" \notin Liberties
  PROVE  LoopSpec => []NoFreedSink
<1>1. LoopInv => NoFreedSink
  BY DEF OneLoop, LoopInv, WalkInv, NoFreedSink, Walked
<1> QED  BY <1>1, LoopInvariant, PTL

\* Then each sink that select reported has been called when the walk is over, or was
\* deleted by a function.
THEOREM PassesComplete ==
  ASSUME OneLoop, "self" \notin Liberties
  PROVE  LoopSpec => []PassComplete
<1>1. LoopInv => PassComplete
  BY DEF OneLoop, LoopInv, OwedInv, PassComplete
<1> QED  BY <1>1, LoopInvariant, PTL

-----------------------------------------------------------------------------
(* The locks: LockOrder *)

\* The calls are guarded: one that is at a write of a datum and one that is at an
\* access to it both hold some lock.
GuardedCalls ==
  \A c, d \in Calls : \A i \in DOMAIN c, j \in DOMAIN d :
    c[i].op = "write" /\ d[j].op \in {"read", "write"} /\ c[i].on = d[j].on =>
      \E l \in Lock : Depth[c][i][l] > 0 /\ Depth[d][j][l] > 0

\* What a call of the library is.
LEMMA CallFacts ==
  ASSUME NEW c \in Calls
  PROVE  /\ c \in Seq(Step) /\ c # << >> /\ Len(c) \in Nat \ {0} /\ DOMAIN c = 1..Len(c)
         /\ \A i \in 1..(Len(c) + 1) : Depth[c][i] \in [Lock -> Nat]
         /\ Depth[c][1] = NoLock /\ Depth[c][Len(c) + 1] = NoLock
<1>1. c \in Seq(Step) /\ c # << >>  BY DepthAssumption
<1>2. Len(c) \in Nat \ {0} /\ DOMAIN c = 1..Len(c)  BY <1>1
<1> QED  BY <1>1, <1>2, DepthAssumption

\* The locks that a step leaves: those before the next step.
LEMMA StepDepth ==
  ASSUME NEW c \in Calls, NEW i \in DOMAIN c
  PROVE  /\ c[i].op \in {"lock", "unlock"} => Depth[c][i + 1] = After(c[i], Depth[c][i])
         /\ c[i].op \notin {"lock", "unlock"} => Depth[c][i + 1] = Depth[c][i]
         /\ c[i].op = "lock" => c[i].on \in Lock
         /\ c[i] \in Step
<1>1. c[i] \in Step  BY CallFacts
<1> QED  BY <1>1, DepthAssumption DEF Step

\* A thread that takes a step of its call holds what Depth says afterwards.
LEMMA DoneType ==
  ASSUME LocksTypeOK, NEW th \in Thread, call[th] # << >>, Done(th),
         held' = [held EXCEPT ![th] = Depth[call[th]][at[th] + 1]]
  PROVE  LocksTypeOK'
<1> DEFINE c == call[th]
<1>1. c \in Calls /\ at[th] \in DOMAIN c  BY DEF LocksTypeOK
<1>2. /\ Len(c) \in Nat \ {0} /\ DOMAIN c = 1..Len(c) /\ c # << >>
      /\ Depth[c][at[th] + 1] \in [Lock -> Nat] /\ Depth[c][Len(c) + 1] = NoLock
  <2>1. /\ Len(c) \in Nat \ {0} /\ DOMAIN c = 1..Len(c) /\ c # << >>
        /\ \A i \in 1..(Len(c) + 1) : Depth[c][i] \in [Lock -> Nat]
        /\ Depth[c][Len(c) + 1] = NoLock
    BY <1>1, CallFacts
  <2>2. at[th] + 1 \in 1..(Len(c) + 1)  BY <1>1, <2>1
  <2> QED  BY <2>1, <2>2
<1>3. held' \in [Thread -> [Lock -> Nat]]  BY <1>2 DEF LocksTypeOK
<1>4. CASE at[th] = Len(c)
  <2>1. call' = [call EXCEPT ![th] = << >>] /\ at' = [at EXCEPT ![th] = 1]  BY <1>4 DEF Done
  <2>2. held'[th] = NoLock  BY <1>2, <1>4 DEF LocksTypeOK
  <2> QED  BY <1>3, <2>1, <2>2 DEF LocksTypeOK
<1>5. CASE at[th] # Len(c)
  <2>1. at' = [at EXCEPT ![th] = @ + 1] /\ call' = call  BY <1>5 DEF Done
  <2>2. at[th] + 1 \in DOMAIN c  BY <1>1, <1>2, <1>5
  <2>3. at'[th] = at[th] + 1 /\ at' \in [Thread -> Nat]  BY <2>1, <2>2, <1>2 DEF LocksTypeOK
  <2>4. held'[th] = Depth[c][at[th] + 1]  BY DEF LocksTypeOK
  <2> QED  BY <1>2, <1>3, <2>1, <2>2, <2>3, <2>4 DEF LocksTypeOK
<1> QED  BY <1>4, <1>5

\* A step keeps the type of the state.
LEMMA NextType ==
  ASSUME LocksTypeOK, [LockNext]_lockvars
  PROVE  LocksTypeOK'
<1>1. CASE UNCHANGED lockvars  BY <1>1 DEF lockvars, LocksTypeOK
<1>2. ASSUME NEW th \in Thread, NEW c \in Calls, Start(th, c) PROVE LocksTypeOK'
  <2>1. Len(c) \in Nat \ {0} /\ DOMAIN c = 1..Len(c) /\ c # << >> /\ Depth[c][1] = NoLock
    BY CallFacts
  <2> QED  BY <1>2, <2>1 DEF Start, LocksTypeOK
<1>3. ASSUME NEW th \in Thread, Proceed(th) PROVE LocksTypeOK'
  <2>1. call[th] # << >>  BY <1>3 DEF Proceed, MutexLock, MutexUnlock, Access, At
  <2>2. call[th] \in Calls /\ at[th] \in DOMAIN call[th] /\ held[th] = Depth[call[th]][at[th]]
    BY <2>1 DEF LocksTypeOK
  <2>3. held' = [held EXCEPT ![th] = Depth[call[th]][at[th] + 1]]
    <3>1. CASE MutexLock(th) \/ MutexUnlock(th)
      BY <2>2, <3>1, StepDepth DEF MutexLock, MutexUnlock, At, Here
    <3>2. CASE Access(th)
      <4>1. Depth[call[th]][at[th] + 1] = held[th]
        BY <2>2, <3>2, StepDepth DEF Access, At, Here
      <4> QED  BY <3>2, <4>1 DEF Access, LocksTypeOK
    <3> QED  BY <1>3, <3>1, <3>2 DEF Proceed
  <2>4. Done(th)  BY <1>3 DEF Proceed, MutexLock, MutexUnlock, Access
  <2> QED  BY <2>1, <2>3, <2>4, DoneType
<1> QED  BY <1>1, <1>2, <1>3 DEF LockNext

\* A lock has one owner.
Exclusive == \A th, u \in Thread : \A l \in Lock : th # u => held[th][l] = 0 \/ held[u][l] = 0

\* The inductive invariant.
LocksInv == LocksTypeOK /\ Exclusive

\* Taking a free lock, releasing one and accesses keep it so.
LEMMA ProceedExclusive ==
  ASSUME LocksInv, LocksTypeOK', NEW th \in Thread, Proceed(th)
  PROVE  Exclusive'
<1>1. /\ \A u \in Thread : held[u] \in [Lock -> Nat] /\ held'[u] \in [Lock -> Nat]
      /\ held \in [Thread -> [Lock -> Nat]]
  BY DEF LocksInv, LocksTypeOK
<1>2. CASE MutexLock(th)
  <2> DEFINE k == Here(th).on
  <2>1. /\ Here(th).op = "lock" /\ held' = [held EXCEPT ![th] = After(Here(th), @)]
        /\ \A u \in Thread \ {th} : held[u][k] = 0
    BY <1>2 DEF MutexLock, At, Free
  <2>2. \A l \in Lock : l # k => held'[th][l] = held[th][l]
    BY <1>1, <2>1 DEF After
  <2>3. \A u \in Thread \ {th} : held'[u] = held[u]
    BY <1>1, <2>1
  <2> HIDE DEF k
  <2> QED  BY <2>1, <2>2, <2>3 DEF LocksInv, Exclusive
<1>3. CASE MutexUnlock(th)
  <2> DEFINE k == Here(th).on
  <2>1. Here(th).op = "unlock" /\ held' = [held EXCEPT ![th] = After(Here(th), @)]
    BY <1>3 DEF MutexUnlock, At
  <2>2. \A l \in Lock : held'[th][l] = held[th][l] \/ held'[th][l] = held[th][l] - 1
    BY <1>1, <2>1 DEF After
  <2>3. \A l \in Lock : held[th][l] = 0 => held'[th][l] = 0
    BY <1>1, <2>2
  <2>4. \A u \in Thread \ {th} : held'[u] = held[u]
    BY <1>1, <2>1
  <2> QED  BY <2>3, <2>4 DEF LocksInv, Exclusive
<1>4. CASE Access(th)
  BY <1>4 DEF Access, LocksInv, Exclusive
<1> QED  BY <1>2, <1>3, <1>4 DEF Proceed

\* The invariant of the locks, in every state.
LEMMA LocksInvariant == LockSpec => []LocksInv
<1>1. LockInit => LocksInv  BY DEF LockInit, LocksInv, LocksTypeOK, Exclusive, NoLock
<1>2. ASSUME LocksInv, [LockNext]_lockvars PROVE LocksInv'
  <2>1. LocksTypeOK'  BY <1>2, NextType DEF LocksInv
  <2>2. CASE UNCHANGED lockvars  BY <1>2, <2>1, <2>2 DEF lockvars, LocksInv, Exclusive
  <2>3. ASSUME NEW th \in Thread, NEW c \in Calls, Start(th, c) PROVE LocksInv'
    BY <1>2, <2>1, <2>3 DEF Start, LocksInv, Exclusive
  <2>4. ASSUME NEW th \in Thread, Proceed(th) PROVE LocksInv'
    BY <1>2, <2>1, <2>4, ProceedExclusive DEF LocksInv
  <2> QED  BY <1>2, <2>2, <2>3, <2>4 DEF LockNext
<1> QED  BY <1>1, <1>2, PTL DEF LockSpec

\* Type correctness: each thread holds exactly what its call has locked so far.
THEOREM LocksTypeCorrect == LockSpec => []LocksTypeOK
<1>1. LocksInv => LocksTypeOK  BY DEF LocksInv
<1> QED  BY <1>1, LocksInvariant, PTL

\* A thread that wants a lock it does not hold yet only holds locks of higher levels.
InOrder(th) ==
  At(th, "lock") /\ held[th][Here(th).on] = 0 =>
    \A l \in Lock : held[th][l] > 0 => Level[l] > Level[Here(th).on]

\* The threads of S wait for each other.
Circle(S) == \A th \in S : \E u \in S : WaitsFor(th, u)

\* In a circle of threads in order, the one that waits for the lock of the lowest
\* level is waited for by none: its holder waits for a lower one still.
LEMMA NoCircleInOrder ==
  ASSUME LocksInv, NEW S \in SUBSET Thread, S # {}, Circle(S), \A th \in S : InOrder(th)
  PROVE  FALSE
<1> DEFINE Wanted == {Level[Here(th).on] : th \in S}
<1>1. ASSUME NEW th \in S PROVE Here(th).on \in Lock /\ At(th, "lock")
  <2>1. At(th, "lock")  BY DEF Circle, WaitsFor
  <2>2. call[th] \in Calls /\ at[th] \in DOMAIN call[th]  BY <2>1 DEF At, LocksInv, LocksTypeOK
  <2> QED  BY <2>1, <2>2, StepDepth DEF At, Here
<1>2. Wanted \subseteq Nat /\ Wanted # {}
  BY <1>1, LevelAssumption
<1>3. PICK m \in Wanted : \A n \in Wanted : <<n, m>> \notin OpToRel(<, Nat)
  <2> HIDE DEF Wanted
  <2> QED  BY <1>2, NatLessThanWellFounded, WFMin
<1>4. PICK th \in S : m = Level[Here(th).on]  OBVIOUS
<1>5. PICK u \in S : WaitsFor(th, u)  BY DEF Circle
<1>6. PICK v \in S : WaitsFor(u, v)  BY DEF Circle
<1>7. held[u][Here(th).on] > 0 /\ At(u, "lock") /\ held[v][Here(u).on] > 0 /\ v # u
  BY <1>5, <1>6 DEF WaitsFor
<1>8. Level[Here(u).on] \in Wanted /\ Level[Here(u).on] \in Nat /\ m \in Nat
  BY <1>2
<1>9. held[u][Here(u).on] = 0
  <2>1. held[v][Here(u).on] # 0
    <3>1. held[v] \in [Lock -> Nat] /\ Here(u).on \in Lock
      <4>1. held \in [Thread -> [Lock -> Nat]]  BY DEF LocksInv, LocksTypeOK
      <4> QED  BY <1>1, <4>1
    <3>2. held[v][Here(u).on] \in Nat  BY <3>1
    <3> QED  BY <3>2, <1>7
  <2> QED  BY <1>1, <1>7, <2>1 DEF LocksInv, Exclusive
<1>10. Level[Here(th).on] > Level[Here(u).on]
  BY <1>1, <1>7, <1>9 DEF InOrder
<1>11. Level[Here(u).on] < m  BY <1>4, <1>8, <1>10
<1>12. <<Level[Here(u).on], m>> \in OpToRel(<, Nat)
  BY <1>8, <1>11 DEF OpToRel
<1> QED  BY <1>3, <1>8, <1>12

\* Whatever the calls, threads that wait for each other in a circle are not all in order:
\* one of them wants a lock, while it holds another, against the order of the levels.
THEOREM DeadlockIsOutOfOrder ==
  LockSpec => [](\A S \in (SUBSET Thread) \ {{}} : Circle(S) => \E th \in S : ~InOrder(th))
<1>1. LocksInv => \A S \in (SUBSET Thread) \ {{}} : Circle(S) => \E th \in S : ~InOrder(th)
  BY NoCircleInOrder
<1> QED  BY <1>1, LocksInvariant, PTL

\* Two threads at accesses to a datum of which one is a write would hold one lock.
LEMMA GuardsPreventRace ==
  ASSUME GuardedCalls, LocksInv
  PROVE  NoRace
<1> SUFFICES ASSUME NEW th \in Thread, NEW u \in Thread, th # u, At(th, "write"),
                    At(u, "write") \/ At(u, "read"), Here(th).on = Here(u).on
             PROVE  FALSE
  BY DEF NoRace
<1>1. ASSUME NEW v \in Thread, call[v] # << >>
      PROVE  /\ call[v] \in Calls /\ at[v] \in DOMAIN call[v]
             /\ held[v] = Depth[call[v]][at[v]]
  BY <1>1 DEF LocksInv, LocksTypeOK
<1>2. call[th] # << >> /\ call[u] # << >> /\ Here(th).op = "write" /\ Here(u).op \in {"read", "write"}
  BY DEF At
<1>3. PICK l \in Lock : held[th][l] > 0 /\ held[u][l] > 0
  BY <1>1, <1>2 DEF GuardedCalls, Here
<1> QED  BY <1>3 DEF LocksInv, Exclusive

\* If the accesses of all calls to what they share are guarded, none is read or
\* written by one thread while another writes it.
THEOREM GuardedCallsNeverRace ==
  ASSUME GuardedCalls
  PROVE  LockSpec => []NoRace
<1>1. LocksInv => NoRace  BY GuardsPreventRace
<1> QED  BY <1>1, LocksInvariant, PTL
=============================================================================
