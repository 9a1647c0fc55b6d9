-------------------------- MODULE SchedulerProofs ---------------------------
(***************************************************************************)
(* Theorems about the scheduler, for any names, tasks, kinds and           *)
(* priorities and lists of any length: the registrations, the subjects and *)
(* the timers.  Callers may do what they want.                             *)
(***************************************************************************)
EXTENDS Scheduler, WellFoundedInduction, TLAPS

BookType == [state : [Names -> Tasks \cup {None}],
             subject : [Names -> Seq(Tasks \cup {None})],
             object : [Tasks -> Nat], owner : Seq(Tasks),
             armed : SUBSET Nat, threw : BOOLEAN]

-----------------------------------------------------------------------------
\* The inductive invariant, first of the data of the service.

Sound(b) ==
    /\ b \in BookType
    /\ b.armed \subseteq DOMAIN b.owner
    /\ \A t \in Tasks : b.object[t] <= Len(b.owner)
    /\ \A n \in Names :
         b.state[n] # None => /\ NameOf[b.state[n]] = n
                              /\ b.subject[n] = <<b.state[n]>>

Clash(b) ==
    {p \in Names \X Names :
        /\ p[1] # p[2] /\ b.state[p[1]] # None /\ b.state[p[2]] # None
        /\ Priority[b.state[p[1]]] >= 0
        /\ Priority[b.state[p[1]]] = Priority[b.state[p[2]]]}

\* A callback that has read a task has read one of its name.
RunsRight ==
    /\ runs \subseteq Run
    /\ runCtr \in 0 .. MaxRuns
    /\ \A r \in runs : r.phase = "resolve" =>
                          r.current \in Tasks /\ NameOf[r.current] = r.name

\* The timers of a book that no task can stop, and those of them that a later
\* start of their task put out of reach.
Lost(b) ==
    {k \in b.armed : b.state[NameOf[b.owner[k]]] # b.owner[k] \/ b.object[b.owner[k]] # k}

Outdone(b, k) ==
    /\ b.state[NameOf[b.owner[k]]] = b.owner[k]
    /\ b.object[b.owner[k]] > k

IInv ==
    /\ Sound(Book)
    /\ Len(owner) <= MaxTimers
    /\ RunsRight

-----------------------------------------------------------------------------
\* Induction over the list of a batch.

LEMMA LeastNat ==
  ASSUME NEW S \in SUBSET Nat, S # {}
  PROVE  \E n \in S : \A m \in S : n <= m
<1> DEFINE R == OpToRel(<, Nat)
<1>1. IsWellFoundedOn(R, Nat)
  BY NatLessThanWellFounded
<1> HIDE DEF R
<1>2. PICK n \in S : \A m \in S : <<m, n>> \notin R
  BY <1>1, WFMin
<1>3. \A l, m \in Nat : l < m => <<l, m>> \in R
  BY DEF R, OpToRel
<1>4. \A m \in S : ~ (m < n)
  BY <1>2, <1>3
<1> QED
  BY <1>4

LEMMA NatInductive ==
  ASSUME NEW S \in SUBSET Nat, 0 \in S, \A n \in S : n + 1 \in S
  PROVE  S = Nat
<1>1. SUFFICES ASSUME Nat \ S # {} PROVE FALSE
  OBVIOUS
<1>2. PICK n \in Nat \ S : \A m \in Nat \ S : n <= m
  BY <1>1, LeastNat
<1> QED
  BY <1>2

\* The recursion of Each, over the first n of the list.
After(g, op, xs, n) ==
    g = [i \in 0 .. n |-> IF i = 0 THEN Book ELSE Do(op, g[i - 1], xs[i])]

\* It defines a function.
LEMMA AfterExists ==
  ASSUME NEW op, NEW xs, NEW n \in Nat
  PROVE  \E g : After(g, op, xs, n)
<1> DEFINE S == {k \in Nat : \E g : After(g, op, xs, k)}
<1>1. 0 \in S
  <2> DEFINE g == [i \in {0} |-> Book]
  <2>1. After(g, op, xs, 0)
    BY DEF After
  <2> QED
    BY <2>1
<1>2. ASSUME NEW k \in S PROVE k + 1 \in S
  <2>1. PICK g : After(g, op, xs, k)
    OBVIOUS
  <2> DEFINE h == [i \in 0 .. k + 1 |->
                      IF i = k + 1 THEN Do(op, g[k], xs[k + 1]) ELSE g[i]]
  <2>2. \A i \in 0 .. k : g[i] = (IF i = 0 THEN Book ELSE Do(op, g[i - 1], xs[i]))
    BY <2>1 DEF After
  <2>3. \A i \in 0 .. k + 1 : h[i] = (IF i = 0 THEN Book ELSE Do(op, h[i - 1], xs[i]))
    BY <2>2
  <2>4. After(h, op, xs, k + 1)
    BY <2>3 DEF After
  <2> HIDE DEF h
  <2> QED
    BY <2>4
<1>3. S = Nat
  BY <1>1, <1>2, NatInductive
<1> QED
  BY <1>3

\* The data before, between and after the steps of a batch.
LEMMA EachIs ==
  ASSUME NEW op, NEW X, NEW xs \in Seq(X)
  PROVE  \E g : /\ g[0] = Book
                /\ \A i \in 1 .. Len(xs) : g[i] = Do(op, g[i - 1], xs[i])
                /\ Each(op, xs) = g[Len(xs)]
<1> DEFINE g == CHOOSE f : After(f, op, xs, Len(xs))
<1>1. Each(op, xs) = g[Len(xs)]
  BY DEF Each, After
<1>2. After(g, op, xs, Len(xs))
  BY AfterExists
<1> HIDE DEF g
<1>3. g[0] = Book /\ \A i \in 1 .. Len(xs) : g[i] = Do(op, g[i - 1], xs[i])
  BY <1>2 DEF After
<1> QED
  BY <1>1, <1>3

-----------------------------------------------------------------------------
\* What the operations do with each part of the data.

Ops == {"add", "remove", "stop", "start", "restart"}
Elem(op) == IF op = "add" THEN Tasks ELSE Names

LEMMA SetTaskIs ==
  ASSUME NEW bk \in BookType, NEW n \in Names, NEW t \in Tasks
  PROVE  LET c == SetTask(bk, n, t) IN
         /\ c \in BookType
         /\ c.state = [bk.state EXCEPT ![n] = t]
         /\ c.subject = [bk.subject EXCEPT ![n] = <<t>>]
         /\ c.object = bk.object /\ c.owner = bk.owner
         /\ c.armed = bk.armed /\ c.threw = bk.threw
<1>1. <<t>> \in Seq(Tasks \cup {None})
  OBVIOUS
<1> QED
  BY <1>1 DEF SetTask, BookType

LEMMA DeleteTaskIs ==
  ASSUME NEW bk \in BookType, NEW n \in Names
  PROVE  LET c == DeleteTask(bk, n) IN
         /\ c \in BookType
         /\ c.state = [bk.state EXCEPT ![n] = None]
         /\ c.subject = [bk.subject EXCEPT ![n] = <<>>]
         /\ c.object = bk.object /\ c.owner = bk.owner
         /\ c.armed = bk.armed /\ c.threw = bk.threw
<1>1. <<>> \in Seq(Tasks \cup {None})
  OBVIOUS
<1> QED
  BY <1>1 DEF DeleteTask, BookType

LEMMA ThrowIs ==
  ASSUME NEW bk \in BookType
  PROVE  /\ Throw(bk) \in BookType
         /\ Throw(bk).state = bk.state /\ Throw(bk).subject = bk.subject
         /\ Throw(bk).object = bk.object /\ Throw(bk).owner = bk.owner
         /\ Throw(bk).armed = bk.armed /\ Throw(bk).threw
BY DEF Throw, BookType

LEMMA Stop1Is ==
  ASSUME NEW bk \in BookType, NEW n \in Names
  PROVE  LET c == Stop1(bk, n)
             t == bk.state[n]
         IN /\ c \in BookType
            /\ c.state = bk.state /\ c.subject = bk.subject
            /\ c.object = bk.object /\ c.owner = bk.owner
            /\ c.armed \subseteq bk.armed
            /\ ~ c.threw => ~ bk.threw /\ t # None /\ c.armed = bk.armed \ {bk.object[t]}
            /\ c.threw => c.armed = bk.armed
<1> DEFINE t == bk.state[n]
<1>1. CASE bk.threw
  BY <1>1 DEF Stop1
<1>2. CASE ~ bk.threw /\ (t = None \/ (Kind[t] = "Cron" /\ bk.object[t] = 0))
  <2>1. Stop1(bk, n) = Throw(bk)
    BY <1>2 DEF Stop1
  <2> QED
    BY <2>1, ThrowIs
<1>3. CASE ~ bk.threw /\ ~ (t = None \/ (Kind[t] = "Cron" /\ bk.object[t] = 0))
  <2>1. Stop1(bk, n) = [bk EXCEPT !.armed = @ \ {bk.object[t]}]
    BY <1>3 DEF Stop1
  <2> QED
    BY <2>1, <1>3 DEF BookType
<1> QED
  BY <1>1, <1>2, <1>3

LEMMA Start1Is ==
  ASSUME NEW bk \in BookType, NEW n \in Names
  PROVE  LET c == Start1(bk, n)
             t == bk.state[n]
             k == Len(bk.owner) + 1
         IN /\ c \in BookType
            /\ c.state = bk.state /\ c.subject = bk.subject
            /\ \/ /\ c.object = bk.object /\ c.owner = bk.owner
                  /\ c.armed = bk.armed
               \/ /\ t \in Tasks /\ ~ bk.threw /\ ~ c.threw
                  /\ c.object = [bk.object EXCEPT ![t] = k]
                  /\ c.owner = Append(bk.owner, t)
                  /\ c.armed = bk.armed \cup {k}
<1> DEFINE t == bk.state[n]
           k == Len(bk.owner) + 1
<1>1. CASE bk.threw
  BY <1>1 DEF Start1
<1>2. CASE ~ bk.threw /\ (t = None \/ t \in Unstartable)
  <2>1. Start1(bk, n) = Throw(bk)
    BY <1>2 DEF Start1
  <2> QED
    BY <2>1, ThrowIs
<1>3. CASE ~ bk.threw /\ ~ (t = None \/ t \in Unstartable)
  <2>1. Start1(bk, n) = [bk EXCEPT !.object[t] = k, !.owner = Append(@, t),
                                   !.armed = @ \cup {k}]
    BY <1>3 DEF Start1
  <2>2. t \in Tasks /\ k \in Nat /\ bk.owner \in Seq(Tasks)
    BY <1>3 DEF BookType
  <2>3. [bk.object EXCEPT ![t] = k] \in [Tasks -> Nat] /\ bk.armed \cup {k} \in SUBSET Nat
    BY <2>2 DEF BookType
  <2> HIDE DEF t, k
  <2>4. Start1(bk, n) = [state |-> bk.state, subject |-> bk.subject,
                         object |-> [bk.object EXCEPT ![t] = k],
                         owner |-> Append(bk.owner, t), armed |-> bk.armed \cup {k},
                         threw |-> bk.threw]
    BY <2>1 DEF BookType
  <2>5. Start1(bk, n) \in BookType
    BY <2>3, <2>4 DEF BookType
  <2> QED
    BY <2>2, <2>4, <2>5, <1>3 DEF t, k
<1> QED
  BY <1>1, <1>2, <1>3

-----------------------------------------------------------------------------
\* Sound is kept by every operation.

LEMMA SoundSet ==
  ASSUME NEW bk, Sound(bk), NEW t \in Tasks
  PROVE  Sound(SetTask(bk, NameOf[t], t))
<1> DEFINE n == NameOf[t]
           c == SetTask(bk, n, t)
<1>1. bk \in BookType /\ n \in Names
  BY SchedulerAssumption DEF Sound
<1>2. bk.state \in [Names -> Tasks \cup {None}] /\ DOMAIN bk.subject = Names
  BY <1>1 DEF BookType
<1> HIDE DEF n
<1>3. /\ c \in BookType
      /\ c.state = [bk.state EXCEPT ![n] = t]
      /\ c.subject = [bk.subject EXCEPT ![n] = <<t>>]
      /\ c.object = bk.object /\ c.owner = bk.owner /\ c.armed = bk.armed
  BY <1>1, SetTaskIs
<1> HIDE DEF c
<1>4. \A m \in Names :
        c.state[m] # None => NameOf[c.state[m]] = m /\ c.subject[m] = <<c.state[m]>>
  BY <1>2, <1>3 DEF Sound, n
<1>5. Sound(c)
  BY <1>3, <1>4 DEF Sound
<1> QED
  BY <1>5 DEF c, n

LEMMA SoundDelete ==
  ASSUME NEW bk, Sound(bk), NEW n \in Names
  PROVE  Sound(DeleteTask(bk, n))
<1> DEFINE c == DeleteTask(bk, n)
<1>1. bk \in BookType
  BY DEF Sound
<1>2. bk.state \in [Names -> Tasks \cup {None}] /\ DOMAIN bk.subject = Names
  BY <1>1 DEF BookType
<1>3. /\ c \in BookType
      /\ c.state = [bk.state EXCEPT ![n] = None]
      /\ c.subject = [bk.subject EXCEPT ![n] = <<>>]
      /\ c.object = bk.object /\ c.owner = bk.owner /\ c.armed = bk.armed
  BY <1>1, DeleteTaskIs
<1> HIDE DEF c
<1>4. \A m \in Names :
        c.state[m] # None => NameOf[c.state[m]] = m /\ c.subject[m] = <<c.state[m]>>
  BY <1>2, <1>3 DEF Sound
<1>5. Sound(c)
  BY <1>3, <1>4 DEF Sound
<1> QED
  BY <1>5 DEF c

LEMMA SoundThrow ==
  ASSUME NEW bk, Sound(bk)
  PROVE  Sound(Throw(bk))
BY ThrowIs DEF Sound

LEMMA SoundStop ==
  ASSUME NEW bk, Sound(bk), NEW n \in Names
  PROVE  Sound(Stop1(bk, n))
BY Stop1Is DEF Sound

LEMMA SoundStart ==
  ASSUME NEW bk, Sound(bk), NEW n \in Names
  PROVE  Sound(Start1(bk, n))
<1> DEFINE c == Start1(bk, n)
           t == bk.state[n]
           k == Len(bk.owner) + 1
<1>1. bk \in BookType
  BY DEF Sound
<1>2. c \in BookType /\ c.state = bk.state /\ c.subject = bk.subject
  BY <1>1, Start1Is
<1>3. CASE c.object = bk.object /\ c.owner = bk.owner /\ c.armed = bk.armed
  BY <1>2, <1>3 DEF Sound
<1>4. CASE /\ t \in Tasks /\ c.object = [bk.object EXCEPT ![t] = k]
           /\ c.owner = Append(bk.owner, t) /\ c.armed = bk.armed \cup {k}
  <2>1. /\ bk.owner \in Seq(Tasks) /\ bk.object \in [Tasks -> Nat]
        /\ Len(bk.owner) \in Nat
    BY <1>1 DEF BookType
  <2>2. c.armed \subseteq DOMAIN c.owner
    BY <1>4 DEF Sound
  <2>3. \A u \in Tasks : c.object[u] <= Len(c.owner)
    BY <1>4, <2>1 DEF Sound
  <2> QED
    BY <1>2, <2>2, <2>3 DEF Sound
<1> QED
  BY <1>1, <1>3, <1>4, Start1Is

LEMMA SoundDo ==
  ASSUME NEW bk, Sound(bk), NEW op \in Ops, NEW x \in Elem(op)
  PROVE  Sound(Do(op, bk, x))
<1>1. CASE op = "add"
  <2>1. x \in Tasks /\ NameOf[x] \in Names /\ Do(op, bk, x) = Add1(bk, x)
    BY <1>1, SchedulerAssumption DEF Elem, Do
  <2> QED
    BY <2>1, SoundThrow, SoundSet, SoundStart DEF Add1
<1>2. CASE op = "remove"
  <2>1. x \in Names /\ Do(op, bk, x) = Remove1(bk, x)
    BY <1>2 DEF Elem, Do
  <2> QED
    BY <2>1, SoundStop, SoundDelete DEF Remove1
<1>3. CASE op = "stop"
  BY <1>3, SoundStop DEF Elem, Do
<1>4. CASE op = "start"
  BY <1>4, SoundStart DEF Elem, Do
<1>5. CASE op = "restart"
  BY <1>5, SoundStop, SoundStart DEF Elem, Do, Restart1
<1> QED
  BY <1>1, <1>2, <1>3, <1>4, <1>5 DEF Ops

-----------------------------------------------------------------------------
\* What the operations do with the registrations.

LEMMA StateDo ==
  ASSUME NEW bk \in BookType, NEW op \in {"stop", "start", "restart"}, NEW n \in Names
  PROVE  Do(op, bk, n).state = bk.state
<1>1. Stop1(bk, n) \in BookType /\ Stop1(bk, n).state = bk.state
  BY Stop1Is
<1>2. Start1(bk, n).state = bk.state
  BY Start1Is
<1>3. Restart1(bk, n).state = bk.state
  BY <1>1, Start1Is DEF Restart1
<1> QED
  BY <1>1, <1>2, <1>3 DEF Do

\* A task is added to a name that is free only.
LEMMA StateAdd ==
  ASSUME NEW bk \in BookType, NEW t \in Tasks
  PROVE  LET c == Do("add", bk, t) IN
         \/ c.state = bk.state
         \/ ~ Rejected(bk, t) /\ c.state = [bk.state EXCEPT ![NameOf[t]] = t]
<1>1. NameOf[t] \in Names /\ Do("add", bk, t) = Add1(bk, t)
  BY SchedulerAssumption DEF Do
<1>2. CASE bk.threw \/ Rejected(bk, t)
  BY <1>1, <1>2, ThrowIs DEF Add1
<1>3. CASE ~ bk.threw /\ ~ Rejected(bk, t)
  <2> DEFINE s == SetTask(bk, NameOf[t], t)
  <2>1. s \in BookType /\ s.state = [bk.state EXCEPT ![NameOf[t]] = t]
    BY <1>1, SetTaskIs
  <2>2. Do("add", bk, t) = Start1(s, NameOf[t])
    BY <1>1, <1>3 DEF Add1
  <2> HIDE DEF s
  <2>3. Start1(s, NameOf[t]).state = s.state
    BY <1>1, <2>1, Start1Is
  <2> QED
    BY <1>3, <2>1, <2>2, <2>3
<1> QED
  BY <1>2, <1>3

LEMMA StateRemove ==
  ASSUME NEW bk \in BookType, NEW n \in Names
  PROVE  \/ Do("remove", bk, n).state = bk.state
         \/ Do("remove", bk, n).state = [bk.state EXCEPT ![n] = None]
<1> DEFINE s == Stop1(bk, n)
<1>1. s \in BookType /\ s.state = bk.state
  BY Stop1Is
<1>2. Do("remove", bk, n) = IF s.threw THEN s ELSE DeleteTask(s, n)
  BY DEF Do, Remove1
<1> HIDE DEF s
<1>3. DeleteTask(s, n).state = [s.state EXCEPT ![n] = None]
  BY <1>1, DeleteTaskIs
<1> QED
  BY <1>1, <1>2, <1>3

\* No operation gives two tasks one priority.
LEMMA ClashDo ==
  ASSUME NEW bk, Sound(bk), NEW op \in Ops, NEW x \in Elem(op)
  PROVE  Clash(Do(op, bk, x)) \subseteq Clash(bk)
<1> DEFINE c == Do(op, bk, x)
<1>1. bk \in BookType
  BY DEF Sound
<1>2. CASE c.state = bk.state
  BY <1>2 DEF Clash
<1>3. CASE x \in Names /\ c.state = [bk.state EXCEPT ![x] = None]
  <2>1. bk.state \in [Names -> Tasks \cup {None}]
    BY <1>1 DEF BookType
  <2> HIDE DEF c
  <2>2. \A n \in Names : c.state[n] = IF n = x THEN None ELSE bk.state[n]
    BY <1>3, <2>1
  <2>3. Clash(c) \subseteq Clash(bk)
    BY <2>2 DEF Clash
  <2> QED
    BY <2>3 DEF c
<1>4. CASE x \in Tasks /\ ~ Rejected(bk, x) /\ c.state = [bk.state EXCEPT ![NameOf[x]] = x]
  <2> DEFINE a == NameOf[x]
  <2>1. /\ bk.state \in [Names -> Tasks \cup {None}]
        /\ bk.state[a] = None /\ a \in Names /\ x # None
    BY <1>1, <1>4, SchedulerAssumption DEF BookType, Rejected
  <2>2. \A n \in Names : /\ Priority[x] >= 0 /\ bk.state[n] # None
                          => Priority[bk.state[n]] # Priority[x]
    BY <1>4 DEF Rejected
  <2>3. c.state = [bk.state EXCEPT ![a] = x]
    BY <1>4
  <2> HIDE DEF c, a
  <2>4. \A n \in Names : c.state[n] = IF n = a THEN x ELSE bk.state[n]
    BY <2>1, <2>3
  <2>5. ASSUME NEW p \in Clash(c) PROVE p \in Clash(bk)
    <3>1. /\ p \in Names \X Names /\ p[1] \in Names /\ p[2] \in Names /\ p[1] # p[2]
          /\ c.state[p[1]] # None /\ c.state[p[2]] # None
          /\ Priority[c.state[p[1]]] >= 0
          /\ Priority[c.state[p[1]]] = Priority[c.state[p[2]]]
      BY DEF Clash
    <3>2. p[1] # a
      BY <2>2, <2>4, <3>1
    <3>3. p[2] # a
      BY <2>2, <2>4, <3>1
    <3> QED
      BY <2>4, <3>1, <3>2, <3>3 DEF Clash
  <2> QED
    BY <2>5 DEF c
<1>5. CASE op = "add"
  BY <1>1, <1>2, <1>4, <1>5, StateAdd DEF Elem
<1>6. CASE op = "remove"
  BY <1>1, <1>2, <1>3, <1>6, StateRemove DEF Elem
<1>7. CASE op \in {"stop", "start", "restart"}
  BY <1>1, <1>2, <1>7, StateDo DEF Elem
<1> QED
  BY <1>5, <1>6, <1>7 DEF Ops

-----------------------------------------------------------------------------
\* What the operations do with the timers.

LEMMA OwnerOf ==
  ASSUME NEW bk, Sound(bk)
  PROVE  /\ bk.state \in [Names -> Tasks \cup {None}]
         /\ bk.object \in [Tasks -> Nat]
         /\ \A k \in bk.armed : k \in Nat /\ bk.owner[k] \in Tasks
                                /\ NameOf[bk.owner[k]] \in Names
<1>1. bk \in BookType
  BY DEF Sound
<1>2. /\ bk.state \in [Names -> Tasks \cup {None}]
      /\ bk.object \in [Tasks -> Nat]
      /\ bk.owner \in Seq(Tasks)
  BY <1>1 DEF BookType
<1>3. \A k \in bk.armed : k \in 1 .. Len(bk.owner)
  BY DEF Sound
<1>4. \A k \in bk.armed : k \in Nat /\ bk.owner[k] \in Tasks
  BY <1>2, <1>3
<1> QED
  BY <1>2, <1>4, SchedulerAssumption

\* A start puts out of reach the last timer of its task, and none that was
\* outdone comes back.
LEMMA LostStart ==
  ASSUME NEW bk, Sound(bk), NEW n \in Names
  PROVE  LET c == Start1(bk, n) IN
         /\ \A k \in Lost(c) :
              /\ k \in bk.armed
              /\ \/ k \in Lost(bk)
                 \/ k = bk.object[bk.state[n]] /\ bk.owner[k] = bk.state[n] /\ Outdone(c, k)
         /\ \A k \in bk.armed : Outdone(bk, k) => Outdone(c, k)
<1> DEFINE c == Start1(bk, n)
           t == bk.state[n]
           j == Len(bk.owner) + 1
<1>1. bk \in BookType /\ bk.owner \in Seq(Tasks)
  BY DEF Sound, BookType
<1>2. /\ c.state = bk.state
      /\ \/ c.object = bk.object /\ c.owner = bk.owner /\ c.armed = bk.armed
         \/ /\ t \in Tasks /\ c.object = [bk.object EXCEPT ![t] = j]
            /\ c.owner = Append(bk.owner, t) /\ c.armed = bk.armed \cup {j}
  BY <1>1, Start1Is
<1> HIDE DEF c
<1>3. CASE c.object = bk.object /\ c.owner = bk.owner /\ c.armed = bk.armed
  BY <1>2, <1>3 DEF Lost, Outdone, c
<1>4. CASE /\ t \in Tasks /\ c.object = [bk.object EXCEPT ![t] = j]
           /\ c.owner = Append(bk.owner, t) /\ c.armed = bk.armed \cup {j}
  <2>1. NameOf[t] = n
    BY <1>4, SchedulerAssumption DEF Sound
  <2>2. bk.armed \subseteq 1 .. Len(bk.owner) /\ bk.object \in [Tasks -> Nat]
    BY OwnerOf DEF Sound
  <2>3. c.owner[j] = t /\ \A k \in bk.armed : c.owner[k] = bk.owner[k] /\ k < j
    BY <1>4, <2>2
  <2>4. \A k \in bk.armed : bk.owner[k] \in Tasks
    BY OwnerOf
  <2>5. \A k \in bk.armed :
           c.object[bk.owner[k]] = IF bk.owner[k] = t THEN j ELSE bk.object[bk.owner[k]]
    BY <1>4, <2>2, <2>4
  <2>6. c.state[NameOf[c.owner[j]]] = c.owner[j] /\ c.object[c.owner[j]] = j
    BY <1>2, <1>4, <2>1, <2>2, <2>3
  <2> HIDE DEF j, t
  <2>7. ASSUME NEW k \in Lost(c)
        PROVE  /\ k \in bk.armed
               /\ k \in Lost(bk) \/ (k = bk.object[t] /\ bk.owner[k] = t /\ Outdone(c, k))
    <3>1. k \in bk.armed
      BY <1>4, <2>6 DEF Lost
    <3>2. CASE bk.owner[k] = t
      BY <1>2, <2>1, <2>3, <2>5, <3>1, <3>2 DEF Lost, Outdone, t
    <3>3. CASE bk.owner[k] # t
      BY <1>2, <2>3, <2>5, <3>1, <3>3 DEF Lost
    <3> QED
      BY <3>1, <3>2, <3>3
  <2>8. ASSUME NEW k \in bk.armed, Outdone(bk, k) PROVE Outdone(c, k)
    BY <1>2, <2>3, <2>5, <2>8 DEF Outdone
  <2> QED
    BY <2>7, <2>8 DEF c, t
<1> QED
  BY <1>2, <1>3, <1>4

\* An operation that is not a start puts none out of reach.
LEMMA LostDo ==
  ASSUME NEW bk, Sound(bk), NEW op \in Ops \ {"start"}, NEW x \in Elem(op)
  PROVE  Lost(Do(op, bk, x)) \subseteq Lost(bk)
<1>1. bk \in BookType
  BY DEF Sound
<1>2. ASSUME NEW n \in Names PROVE Lost(Stop1(bk, n)) \subseteq Lost(bk)
  BY <1>1, Stop1Is DEF Lost
<1>3. CASE op = "add"
  <2>1. x \in Tasks /\ NameOf[x] \in Names /\ Do(op, bk, x) = Add1(bk, x)
    BY <1>3, SchedulerAssumption DEF Elem, Do
  <2>2. CASE bk.threw \/ Rejected(bk, x)
    BY <1>1, <2>1, <2>2, ThrowIs DEF Add1, Lost
  <2>3. CASE ~ bk.threw /\ ~ Rejected(bk, x)
    <3> DEFINE n == NameOf[x]
               s == SetTask(bk, n, x)
               c == Start1(s, n)
    <3>1. /\ Sound(s) /\ s.state = [bk.state EXCEPT ![n] = x]
          /\ s.object = bk.object /\ s.owner = bk.owner /\ s.armed = bk.armed
      <4>1. Sound(s)
        BY <2>1, SoundSet
      <4> HIDE DEF n
      <4>2. n \in Names /\ x \in Tasks
        BY <2>1 DEF n
      <4>3. s.state = [bk.state EXCEPT ![n] = x]
        BY <1>1, <4>2, SetTaskIs
      <4>4. s.object = bk.object /\ s.owner = bk.owner /\ s.armed = bk.armed
        BY <1>1, <4>2, SetTaskIs
      <4> QED
        BY <4>1, <4>3, <4>4
    <3>2. bk.state[n] = None /\ n \in Names /\ Do(op, bk, x) = c
      BY <2>1, <2>3 DEF Rejected, Add1
    <3>3. /\ bk.state \in [Names -> Tasks \cup {None}] /\ None \notin Tasks
          /\ \A k \in bk.armed : bk.owner[k] \in Tasks
      BY OwnerOf, SchedulerAssumption
    <3> HIDE DEF s, n
    <3>4. s.state[n] = x
      BY <3>1, <3>2, <3>3
    <3>5. \A k \in Lost(c) : /\ k \in s.armed
                             /\ k \in Lost(s) \/ s.owner[k] = x
      <4>1. Sound(s) /\ n \in Names
        BY <3>1, <3>2
      <4>2. \A k \in Lost(c) : /\ k \in s.armed
                               /\ k \in Lost(s) \/ s.owner[k] = s.state[n]
        BY <4>1, LostStart
      <4> QED
        BY <3>4, <4>2
    <3> HIDE DEF c
    <3>6. ASSUME NEW k \in Lost(c) PROVE k \in Lost(bk)
      <4>1. k \in bk.armed /\ bk.owner[k] # None
        BY <3>1, <3>3, <3>5
      <4>2. CASE NameOf[bk.owner[k]] = n
        BY <3>2, <4>1, <4>2 DEF Lost
      <4>3. CASE NameOf[bk.owner[k]] # n
        <5>1. k \in Lost(s)
          BY <3>1, <3>5, <4>3 DEF n
        <5> QED
          BY <3>1, <3>3, <4>1, <4>3, <5>1 DEF Lost
      <4> QED
        BY <4>2, <4>3
    <3> QED
      BY <3>2, <3>6
  <2> QED
    BY <2>2, <2>3
<1>4. CASE op = "remove"
  <2> DEFINE s == Stop1(bk, x)
  <2>1. x \in Names /\ Do(op, bk, x) = IF s.threw THEN s ELSE DeleteTask(s, x)
    BY <1>4 DEF Elem, Do, Remove1
  <2>2. /\ s \in BookType /\ s.state = bk.state
        /\ s.object = bk.object /\ s.owner = bk.owner /\ s.armed \subseteq bk.armed
        /\ ~ s.threw => s.armed = bk.armed \ {bk.object[bk.state[x]]}
    BY <1>1, <2>1, Stop1Is
  <2>3. Lost(s) \subseteq Lost(bk)
    BY <1>2, <2>1
  <2> HIDE DEF s
  <2>4. CASE ~ s.threw
    <3> DEFINE c == DeleteTask(s, x)
    <3>1. /\ c.state = [bk.state EXCEPT ![x] = None]
          /\ c.object = bk.object /\ c.owner = bk.owner
          /\ c.armed = bk.armed \ {bk.object[bk.state[x]]}
      <4>1. /\ c.state = [s.state EXCEPT ![x] = None]
            /\ c.object = s.object /\ c.owner = s.owner /\ c.armed = s.armed
        BY <2>1, <2>2, DeleteTaskIs
      <4> HIDE DEF c
      <4> QED
        BY <2>2, <2>4, <4>1
    <3>2. Do(op, bk, x) = c /\ x \in Names
      BY <2>1, <2>4
    <3> HIDE DEF c
    <3>3. ASSUME NEW k \in Lost(c) PROVE k \in Lost(bk)
      <4>1. k \in bk.armed /\ k # bk.object[bk.state[x]]
        BY <3>1 DEF Lost
      <4>2. NameOf[bk.owner[k]] = x => k \in Lost(bk)
        BY <4>1 DEF Lost
      <4>3. NameOf[bk.owner[k]] # x => k \in Lost(bk)
        BY <3>1, <4>1, OwnerOf DEF Lost
      <4> QED
        BY <4>2, <4>3
    <3> QED
      BY <3>2, <3>3
  <2> QED
    BY <2>1, <2>3, <2>4
<1>5. CASE op = "stop"
  BY <1>2, <1>5 DEF Elem, Do
<1>6. CASE op = "restart"
  <2> DEFINE s == Stop1(bk, x)
  <2>1. x \in Names /\ Do(op, bk, x) = Start1(s, x)
    BY <1>6 DEF Elem, Do, Restart1
  <2>2. Sound(s) /\ Lost(s) \subseteq Lost(bk)
    BY <1>2, <2>1, SoundStop
  <2>3. ~ s.threw => s.object[s.state[x]] \notin s.armed
    BY <1>1, <2>1, Stop1Is
  <2> HIDE DEF s
  <2>4. CASE s.threw
    BY <2>1, <2>2, <2>4 DEF Start1
  <2>5. CASE ~ s.threw
    BY <2>1, <2>2, <2>3, <2>5, LostStart
  <2> QED
    BY <2>4, <2>5
<1> QED
  BY <1>3, <1>4, <1>5, <1>6 DEF Ops

-----------------------------------------------------------------------------
\* What a batch does, from what each of its steps does.

LEMMA EachKeeps ==
  ASSUME NEW op \in Ops, NEW xs \in Seq(Elem(op)), Sound(Book)
  PROVE  Sound(Each(op, xs)) /\ Clash(Each(op, xs)) \subseteq Clash(Book)
<1>1. PICK g : /\ g[0] = Book
               /\ \A i \in 1 .. Len(xs) : g[i] = Do(op, g[i - 1], xs[i])
               /\ Each(op, xs) = g[Len(xs)]
  BY EachIs
<1> DEFINE P(i) == Sound(g[i]) /\ Clash(g[i]) \subseteq Clash(Book)
           S == {i \in Nat : i <= Len(xs) => P(i)}
<1>2. 0 \in S
  BY <1>1
<1>3. ASSUME NEW i \in S PROVE i + 1 \in S
  <2> SUFFICES ASSUME i + 1 <= Len(xs) PROVE P(i + 1)
    OBVIOUS
  <2>1. P(i) /\ xs[i + 1] \in Elem(op) /\ g[i + 1] = Do(op, g[i], xs[i + 1])
    BY <1>1
  <2> QED
    BY <2>1, SoundDo, ClashDo
<1>4. S = Nat
  BY <1>2, <1>3, NatInductive
<1>5. P(Len(xs))
  BY <1>4
<1> QED
  BY <1>1, <1>5

LEMMA LostEach ==
  ASSUME NEW op \in Ops, NEW xs \in Seq(Elem(op)), Sound(Book)
  PROVE  LET c == Each(op, xs) IN
         \A k \in Lost(c) : k \in Lost(Book) \/ (op = "start" /\ Outdone(c, k))
<1>1. PICK g : /\ g[0] = Book
               /\ \A i \in 1 .. Len(xs) : g[i] = Do(op, g[i - 1], xs[i])
               /\ Each(op, xs) = g[Len(xs)]
  BY EachIs
<1> DEFINE P(i) == /\ Sound(g[i])
                   /\ \A k \in Lost(g[i]) :
                        k \in Lost(Book) \/ (op = "start" /\ Outdone(g[i], k))
           S == {i \in Nat : i <= Len(xs) => P(i)}
<1>2. 0 \in S
  BY <1>1
<1>3. ASSUME NEW i \in S PROVE i + 1 \in S
  <2> SUFFICES ASSUME i + 1 <= Len(xs) PROVE P(i + 1)
    OBVIOUS
  <2> DEFINE x == xs[i + 1]
             b == g[i]
             c == g[i + 1]
  <2>1. P(i) /\ x \in Elem(op) /\ c = Do(op, b, x)
    BY <1>1
  <2> HIDE DEF x, b, c
  <2>2. Sound(b) /\ Sound(c)
    BY <2>1, SoundDo DEF b
  <2>3. ASSUME NEW k \in Lost(c)
        PROVE  k \in Lost(b) \/ (op = "start" /\ Outdone(c, k))
    <3>1. CASE op = "start"
      <4>1. x \in Names /\ c = Start1(b, x)
        BY <2>1, <3>1 DEF Elem, Do
      <4> QED
        BY <2>2, <3>1, <4>1, LostStart
    <3>2. CASE op # "start"
      BY <2>1, <2>2, <3>2, LostDo
    <3> QED
      BY <3>1, <3>2
  <2>4. ASSUME op = "start", NEW k \in Lost(b), Outdone(b, k) PROVE Outdone(c, k)
    <3>1. x \in Names /\ c = Start1(b, x) /\ k \in b.armed
      BY <2>1, <2>4 DEF Elem, Do, Lost
    <3> QED
      BY <2>2, <2>4, <3>1, LostStart
  <2>5. \A k \in Lost(b) : k \in Lost(Book) \/ (op = "start" /\ Outdone(b, k))
    BY <2>1 DEF b
  <2> QED
    BY <2>2, <2>3, <2>4, <2>5 DEF c
<1>4. S = Nat
  BY <1>2, <1>3, NatInductive
<1>5. P(Len(xs))
  BY <1>4
<1> QED
  BY <1>1, <1>5

LEMMA CommitKeeps ==
  ASSUME NEW bk, Sound(bk), Commit(bk)
  PROVE  Sound(Book)' /\ (Len(owner) <= MaxTimers)'
<1>1. bk \in BookType
  BY DEF Sound
<1>2. (Book \in BookType)'
  BY <1>1 DEF BookType, Commit, Book
<1>3. /\ Book'.state = bk.state /\ Book'.subject = bk.subject
      /\ Book'.object = bk.object /\ Book'.owner = bk.owner
      /\ Book'.armed = bk.armed
  BY DEF Commit, Book
<1>4. Sound(Book')
  BY <1>2, <1>3 DEF Sound
<1> QED
  BY <1>4 DEF Commit

-----------------------------------------------------------------------------
\* IInv is inductive.

LEMMA BoundsNat == Batches \in Nat /\ MaxTimers \in Nat /\ MaxRuns \in Nat
BY SchedulerAssumption

LEMMA InitIInv == Init => IInv
<1> SUFFICES ASSUME Init PROVE IInv
  OBVIOUS
<1>1. Book \in BookType
  BY DEF Init, Book, BookType
<1>2. Sound(Book)
  BY <1>1 DEF Sound, Init, Book
<1>3. Len(owner) <= MaxTimers /\ RunsRight
  BY BoundsNat DEF Init, RunsRight
<1> QED
  BY <1>2, <1>3 DEF IInv

LEMMA ListOf ==
  ASSUME NEW X, NEW xs \in Lists(X)
  PROVE  xs \in Seq(X)
<1>1. PICK m \in 1 .. Batches : xs \in [1 .. m -> X]
  BY DEF Lists
<1> QED
  BY <1>1

LEMMA BatchKeeps ==
  ASSUME IInv, NEW op \in Ops, NEW xs \in Seq(Elem(op)),
         Commit(Each(op, xs)), UNCHANGED <<runs, runCtr>>
  PROVE  IInv'
<1>1. Sound(Each(op, xs))
  BY EachKeeps DEF IInv
<1>2. Sound(Book)' /\ (Len(owner) <= MaxTimers)'
  BY <1>1, CommitKeeps
<1>3. RunsRight'
  BY DEF IInv, RunsRight
<1> QED
  BY <1>2, <1>3 DEF IInv

\* A step that leaves the registrations alone and starts no timer.
LEMMA ArmedShrinks ==
  ASSUME Sound(Book), UNCHANGED <<state, subject, object, owner>>, armed' \subseteq armed
  PROVE  Sound(Book)'
<1>1. /\ Book'.state = Book.state /\ Book'.subject = Book.subject
      /\ Book'.object = Book.object /\ Book'.owner = Book.owner
      /\ Book'.armed \subseteq Book.armed
  BY DEF Book
<1>2. (Book \in BookType)'
  BY DEF Sound, BookType, Book
<1> QED
  BY <1>1, <1>2 DEF Sound

LEMMA FireKeeps ==
  ASSUME IInv, NEW k \in armed, Fire(k)
  PROVE  IInv'
<1> DEFINE n == NameOf[owner[k]]
           r == [id |-> runCtr + 1, name |-> n, phase |-> "fn", current |-> None]
<1>1. UNCHANGED <<state, subject, object, owner>> /\ armed' \subseteq armed
  BY DEF Fire
<1>2. n \in Names
  <2>1. \A j \in Book.armed : NameOf[Book.owner[j]] \in Names
    BY OwnerOf DEF IInv
  <2> QED
    BY <2>1 DEF Book
<1>3. \/ UNCHANGED <<runs, runCtr>>
      \/ /\ state[n] # None /\ runCtr < MaxRuns /\ runCtr' = runCtr + 1
         /\ runs' = runs \cup {r}
  BY DEF Fire
<1>4. RunsRight'
  <2>1. runCtr < MaxRuns => r \in Run
    <3>1. runCtr \in 0 .. MaxRuns
      BY DEF IInv, RunsRight
    <3>2. runCtr < MaxRuns => runCtr + 1 \in 1 .. MaxRuns
      BY <3>1, BoundsNat
    <3> HIDE DEF n
    <3> QED
      BY <1>2, <3>2 DEF Run
  <2>2. r.phase = "fn"
    OBVIOUS
  <2> HIDE DEF r
  <2>3. (runCtr \in 0 .. MaxRuns)'
    <3>1. runCtr \in 0 .. MaxRuns
      BY DEF IInv, RunsRight
    <3> QED
      BY <1>3, <3>1, BoundsNat
  <2>4. (runs \subseteq Run)'
    BY <1>3, <2>1 DEF IInv, RunsRight
  <2>5. \A q \in runs' : q.phase = "resolve" => q \in runs
    BY <1>3, <2>2
  <2> QED
    BY <2>3, <2>4, <2>5 DEF IInv, RunsRight
<1> QED
  BY <1>1, <1>4, ArmedShrinks DEF IInv

LEMMA FnEndsKeeps ==
  ASSUME IInv, NEW r \in runs, FnEnds(r)
  PROVE  IInv'
<1>1. UNCHANGED <<state, subject, object, owner, armed, runCtr>> /\ runs' \subseteq runs
  BY DEF FnEnds, bookVars
<1>2. RunsRight'
  BY <1>1 DEF IInv, RunsRight
<1> QED
  BY <1>1, <1>2, ArmedShrinks DEF IInv

LEMMA FnReturnsKeeps ==
  ASSUME IInv, NEW r \in runs, FnReturns(r)
  PROVE  IInv'
<1> DEFINE q == [r EXCEPT !.phase = "resolve", !.current = state[r.name]]
<1>1. /\ UNCHANGED <<state, subject, object, owner, armed, runCtr>>
      /\ runs' = (runs \ {r}) \cup {q} /\ state[r.name] # None
  BY DEF FnReturns, bookVars
<1>2. r \in Run /\ state \in [Names -> Tasks \cup {None}]
  BY DEF IInv, RunsRight, Sound, BookType, Book
<1>3. /\ r.name \in Names /\ state[r.name] \in Tasks
      /\ NameOf[state[r.name]] = r.name
  BY <1>1, <1>2 DEF IInv, Sound, Book, Run
<1>4. q \in Run /\ q.name = r.name /\ q.phase = "resolve" /\ q.current = state[r.name]
  BY <1>2 DEF Run
<1> HIDE DEF q
<1>5. RunsRight'
  BY <1>1, <1>3, <1>4 DEF IInv, RunsRight
<1> QED
  BY <1>1, <1>5, ArmedShrinks DEF IInv

\* What a callback writes back is a task of the name.
LEMMA ResolvedKeeps ==
  ASSUME IInv, NEW r \in runs, Resolved(r)
  PROVE  IInv'
<1> DEFINE c == SetTask(Book, r.name, r.current)
<1>1. r.current \in Tasks /\ NameOf[r.current] = r.name /\ Sound(Book)
  BY DEF Resolved, IInv, RunsRight
<1>2. Sound(c)
  BY <1>1, SoundSet
<1>3. Commit(c) /\ runs' = runs \ {r} /\ runCtr' = runCtr
  BY DEF Resolved
<1> HIDE DEF c
<1>4. Sound(Book)' /\ (Len(owner) <= MaxTimers)'
  BY <1>2, <1>3, CommitKeeps
<1>5. RunsRight'
  BY <1>3 DEF IInv, RunsRight
<1> QED
  BY <1>4, <1>5 DEF IInv

LEMMA NextIInv ==
  ASSUME IInv, [Next]_vars
  PROVE  IInv'
<1>1. ASSUME NEW ts \in Lists(Tasks), AddTasks(ts) PROVE IInv'
  <2>1. ts \in Seq(Elem("add"))
    BY ListOf DEF Elem
  <2> QED
    BY <1>1, <2>1, BatchKeeps DEF AddTasks, Ops
<1>2. ASSUME NEW ns \in Lists(Names), RemoveTasks(ns) PROVE IInv'
  <2>1. ns \in Seq(Elem("remove"))
    BY ListOf DEF Elem
  <2> QED
    BY <1>2, <2>1, BatchKeeps DEF RemoveTasks, Ops
<1>3. ASSUME NEW ns \in Lists(Names), StopTasks(ns) PROVE IInv'
  <2>1. ns \in Seq(Elem("stop"))
    BY ListOf DEF Elem
  <2> QED
    BY <1>3, <2>1, BatchKeeps DEF StopTasks, Ops
<1>4. ASSUME NEW ns \in Lists(Names), StartTasks(ns) PROVE IInv'
  <2>1. ns \in Seq(Elem("start"))
    BY ListOf DEF Elem
  <2> QED
    BY <1>4, <2>1, BatchKeeps DEF StartTasks, Ops
<1>5. ASSUME NEW ns \in Lists(Names), RestartTasks(ns) PROVE IInv'
  <2>1. ns \in Seq(Elem("restart"))
    BY ListOf DEF Elem
  <2> QED
    BY <1>5, <2>1, BatchKeeps DEF RestartTasks, Ops
<1>6. ASSUME NEW n \in Names, SubscribeToTask(n) PROVE IInv'
  <2>1. /\ UNCHANGED <<state, object, owner, armed, runs, runCtr>>
        /\ subject[n] = <<>> /\ subject' = [subject EXCEPT ![n] = <<state[n]>>]
    BY <1>6 DEF SubscribeToTask
  <2>2. /\ state \in [Names -> Tasks \cup {None}]
        /\ subject \in [Names -> Seq(Tasks \cup {None})]
    BY DEF IInv, Sound, BookType, Book
  <2>3. subject' \in [Names -> Seq(Tasks \cup {None})]
    BY <2>1, <2>2
  <2>4. (Book \in BookType)'
    BY <2>1, <2>3 DEF IInv, Sound, BookType, Book
  <2>5. \A m \in Names : state[m] # None => subject'[m] = <<state[m]>>
    BY <2>1, <2>2 DEF IInv, Sound, Book
  <2>6. Sound(Book)'
    BY <2>1, <2>4, <2>5 DEF IInv, Sound, Book
  <2>7. RunsRight'
    BY <2>1 DEF IInv, RunsRight
  <2> QED
    BY <2>1, <2>6, <2>7 DEF IInv
<1>7. CASE UNCHANGED vars
  <2>1. UNCHANGED <<state, subject, object, owner, armed, runs, runCtr>>
    BY <1>7 DEF vars
  <2>2. RunsRight'
    BY <2>1 DEF IInv, RunsRight
  <2> QED
    BY <2>1, <2>2, ArmedShrinks DEF IInv
<1> QED
  BY <1>1, <1>2, <1>3, <1>4, <1>5, <1>6, <1>7, FireKeeps, FnEndsKeeps, FnReturnsKeeps,
     ResolvedKeeps DEF Next, Operation, Callback

LEMMA Inductive == Spec => []IInv
<1>1. IInv /\ [Next]_vars => IInv'
  BY NextIInv
<1> QED
  BY InitIInv, <1>1, PTL DEF Spec

-----------------------------------------------------------------------------
\* The types of the tables, whatever the callers do.
THEOREM TypeCorrect == Spec => []TypeOK
<1>1. IInv => TypeOK
  <2> SUFFICES ASSUME IInv PROVE TypeOK
    OBVIOUS
  <2>1. /\ state \in [Names -> Tasks \cup {None}]
        /\ subject \in [Names -> Seq(Tasks \cup {None})]
        /\ object \in [Tasks -> Nat] /\ owner \in Seq(Tasks)
        /\ armed \subseteq DOMAIN owner
        /\ \A t \in Tasks : object[t] <= Len(owner)
    BY DEF IInv, Sound, BookType, Book
  <2>2. Len(owner) <= MaxTimers
    BY DEF IInv
  <2>3. object \in [Tasks -> 0 .. MaxTimers]
    BY <2>1, <2>2, BoundsNat
  <2> QED
    BY <2>1, <2>3 DEF TypeOK, IInv, RunsRight
<1> QED
  BY <1>1, Inductive, PTL

\* A subject holds what the state holds, whatever the callers do
\* (scheduler-state.service.ts:15-43).
THEOREM SubjectsMirror == Spec => []SubjectMirrors
<1>1. IInv => SubjectMirrors
  BY DEF IInv, Sound, Book, SubjectMirrors
<1> QED
  BY <1>1, Inductive, PTL

-----------------------------------------------------------------------------
\* The theorems about the steps.

\* A batch that is not a start puts no timer out of reach, and one that is,
\* only timers whose task was started again.
LEMMA BatchLoses ==
  ASSUME IInv, NEW op \in Ops, NEW xs \in Seq(Elem(op)), Commit(Each(op, xs)),
         NEW k \in Orphans' \ Orphans
  PROVE  op = "start" /\ state'[NameOf[owner'[k]]] = owner'[k] /\ object'[owner'[k]] > k
<1> DEFINE c == Each(op, xs)
<1>1. Sound(Book)
  BY DEF IInv
<1>2. \A j \in Lost(c) : j \in Lost(Book) \/ (op = "start" /\ Outdone(c, j))
  BY <1>1, LostEach
<1>3. /\ state' = c.state /\ object' = c.object /\ owner' = c.owner
      /\ armed' = c.armed
  BY DEF Commit
<1> HIDE DEF c
<1>4. Lost(Book) = Orphans /\ Lost(c) = Orphans'
  BY <1>3 DEF Lost, Orphans, Book
<1> QED
  BY <1>2, <1>3, <1>4 DEF Outdone

LEMMA CommitSet ==
  ASSUME NEW bk \in BookType, NEW n \in Names, NEW t \in Tasks, Commit(SetTask(bk, n, t))
  PROVE  /\ state' = [bk.state EXCEPT ![n] = t]
         /\ object' = bk.object /\ owner' = bk.owner /\ armed' = bk.armed
<1> DEFINE c == SetTask(bk, n, t)
<1>1. c.state = [bk.state EXCEPT ![n] = t]
  BY SetTaskIs
<1>2. c.object = bk.object /\ c.owner = bk.owner /\ c.armed = bk.armed
  BY SetTaskIs
<1>3. /\ state' = c.state /\ object' = c.object
      /\ owner' = c.owner /\ armed' = c.armed
  BY DEF Commit
<1> HIDE DEF c
<1> QED
  BY <1>1, <1>2, <1>3

\* The end of a callback writes one registration and nothing of the timers.
LEMMA WritesBack ==
  ASSUME IInv, NEW r \in runs, Resolved(r)
  PROVE  /\ state' = [state EXCEPT ![r.name] = r.current]
         /\ object' = object /\ owner' = owner /\ armed' = armed
<1>1. r.current \in Tasks /\ NameOf[r.current] = r.name /\ Book \in BookType
  BY DEF Resolved, IInv, RunsRight, Sound
<1>2. r.name \in Names
  BY <1>1, SchedulerAssumption
<1>3. Commit(SetTask(Book, r.name, r.current))
  BY DEF Resolved
<1>4. /\ Book.state = state /\ Book.object = object
      /\ Book.owner = owner /\ Book.armed = armed
  BY DEF Book
<1>5. /\ state' = [Book.state EXCEPT ![r.name] = r.current]
      /\ object' = Book.object /\ owner' = Book.owner /\ armed' = Book.armed
  BY <1>1, <1>2, <1>3, CommitSet
<1> QED
  BY <1>4, <1>5

\* Two tasks come to have one priority only where a callback writes back a
\* task that lost its name while the callback waited
\* (schedulers/common/utils.ts:12-16, scheduler.service.ts:201-206).
THEOREM ClashesAreExplained == Spec => ClashesExplained
<1>1. IInv /\ [Next]_vars =>
        [\A p \in Clashes' \ Clashes :
           \E r \in runs : /\ Resolved(r)
                           /\ r.name \in {p[1], p[2]}
                           /\ state[r.name] # r.current]_vars
  <2> SUFFICES ASSUME IInv, Next, NEW p \in Clashes' \ Clashes
               PROVE  \E r \in runs : /\ Resolved(r)
                                      /\ r.name \in {p[1], p[2]}
                                      /\ state[r.name] # r.current
    OBVIOUS
  <2>1. ASSUME state' = state PROVE FALSE
    BY <2>1 DEF Clashes
  <2>2. ASSUME NEW op \in Ops, NEW xs \in Seq(Elem(op)), Commit(Each(op, xs)) PROVE FALSE
    <3> DEFINE c == Each(op, xs)
    <3>1. Clash(c) \subseteq Clash(Book)
      BY EachKeeps DEF IInv
    <3>2. state' = c.state
      BY <2>2 DEF Commit
    <3> HIDE DEF c
    <3>3. Clash(Book) = Clashes /\ Clash(c) = Clashes'
      BY <3>2 DEF Clash, Clashes, Book
    <3> QED
      BY <3>1, <3>3
  <2>3. ASSUME NEW ts \in Lists(Tasks), AddTasks(ts) PROVE FALSE
    <3>1. ts \in Seq(Elem("add"))
      BY ListOf DEF Elem
    <3> QED
      BY <2>2, <2>3, <3>1 DEF AddTasks, Ops
  <2>4. ASSUME NEW ns \in Lists(Names),
               RemoveTasks(ns) \/ StopTasks(ns) \/ StartTasks(ns) \/ RestartTasks(ns)
        PROVE  FALSE
    <3>1. \A op \in Ops \ {"add"} : ns \in Seq(Elem(op))
      BY ListOf DEF Elem
    <3>2. \E op \in Ops \ {"add"} : Commit(Each(op, ns))
      BY <2>4 DEF RemoveTasks, StopTasks, StartTasks, RestartTasks, Ops
    <3> QED
      BY <2>2, <3>1, <3>2
  <2>5. ASSUME NEW r \in runs, Resolved(r)
        PROVE  r.name \in {p[1], p[2]} /\ state[r.name] # r.current
    <3>1. state' = [state EXCEPT ![r.name] = r.current]
      BY <2>5, WritesBack
    <3>2. state \in [Names -> Tasks \cup {None}]
      BY DEF IInv, Sound, Book, BookType
    <3>3. \A n \in Names : n # r.name => state'[n] = state[n]
      BY <3>1, <3>2
    <3>4. state[r.name] # r.current
      BY <2>1, <3>1, <3>2
    <3>5. r.name \in {p[1], p[2]}
      <4>1. ASSUME p[1] # r.name, p[2] # r.name PROVE FALSE
        BY <3>3, <4>1 DEF Clashes
      <4> QED
        BY <4>1
    <3> QED
      BY <3>4, <3>5
  <2>6. ASSUME NEW k \in armed, Fire(k) PROVE FALSE
    BY <2>1, <2>6 DEF Fire
  <2>7. ASSUME NEW r \in runs, FnEnds(r) \/ FnReturns(r) PROVE FALSE
    BY <2>1, <2>7 DEF FnEnds, FnReturns, bookVars
  <2>8. ASSUME NEW n \in Names, SubscribeToTask(n) PROVE FALSE
    BY <2>1, <2>8 DEF SubscribeToTask
  <2> QED
    BY <2>3, <2>4, <2>5, <2>6, <2>7, <2>8 DEF Next, Operation, Callback
<1> QED
  BY <1>1, Inductive, PTL DEF Spec, ClashesExplained

\* Whatever the callers do: a timer gets out of reach only where its task is
\* started while it runs, or where a callback writes another task over its own
\* (scheduler.service.ts:41-182, 201-206).
THEOREM OrphansAreExplained == Spec => OrphansExplained
<1>1. IInv /\ [Next]_vars =>
        [\A k \in Orphans' \ Orphans : StartedOver(k) \/ Displaced(k)]_vars
  <2> SUFFICES ASSUME IInv, Next, NEW k \in Orphans' \ Orphans
               PROVE  StartedOver(k) \/ Displaced(k)
    OBVIOUS
  <2>1. ASSUME UNCHANGED <<state, object, owner>>, armed' \subseteq armed PROVE FALSE
    BY <2>1 DEF Orphans
  <2>2. ASSUME NEW ts \in Lists(Tasks), AddTasks(ts) PROVE FALSE
    <3>1. ts \in Seq(Elem("add"))
      BY ListOf DEF Elem
    <3> QED
      BY <2>2, <3>1, BatchLoses DEF AddTasks, Ops
  <2>3. ASSUME NEW ns \in Lists(Names), RemoveTasks(ns) \/ StopTasks(ns) \/ RestartTasks(ns)
        PROVE  FALSE
    <3>1. \A op \in Ops \ {"add"} : ns \in Seq(Elem(op))
      BY ListOf DEF Elem
    <3>2. \E op \in Ops \ {"add", "start"} : Commit(Each(op, ns))
      BY <2>3 DEF RemoveTasks, StopTasks, RestartTasks, Ops
    <3> QED
      BY <3>1, <3>2, BatchLoses
  <2>4. ASSUME NEW ns \in Lists(Names), StartTasks(ns) PROVE StartedOver(k)
    <3>1. ns \in Seq(Elem("start"))
      BY ListOf DEF Elem
    <3>2. state'[NameOf[owner'[k]]] = owner'[k] /\ object'[owner'[k]] > k
      BY <2>4, <3>1, BatchLoses DEF StartTasks, Ops
    <3> QED
      BY <2>4, <3>2 DEF StartedOver
  <2>5. ASSUME NEW r \in runs, Resolved(r) PROVE Displaced(k)
    <3>1. /\ state' = [state EXCEPT ![r.name] = r.current]
          /\ object' = object /\ owner' = owner /\ armed' = armed
      BY <2>5, WritesBack
    <3>2. state[NameOf[owner[k]]] = owner[k] /\ state'[NameOf[owner[k]]] # owner[k]
      BY <3>1 DEF Orphans
    <3>3. NameOf[owner[k]] = r.name /\ r.current # owner[k]
      <4>1. state \in [Names -> Tasks \cup {None}]
        BY DEF IInv, Sound, Book, BookType
      <4> QED
        BY <3>1, <3>2, <4>1
    <3> QED
      BY <2>5, <3>2, <3>3 DEF Displaced
  <2>6. ASSUME NEW j \in armed, Fire(j) PROVE FALSE
    BY <2>1, <2>6 DEF Fire
  <2>7. ASSUME NEW r \in runs, FnEnds(r) \/ FnReturns(r) PROVE FALSE
    BY <2>1, <2>7 DEF FnEnds, FnReturns, bookVars
  <2>8. ASSUME NEW n \in Names, SubscribeToTask(n) PROVE FALSE
    BY <2>1, <2>8 DEF SubscribeToTask
  <2> QED
    BY <2>2, <2>3, <2>4, <2>5, <2>6, <2>7, <2>8 DEF Next, Operation, Callback
<1> QED
  BY <1>1, Inductive, PTL DEF Spec, OrphansExplained

=============================================================================
