------------------------- MODULE SetupToolsProofs -------------------------
(***************************************************************************)
(* What holds of every mix of tools, interruptions and servos of           *)
(* SetupTools: a program keeps, from any place in it, what the rest of it  *)
(* relies on.                                                              *)
(***************************************************************************)
EXTENDS SetupTools, WellFoundedInduction, TLAPS

----------------------------------------------------------------------------
(* Programs, place by place.                                               *)

IsProg(p) == p \in Seq({p[k] : k \in 1 .. Len(p)})
Places(p) == 1 .. Len(p)

IsWrite(p, k, i, reg, val) ==
  k \in Places(p) /\ p[k].do = "write" /\ p[k].id = i /\ p[k].reg = reg /\ p[k].val = val

PowersOn(p, k, i)  == IsWrite(p, k, i, "torque", TRUE)
PowersOff(p, k, i) == IsWrite(p, k, i, "torque", FALSE)
LocksOn(p, k, i)   == IsWrite(p, k, i, "lock", TRUE)
LocksOff(p, k, i)  == IsWrite(p, k, i, "lock", FALSE)
IsDo(p, k, what)   == k \in Places(p) /\ p[k].do = what

Settings == {"prot", "cap", "low", "high"}
IsSetting(p, k) == p[k].do = "write" /\ p[k].reg \in Settings

\* What is done behind an error: the torque goes off, the lock on, the bus is closed.
Quiet(p) ==
  /\ IsProg(p)
  /\ \A k \in Places(p) :
       /\ \/ p[k].do \in {"off", "close"}
          \/ p[k].do = "write" /\ p[k].reg = "lock" /\ p[k].val \in BOOLEAN
          \/ p[k].do = "write" /\ p[k].reg = "torque" /\ p[k].val = FALSE
       /\ p[k].do = "close" => k = Len(p)
       /\ LocksOff(p, k, p[k].id) => PowersOff(p, k - 1, p[k].id)

Falls1(p) == Quiet(p) /\ \A k \in Places(p) : p[k].fail = <<>>
Falls2(p) == Quiet(p) /\ \A k \in Places(p) : Falls1(p[k].fail)
Falls3(p) == Quiet(p) /\ \A k \in Places(p) : Falls2(p[k].fail)

\* What each operation is, wherever it stands.
Fits(reg, val) ==
  \/ reg = "id" /\ val \in Ids
  \/ reg = "baud" /\ val \in Speeds
  \/ reg \in {"lock", "torque"} /\ val \in BOOLEAN
  \/ reg \in Settings /\ val = TRUE

Sound(p) ==
  /\ IsProg(p)
  /\ \A k \in Places(p) :
       /\ Falls3(p[k].fail)
       /\ p[k].do = "write" => Fits(p[k].reg, p[k].val)
       /\ p[k].do = "open" => p[k].val \in Speeds /\ p[k].fail \in {<<>>, Close}
       /\ p[k].do = "close" /\ k # Len(p) => p[k + 1].do = "open"

----------------------------------------------------------------------------
(* Locks.                                                                  *)

\* Behind place k the motor i is locked again, whatever raises in between.
Mends(p, k, i) ==
  \E m \in Places(p) :
    /\ m > k
    /\ LocksOn(p, m, i)
    /\ \A j \in k + 1 .. m - 1 : IsSetting(p, j) /\ LocksOn(p[j].fail, 1, i)

\* From place k on the motor with the id i is renamed and locked.
Renames(p, k, i) ==
  \/ LocksOn(p, k, i)
  \/ \E n \in Ids : IsWrite(p, k, i, "id", n) /\ LocksOn(p, k + 1, n)

\* The same behind a change of its speed, for which the bus is opened anew.
Reopens(p, k, b)   == IsDo(p, k, "open") /\ p[k].val = b
Moves(p, k, i) ==
  \E b \in Speeds : /\ IsWrite(p, k, i, "baud", b)
                    /\ IsDo(p, k + 1, "close")
                    /\ Reopens(p, k + 2, b)
                    /\ Renames(p, k + 3, i)

Renaming(t) == tool[t].name \in {"set_id", "setup"}

\* What holds of every motor that hears the terminal's tool, as long as it has the bus.
Has(t, i, reg)   == holder = t /\ \A s \in Hear(t, i) : servo[s][reg]
Lacks(t, i, reg) == holder = t /\ \A s \in Hear(t, i) : ~servo[s][reg]

\* A motor is only unlocked when it is off, or to be locked again.
Relocks(t, p) ==
  \A k \in Places(p) :
    /\ LocksOff(p, k, p[k].id) =>
         \/ PowersOff(p, k - 1, p[k].id)
         \/ k = 1 /\ Lacks(t, p[k].id, "torque")
         \/ Mends(p, k, p[k].id)
         \/ Renaming(t) /\ (Renames(p, k + 1, p[k].id) \/ Moves(p, k + 1, p[k].id))
    /\ p[k].do = "write" /\ p[k].reg = "id" => Renaming(t) /\ Renames(p, k, p[k].id)
    /\ p[k].do = "write" /\ p[k].reg = "baud" => Renaming(t) /\ Moves(p, k, p[k].id)

\* To do p in terminal t locks the motor with the id i and the speed b.
Pledge(t, p, i, b) ==
  \/ /\ holder = t /\ tool[t].speed = b
     /\ Mends(p, 0, i) \/ (Renaming(t) /\ (Renames(p, 1, i) \/ Moves(p, 1, i)))
  \/ Renaming(t) /\ IsDo(p, 1, "close") /\ Reopens(p, 2, b) /\ Renames(p, 3, i)
  \/ Renaming(t) /\ Reopens(p, 1, b) /\ Renames(p, 2, i)

Promises(t, s) == Pledge(t, tool[t].todo, servo[s].id, servo[s].baud)

Minded ==
  ~hurt => \A s \in DOMAIN servo :
             servo[s].torque /\ ~servo[s].lock => \E t \in Terminals : Promises(t, s)

----------------------------------------------------------------------------
(* Registers that are written in time.                                     *)

\* Place j writes reg of the motor i while it is unlocked.
Sets(t, p, j, i, reg) ==
  /\ IsWrite(p, j, i, reg, TRUE)
  /\ \E m \in 0 .. j - 1 :
       /\ \A l \in m + 1 .. j - 1 : IsSetting(p, l)
       /\ IF m = 0 THEN Lacks(t, i, "lock") ELSE LocksOff(p, m, i)

\* At place d reg of the motor i is set.
Due(t, p, d, i, reg) ==
  \/ Has(t, i, reg)
  \/ \E j \in 1 .. d - 1 : Sets(t, p, j, i, reg)

\* At place k the motor i is locked.
LockedAt(t, p, k, i) ==
  /\ \/ Has(t, i, "lock")
     \/ \E j \in 1 .. k - 1 : LocksOn(p, j, i)
  /\ \A j \in 1 .. k - 1 : LocksOff(p, j, i) => \E m \in j + 1 .. k - 1 : LocksOn(p, m, i)

\* Up to place k the servos keep their ids, and nobody else comes to the bus.
Straight(t, p, k) ==
  \A j \in 1 .. k - 1 :
    \/ p[j].do = "write" /\ p[j].reg \notin {"id", "baud"}
    \/ p[j].do = "work"
    \/ j = 1 /\ p[j].do = "open" /\ p[j].val = tool[t].speed

\* A motor is powered with its protection set and its configuration locked.
Guarded(t, p) ==
  \A k \in Places(p) : PowersOn(p, k, p[k].id) =>
    Straight(t, p, k) /\ Due(t, p, k, p[k].id, "prot") /\ LockedAt(t, p, k, p[k].id)

----------------------------------------------------------------------------
(* What the tools say in the end.                                          *)

\* 320 has set all of every motor it heard.
Persists(t, p, d) ==
  /\ holder = t
  /\ \A j \in 1 .. d - 1 : p[j].do = "write" /\ p[j].reg \notin {"id", "baud"}
  /\ \A k \in DOMAIN Arm : /\ Hear(t, Arm[k]) # {}
                           /\ \A reg \in Wanted(Arm[k]) : Due(t, p, d, Arm[k], reg)

\* 120 and 121 lock the new id, find it, and are at the new speed by then.
Arrives(t, p, d) ==
  LET r == tool[t]
  IN  /\ \A j \in 1 .. d - 1 : p[j].do = "open" => p[j].val = r.to
      /\ r.speed = r.to \/ \E j \in 1 .. d - 3 : IsDo(p, j, "open")
      /\ IF d = 1 THEN holder = t /\ Hear(t, r.new) # {}
                  ELSE IsDo(p, d - 1, "ping") /\ p[d - 1].id = r.new /\ p[d - 1].val = TRUE
      /\ IF d < 3 THEN Has(t, r.new, "lock") ELSE LocksOn(p, d - 2, r.new)

Truthful(t, p) ==
  \A d \in Places(p) : p[d].do = "done" =>
    \/ tool[t].name = "persist" /\ Persists(t, p, d)
    \/ Renaming(t) /\ Arrives(t, p, d)

----------------------------------------------------------------------------
(* The end of the demo.                                                    *)

\* The last three operations switch the motor i off and close the bus.
EndsOff(p, i) ==
  /\ IsProg(p) /\ Len(p) > 2
  /\ PowersOff(p, Len(p) - 2, i) /\ p[Len(p) - 2].fail = Close
  /\ LocksOff(p, Len(p) - 1, i) /\ p[Len(p) - 1].fail = Close
  /\ IsDo(p, Len(p), "close")

EndsOff1(p, i) ==
  EndsOff(p, i) /\ \A k \in 1 .. Len(p) - 3 : EndsOff(p[k].fail, i) /\ Len(p[k].fail) = 3

\* So they do whatever raises before them, but for the connection.
Switches(p, i) ==
  EndsOff(p, i) /\ \A k \in 1 .. Len(p) - 3 : p[k].fail = <<>> \/ EndsOff1(p[k].fail, i)

\* The motor is off, the lock and the bus are left.
Unlocks(t, p, i) ==
  /\ Len(p) = 2
  /\ LocksOff(p, 1, i) /\ p[1].fail = Close
  /\ IsDo(p, 2, "close")
  /\ Lacks(t, i, "torque")

OnlyCloses(p) == Len(p) < 2 /\ \A k \in Places(p) : p[k].do = "close"

LimpAtEnd(t, p) ==
  tool[t].name = "demo" =>
    Switches(p, tool[t].new) \/ Unlocks(t, p, tool[t].new) \/ OnlyCloses(p)

----------------------------------------------------------------------------

\* A tool, or none, with the values it was started with.
IsTool(r) ==
  /\ r = [name |-> r.name, todo |-> r.todo, new |-> r.new, to |-> r.to, speed |-> r.speed]
  /\ r.to \in Speeds /\ r.speed \in Speeds
  /\ r.name \in {"demo", "set_id", "setup"} => r.new \in Ids
  /\ r.name = "none" => r.todo = <<>>

\* It has the bus, or is about to take it or to leave it.
Based(t) ==
  LET p == tool[t].todo
  IN  /\ Sound(p)
      /\ p # <<>> /\ p[1].do \notin {"open", "close"} => holder = t
      /\ \A k \in Places(p) : /\ p[k].do = "plan" => tool[t].name = "persist"
                              /\ p[k].do = "scan" => tool[t].name = "setup"

Shaped ==
  /\ TypeOK
  /\ servo = [s \in DOMAIN servo |-> servo[s]]
  /\ tool = [t \in Terminals |-> tool[t]]
  /\ \A t \in Terminals : IsTool(tool[t])

Base == Shaped /\ \A t \in Terminals : Based(t)

\* The inductive invariants of the four properties, each of them with Base.
OnInv   == ProtectedWhenOn /\ \A t \in Terminals : Guarded(t, tool[t].todo)
LockInv == Minded /\ \A t \in Terminals : Relocks(t, tool[t].todo)
DoneInv == \A t \in Terminals : Truthful(t, tool[t].todo)
LimpInv == \A t \in Terminals : LimpAtEnd(t, tool[t].todo)

----------------------------------------------------------------------------
(* Joining programs.  The library's induction cannot be instantiated here; *)
(* a least number can.                                                     *)

LEMMA LeastOf ==
  ASSUME NEW T \in SUBSET Nat, T # {}
  PROVE  \E n \in T : \A m \in T : n <= m
<1> DEFINE R == OpToRel(<, Nat)
<1>1. IsWellFoundedOn(R, Nat)  BY NatLessThanWellFounded
<1>2. \A x, y \in Nat : <<y, x>> \in R <=> y < x  BY DEF OpToRel
<1> HIDE DEF R
<1>3. PICK x \in T : \A y \in T : <<y, x>> \notin R
  BY <1>1, WFMin
<1>4. ASSUME NEW m \in T PROVE x <= m
  <2>1. x \in Nat /\ m \in Nat /\ ~(m < x)  BY <1>2, <1>3
  <2> QED  BY <2>1
<1> QED  BY <1>4

\* b stands in p behind place o.
Block(p, o, b) == \A j \in Places(b) : o + j \in Places(p) /\ p[o + j] = b[j]

LEMMA Progs ==
  ASSUME NEW S, NEW p \in Seq(S)
  PROVE  IsProg(p)
BY DEF IsProg

LEMMA Lengths ==
  ASSUME NEW p, IsProg(p)
  PROVE  Len(p) \in Nat /\ DOMAIN p = Places(p) /\ (p = <<>> <=> Len(p) = 0)
BY DEF IsProg, Places

LEMMA Joined ==
  ASSUME NEW a, NEW b, IsProg(a), IsProg(b)
  PROVE  /\ IsProg(a \o b)
         /\ Len(a \o b) = Len(a) + Len(b)
         /\ Block(a \o b, 0, a)
         /\ Block(a \o b, Len(a), b)
         /\ \A k \in Places(a \o b) : k \in Places(a) \/ k - Len(a) \in Places(b)
<1> DEFINE S == {a[k] : k \in 1 .. Len(a)} \cup {b[k] : k \in 1 .. Len(b)}
<1>1. a \in Seq(S) /\ b \in Seq(S)  BY DEF IsProg
<1> HIDE DEF S
<1>2. a \o b \in Seq(S) /\ Len(a \o b) = Len(a) + Len(b)  BY <1>1
<1>3. Len(a) \in Nat /\ Len(b) \in Nat  BY <1>1
<1>4. \A j \in 1 .. Len(a) : (a \o b)[j] = a[j]  BY <1>1
<1>5. \A j \in 1 .. Len(b) : (a \o b)[Len(a) + j] = b[j]  BY <1>1
<1>6. IsProg(a \o b)  BY <1>2, Progs
<1>7. Block(a \o b, 0, a)
  <2>1. \A j \in 1 .. Len(a) : 0 + j = j /\ j \in 1 .. Len(a \o b)  BY <1>2, <1>3
  <2> QED  BY <1>4, <2>1 DEF Block, Places
<1>8. Block(a \o b, Len(a), b)
  <2>1. \A j \in 1 .. Len(b) : Len(a) + j \in 1 .. Len(a \o b)  BY <1>2, <1>3
  <2> QED  BY <1>5, <2>1 DEF Block, Places
<1>9. \A k \in 1 .. Len(a \o b) : k \in 1 .. Len(a) \/ k - Len(a) \in 1 .. Len(b)
  BY <1>2, <1>3
<1> QED  BY <1>2, <1>6, <1>7, <1>8, <1>9 DEF Places

LEMMA JoinedTwice ==
  ASSUME NEW a, NEW b, NEW c, IsProg(a), IsProg(b), IsProg(c)
  PROVE  (a \o b) \o c = a \o (b \o c)
<1> DEFINE S == {a[k] : k \in 1 .. Len(a)} \cup {b[k] : k \in 1 .. Len(b)} \cup {c[k] : k \in 1 .. Len(c)}
<1>1. a \in Seq(S) /\ b \in Seq(S) /\ c \in Seq(S)  BY DEF IsProg
<1> HIDE DEF S
<1> QED  BY <1>1

LEMMA Tails ==
  ASSUME NEW p, IsProg(p), p # <<>>
  PROVE  /\ IsProg(Tail(p))
         /\ Len(p) \in Nat \ {0} /\ Len(Tail(p)) = Len(p) - 1
         /\ Head(p) = p[1]
         /\ \A j \in Places(Tail(p)) : j + 1 \in Places(p) /\ Tail(p)[j] = p[j + 1]
<1> DEFINE S == {p[k] : k \in 1 .. Len(p)}
<1>1. p \in Seq(S)  BY DEF IsProg
<1> HIDE DEF S
<1>2. Tail(p) \in Seq(S) /\ Len(Tail(p)) = Len(p) - 1 /\ Len(p) \in Nat \ {0}  BY <1>1
<1>3. \A j \in 1 .. Len(p) - 1 : Tail(p)[j] = p[j + 1]  BY <1>1
<1>4. IsProg(Tail(p))  BY <1>2, Progs
<1>5. \A j \in 1 .. Len(Tail(p)) : j + 1 \in 1 .. Len(p) /\ Tail(p)[j] = p[j + 1]
  BY <1>2, <1>3
<1> QED  BY <1>1, <1>2, <1>4, <1>5 DEF Places

LEMMA One ==
  ASSUME NEW o
  PROVE  IsProg(<<o>>) /\ Len(<<o>>) = 1 /\ <<o>>[1] = o /\ <<o>> # <<>>
BY DEF IsProg

LEMMA NoneToDo == IsProg(<<>>) /\ Len(<<>>) = 0 /\ Places(<<>>) = {}
BY DEF IsProg, Places

----------------------------------------------------------------------------
(* What FlattenSeq makes of a sequence of programs.                        *)

IsFlat(f, seqs, n) == f = [i \in 1 .. n |-> IF i = 1 THEN seqs[i] ELSE f[i - 1] \o seqs[i]]

LEMMA FlatExists ==
  ASSUME NEW seqs, NEW n \in Nat
  PROVE  \E f : IsFlat(f, seqs, n)
<1> DEFINE T == {m \in Nat : ~\E f : IsFlat(f, seqs, m)}
<1> SUFFICES ASSUME T # {} PROVE FALSE
  OBVIOUS
<1>1. PICK m \in T : \A k \in T : m <= k  BY LeastOf
<1>2. CASE m = 0
  <2>1. IsFlat([i \in 1 .. 0 |-> 0], seqs, 0)  BY DEF IsFlat
  <2> QED  BY <1>1, <1>2, <2>1
<1>3. CASE m # 0
  <2>1. m - 1 \in Nat /\ m - 1 \notin T  BY <1>1, <1>3
  <2>2. PICK g : IsFlat(g, seqs, m - 1)  BY <2>1
  <2> DEFINE h == [i \in 1 .. m |-> IF i = 1 THEN seqs[i] ELSE g[i - 1] \o seqs[i]]
  <2>3. ASSUME NEW i \in 1 .. m - 1 PROVE h[i] = g[i]
    <3>1. i \in 1 .. m /\ h[i] = IF i = 1 THEN seqs[i] ELSE g[i - 1] \o seqs[i]  BY <2>1
    <3>2. g[i] = IF i = 1 THEN seqs[i] ELSE g[i - 1] \o seqs[i]  BY <2>2 DEF IsFlat
    <3> QED  BY <3>1, <3>2
  <2>4. ASSUME NEW i \in 1 .. m PROVE h[i] = IF i = 1 THEN seqs[i] ELSE h[i - 1] \o seqs[i]
    <3>1. i # 1 => i - 1 \in 1 .. m - 1  BY <2>1
    <3> QED  BY <2>3, <3>1
  <2>5. IsFlat(h, seqs, m)  BY <2>4 DEF IsFlat
  <2> QED  BY <1>1, <2>5
<1> QED  BY <1>2, <1>3

LEMMA FlattenIs ==
  ASSUME NEW seqs, IsProg(seqs), seqs # <<>>
  PROVE  \E f : IsFlat(f, seqs, Len(seqs)) /\ FlattenSeq(seqs) = f[Len(seqs)]
<1> DEFINE n == Len(seqs)
           F == CHOOSE f : IsFlat(f, seqs, n)
<1>1. n \in Nat /\ n # 0  BY Lengths
<1>2. FlattenSeq(seqs) = F[n]
  BY <1>1, Zenon DEF FlattenSeq, IsFlat
<1>3. \E f : IsFlat(f, seqs, n)  BY <1>1, FlatExists
<1>4. IsFlat(F, seqs, n)  BY <1>3, Zenon
<1> QED  BY <1>2, <1>4

\* Each of the programs stands in what is made of them, and nothing else does.
LEMMA Flattened ==
  ASSUME NEW seqs, IsProg(seqs), seqs # <<>>, \A k \in Places(seqs) : IsProg(seqs[k])
  PROVE  /\ IsProg(FlattenSeq(seqs))
         /\ \A k \in Places(seqs) : \E o \in Nat : Block(FlattenSeq(seqs), o, seqs[k])
         /\ \A q \in Places(FlattenSeq(seqs)) : \E k \in Places(seqs) : \E o \in Nat :
              Block(FlattenSeq(seqs), o, seqs[k]) /\ q - o \in Places(seqs[k])
<1>1. PICK f : IsFlat(f, seqs, Len(seqs)) /\ FlattenSeq(seqs) = f[Len(seqs)]  BY FlattenIs
<1>2. Len(seqs) \in Nat \ {0} /\ Places(seqs) = 1 .. Len(seqs)  BY Lengths DEF Places
<1> DEFINE Made(n) ==
             /\ IsProg(f[n])
             /\ \A k \in 1 .. n : \E o \in Nat : Block(f[n], o, seqs[k])
             /\ \A q \in Places(f[n]) : \E k \in 1 .. n : \E o \in Nat :
                  Block(f[n], o, seqs[k]) /\ q - o \in Places(seqs[k])
           T == {n \in 1 .. Len(seqs) : ~Made(n)}
<1>3. Made(1)
  <2>1. f[1] = seqs[1] /\ IsProg(seqs[1])  BY <1>1, <1>2 DEF IsFlat
  <2>2. Block(seqs[1], 0, seqs[1])
    <3>1. \A j \in Places(seqs[1]) : 0 + j = j  BY <2>1, Lengths DEF Places
    <3> QED  BY <3>1 DEF Block
  <2>3. \A q \in Places(seqs[1]) : q - 0 \in Places(seqs[1])  BY <2>1, Lengths DEF Places
  <2> QED  BY <2>1, <2>2, <2>3
<1>4. ASSUME NEW n \in 1 .. Len(seqs), n # 1, Made(n - 1) PROVE Made(n)
  <2>1. f[n] = f[n - 1] \o seqs[n] /\ IsProg(f[n - 1]) /\ IsProg(seqs[n]) /\ n - 1 \in Nat
    <3>1. n \in Nat /\ n - 1 \in Nat /\ n \in Places(seqs)  BY <1>2, <1>4
    <3>2. f[n] = f[n - 1] \o seqs[n]  BY <1>1, <1>4 DEF IsFlat
    <3>3. IsProg(f[n - 1])  BY <1>4
    <3> QED  BY <3>1, <3>2, <3>3
  <2> DEFINE a == f[n - 1]
             b == seqs[n]
  <2>2. /\ IsProg(f[n])
        /\ Len(f[n]) = Len(a) + Len(b) /\ Len(a) \in Nat /\ Len(b) \in Nat
        /\ Block(f[n], 0, a)
        /\ Block(f[n], Len(a), b)
        /\ \A k \in Places(f[n]) : k \in Places(a) \/ k - Len(a) \in Places(b)
    BY <2>1, Joined, Lengths
  <2>3. ASSUME NEW o \in Nat, NEW k \in 1 .. n - 1, Block(a, o, seqs[k]) PROVE Block(f[n], o, seqs[k])
    <3>1. \A j \in Places(a) : 0 + j = j  BY <2>2 DEF Places
    <3> QED  BY <2>2, <2>3, <3>1 DEF Block
  <2>4. ASSUME NEW k \in 1 .. n PROVE \E o \in Nat : Block(f[n], o, seqs[k])
    <3>1. CASE k = n  BY <2>2, <3>1
    <3>2. CASE k # n
      <4>1. k \in 1 .. n - 1  BY <3>2, <1>2
      <4>2. PICK o \in Nat : Block(a, o, seqs[k])  BY <1>4, <4>1
      <4> QED  BY <2>3, <4>1, <4>2
    <3> QED  BY <3>1, <3>2
  <2>5. ASSUME NEW q \in Places(f[n])
        PROVE  \E k \in 1 .. n : \E o \in Nat : Block(f[n], o, seqs[k]) /\ q - o \in Places(seqs[k])
    <3>1. CASE q \in Places(a)
      <4>1. PICK k \in 1 .. n - 1, o \in Nat : Block(a, o, seqs[k]) /\ q - o \in Places(seqs[k])
        BY <1>4, <3>1
      <4>2. k \in 1 .. n  BY <1>2, <2>1
      <4> QED  BY <2>3, <4>1, <4>2
    <3>2. CASE q - Len(a) \in Places(b)
      BY <2>2, <3>2
    <3> QED  BY <2>2, <3>1, <3>2
  <2> HIDE DEF a, b
  <2> QED  BY <2>2, <2>4, <2>5
<1> HIDE DEF Made
<1>5. T = {}
  <2> SUFFICES ASSUME T # {} PROVE FALSE
    OBVIOUS
  <2>1. PICK n \in T : \A m \in T : n <= m
    <3>1. T \in SUBSET Nat  BY <1>2
    <3> HIDE DEF T
    <3> QED  BY <3>1, LeastOf
  <2>2. n \in 1 .. Len(seqs) /\ n # 1 /\ n - 1 \in 1 .. Len(seqs)  BY <1>2, <1>3, <2>1
  <2>3. Made(n - 1)  BY <1>2, <2>1, <2>2
  <2> QED  BY <1>4, <2>1, <2>2, <2>3
<1>6. Made(Len(seqs))  BY <1>2, <1>5
<1> QED  BY <1>1, <1>2, <1>6 DEF Made

LEMMA FlattenedOne ==
  ASSUME NEW b, IsProg(b)
  PROVE  FlattenSeq(<<b>>) = b
<1>1. PICK f : IsFlat(f, <<b>>, Len(<<b>>)) /\ FlattenSeq(<<b>>) = f[Len(<<b>>)]
  BY FlattenIs, One
<1> QED  BY <1>1, One DEF IsFlat

----------------------------------------------------------------------------
(* Parts of the tools' programs, with what may be among them.              *)

PartAt(p, k, may, fails) ==
  /\ p[k].do \in {"write"} \cup (may \ {"on", "set"})
  /\ p[k].fail \in fails
  /\ p[k].do = "open" => k = 1 /\ p[k].val = Speed /\ p[k].fail = <<>>
  /\ p[k].do = "close" => k = Len(p)
  /\ p[k].do = "write" => \/ p[k].reg \in Settings /\ p[k].val = TRUE /\ "set" \in may
                          \/ p[k].reg \in {"lock", "torque"} /\ p[k].val \in BOOLEAN
  /\ PowersOn(p, k, p[k].id) => "on" \in may
  /\ LocksOff(p, k, p[k].id) =>
       PowersOff(p, k - 1, p[k].id) \/ ("set" \in may /\ Mends(p, k, p[k].id))

Part(p, may, fails) == IsProg(p) /\ \A k \in Places(p) : PartAt(p, k, may, fails)

LEMMA WriteInBlock ==
  ASSUME NEW p, NEW b, NEW o \in Nat, IsProg(b), Block(p, o, b), NEW k \in Int, NEW i, NEW reg, NEW val,
         IsWrite(b, k, i, reg, val)
  PROVE  IsWrite(p, o + k, i, reg, val)
BY DEF IsWrite, Block

LEMMA WriteOfBlock ==
  ASSUME NEW p, NEW b, NEW o \in Nat, IsProg(b), Block(p, o, b), NEW k \in Places(b), NEW i, NEW reg, NEW val,
         IsWrite(p, o + k, i, reg, val)
  PROVE  IsWrite(b, k, i, reg, val)
BY DEF IsWrite, Block

LEMMA MendsInBlock ==
  ASSUME NEW p, NEW b, NEW o \in Nat, IsProg(b), Block(p, o, b), NEW k \in Nat, NEW i, Mends(b, k, i)
  PROVE  Mends(p, o + k, i)
<1>1. PICK m \in Places(b) :
        /\ m > k
        /\ LocksOn(b, m, i)
        /\ \A j \in k + 1 .. m - 1 : IsSetting(b, j) /\ LocksOn(b[j].fail, 1, i)
  BY DEF Mends
<1>2. m \in Int /\ o + m \in Places(p) /\ o + m > o + k  BY <1>1 DEF Block, Places
<1>3. LocksOn(p, o + m, i)  BY <1>1, <1>2, WriteInBlock DEF LocksOn
<1>4. ASSUME NEW j \in o + k + 1 .. o + m - 1 PROVE IsSetting(p, j) /\ LocksOn(p[j].fail, 1, i)
  <2>1. Len(b) \in Nat /\ m \in 1 .. Len(b)  BY Lengths DEF Places
  <2>2. j - o \in k + 1 .. m - 1 /\ j - o \in 1 .. Len(b) /\ o + (j - o) = j  BY <1>1, <1>2, <2>1
  <2>3. p[j] = b[j - o]  BY <2>2 DEF Block, Places
  <2> QED  BY <1>1, <2>2, <2>3 DEF IsSetting
<1> QED  BY <1>2, <1>3, <1>4 DEF Mends

LEMMA PartInBlock ==
  ASSUME NEW p, NEW b, NEW o \in Nat, IsProg(b), Block(p, o, b),
         NEW may, NEW more, NEW fails, may \subseteq more, NEW k \in Places(b), PartAt(b, k, may, fails),
         b[k].do = "open" => o = 0,
         b[k].do = "close" => o + Len(b) = Len(p)
  PROVE  PartAt(p, o + k, more, fails)
<1>1. p[o + k] = b[k] /\ o + k \in Places(p)  BY DEF Block
<1>2. k \in Nat \ {0}  BY Lengths DEF Places
<1>3. PowersOn(p, o + k, b[k].id) => "on" \in more
  BY <1>2, WriteOfBlock DEF PowersOn, PartAt
<1>4. ASSUME LocksOff(p, o + k, b[k].id)
      PROVE  PowersOff(p, (o + k) - 1, b[k].id) \/ ("set" \in more /\ Mends(p, o + k, b[k].id))
  <2>1. LocksOff(b, k, b[k].id)  BY <1>4, <1>2, WriteOfBlock DEF LocksOff
  <2>2. CASE PowersOff(b, k - 1, b[k].id)
    <3>1. k - 1 \in Int /\ o + (k - 1) = (o + k) - 1  BY <1>2
    <3> QED  BY <2>2, <3>1, WriteInBlock DEF PowersOff
  <2>3. CASE "set" \in may /\ Mends(b, k, b[k].id)  BY <1>2, <2>3, MendsInBlock
  <2> QED  BY <2>1, <2>2, <2>3 DEF PartAt
<1>5. b[k].do = "open" => o + k = 1  BY <1>2 DEF PartAt
<1>6. b[k].do = "close" => o + k = Len(p)  BY <1>2 DEF PartAt
<1>7. /\ b[k].do \in {"write"} \cup (more \ {"on", "set"}) /\ b[k].fail \in fails
      /\ b[k].do = "open" => b[k].val = Speed /\ b[k].fail = <<>>
      /\ b[k].do = "write" => \/ b[k].reg \in Settings /\ b[k].val = TRUE /\ "set" \in more
                              \/ b[k].reg \in {"lock", "torque"} /\ b[k].val \in BOOLEAN
  BY DEF PartAt
<1> DEFINE q == o + k
<1>8. p[q] = b[k] /\ (b[k].do = "open" => q = 1) /\ (b[k].do = "close" => q = Len(p))
  BY <1>1, <1>5, <1>6
<1>9. PowersOn(p, q, b[k].id) => "on" \in more  BY <1>3
<1>10. LocksOff(p, q, b[k].id) => PowersOff(p, q - 1, b[k].id) \/ ("set" \in more /\ Mends(p, q, b[k].id))
  BY <1>4
<1> HIDE DEF q
<1>11. PartAt(p, q, more, fails)  BY <1>7, <1>8, <1>9, <1>10, Zenon DEF PartAt
<1> QED  BY <1>11 DEF q

LEMMA PartJoin ==
  ASSUME NEW a, NEW b, NEW may, NEW more, NEW all, NEW fails, Part(a, may, fails), Part(b, more, fails),
         may \cup more \subseteq all, "close" \notin may, "open" \notin more
  PROVE  Part(a \o b, all, fails)
<1> DEFINE p == a \o b
<1>1. /\ IsProg(p) /\ Len(p) = Len(a) + Len(b) /\ Len(a) \in Nat /\ Len(b) \in Nat
      /\ Block(p, 0, a) /\ Block(p, Len(a), b)
      /\ \A k \in Places(p) : k \in Places(a) \/ k - Len(a) \in Places(b)
  BY Joined, Lengths DEF Part
<1> HIDE DEF p
<1>2. ASSUME NEW k \in Places(a) PROVE PartAt(p, k, all, fails)
  <2>1. PartAt(a, k, may, fails) /\ a[k].do # "close"  BY DEF Part, PartAt
  <2>2. k \in Int /\ 0 + k = k  BY <1>1 DEF Places
  <2>3. PartAt(p, 0 + k, all, fails)  BY <1>1, <2>1, PartInBlock DEF Part
  <2> QED  BY <2>2, <2>3
<1>3. ASSUME NEW k \in Places(b) PROVE PartAt(p, Len(a) + k, all, fails)
  <2>1. PartAt(b, k, more, fails) /\ b[k].do # "open"  BY DEF Part, PartAt
  <2> QED  BY <1>1, <2>1, PartInBlock DEF Part
<1>4. ASSUME NEW k \in Places(p), k - Len(a) \in Places(b) PROVE PartAt(p, k, all, fails)
  <2>1. Len(a) + (k - Len(a)) = k  BY <1>1 DEF Places
  <2> QED  BY <1>3, <1>4, <2>1
<1> QED  BY <1>1, <1>2, <1>4 DEF Part, p

LEMMA PartFlat ==
  ASSUME NEW seqs, NEW may, NEW fails, IsProg(seqs), seqs # <<>>, \A k \in Places(seqs) : Part(seqs[k], may, fails),
         "open" \notin may, "close" \notin may
  PROVE  Part(FlattenSeq(seqs), may, fails)
<1> DEFINE p == FlattenSeq(seqs)
<1>1. /\ IsProg(p)
      /\ \A q \in Places(p) : \E k \in Places(seqs) : \E o \in Nat :
           Block(p, o, seqs[k]) /\ q - o \in Places(seqs[k])
  BY Flattened DEF Part
<1> HIDE DEF p
<1>2. ASSUME NEW q \in Places(p) PROVE PartAt(p, q, may, fails)
  <2>1. PICK k \in Places(seqs), o \in Nat : Block(p, o, seqs[k]) /\ q - o \in Places(seqs[k])
    BY <1>1
  <2>2. PartAt(seqs[k], q - o, may, fails) /\ IsProg(seqs[k])  BY <2>1 DEF Part
  <2>3. seqs[k][q - o].do # "open" /\ seqs[k][q - o].do # "close"  BY <2>2 DEF PartAt
  <2>4. PartAt(p, o + (q - o), may, fails)  BY <2>1, <2>2, <2>3, PartInBlock
  <2>5. o + (q - o) = q  BY <1>1, Lengths DEF Places
  <2> QED  BY <2>4, <2>5
<1> QED  BY <1>1, <1>2 DEF Part, p

----------------------------------------------------------------------------
(* The pieces the tools are made of.                                       *)

LEMMA QuietNone == Quiet(<<>>) /\ Falls1(<<>>) /\ Falls2(<<>>) /\ Falls3(<<>>)
BY NoneToDo DEF Quiet, Falls1, Falls2, Falls3

LEMMA FallsLess ==
  ASSUME NEW p
  PROVE  (Falls1(p) => Falls2(p)) /\ (Falls2(p) => Falls3(p))
<1>1. Falls1(p) => Falls2(p)  BY QuietNone DEF Falls1, Falls2
<1>2. ASSUME NEW q, Falls1(q) PROVE Falls2(q)  BY <1>2, QuietNone DEF Falls1, Falls2
<1>3. Falls2(p) => Falls3(p)  BY <1>2 DEF Falls2, Falls3
<1> QED  BY <1>1, <1>3

LEMMA CloseFalls == Falls1(Close) /\ Falls2(Close) /\ Falls3(Close)
<1> DEFINE o == Op("close", None, None, None, <<>>)
<1>1. Close = <<o>> /\ o.do = "close" /\ o.fail = <<>>  BY DEF Close, Step, Op
<1> HIDE DEF o
<1>2. Places(Close) = {1} /\ Close[1] = o /\ Len(Close) = 1 /\ IsProg(Close)  BY <1>1, One DEF Places
<1>3. Quiet(Close)
  <2>1. ~LocksOff(Close, 1, Close[1].id)  BY <1>1, <1>2 DEF LocksOff, IsWrite
  <2> QED  BY <1>1, <1>2, <2>1 DEF Quiet
<1> QED  BY <1>1, <1>2, <1>3, QuietNone DEF Falls1, Falls2, Falls3

LEMMA StepPart ==
  ASSUME NEW do, NEW fail, NEW fails, do \in {"work", "off", "close", "done", "plan"}, fail \in fails
  PROVE  Part(Step(do, fail), {do}, fails)
<1> DEFINE o == Op(do, None, None, None, fail)
           p == Step(do, fail)
<1>1. p = <<o>> /\ o.do = do /\ o.fail = fail  BY DEF Step, Op
<1> HIDE DEF o, p
<1>2. Places(p) = {1} /\ p[1] = o /\ Len(p) = 1 /\ IsProg(p)  BY <1>1, One DEF Places
<1>3. \A i : ~PowersOn(p, 1, i) /\ ~LocksOff(p, 1, i)  BY <1>1, <1>2 DEF PowersOn, LocksOff, IsWrite
<1> QED  BY <1>1, <1>2, <1>3 DEF Part, PartAt, p

LEMMA OpenPart ==
  ASSUME NEW fails, <<>> \in fails
  PROVE  Part(Open(Speed, <<>>), {"open"}, fails)
<1> DEFINE o == Op("open", None, None, Speed, <<>>)
           p == Open(Speed, <<>>)
<1>1. p = <<o>> /\ o.do = "open" /\ o.fail = <<>> /\ o.val = Speed  BY DEF Open, Op
<1> HIDE DEF o, p
<1>2. Places(p) = {1} /\ p[1] = o /\ Len(p) = 1 /\ IsProg(p)  BY <1>1, One DEF Places
<1>3. \A i : ~PowersOn(p, 1, i) /\ ~LocksOff(p, 1, i)  BY <1>1, <1>2 DEF PowersOn, LocksOff, IsWrite
<1> QED  BY <1>1, <1>2, <1>3 DEF Part, PartAt, p

\* Two operations, and three programs, one behind the other.
LEMMA Two ==
  ASSUME NEW a, NEW b
  PROVE  /\ IsProg(<<a>> \o <<b>>) /\ Len(<<a>> \o <<b>>) = 2
         /\ (<<a>> \o <<b>>)[1] = a /\ (<<a>> \o <<b>>)[2] = b
<1>1. <<a>> \in Seq({a, b}) /\ <<b>> \in Seq({a, b})  OBVIOUS
<1>2. <<a>> \o <<b>> \in Seq({a, b}) /\ Len(<<a>> \o <<b>>) = 2  BY <1>1
<1>3. (<<a>> \o <<b>>)[1] = a /\ (<<a>> \o <<b>>)[2] = b  BY <1>1
<1> QED  BY <1>2, <1>3, Progs

LEMMA Three ==
  ASSUME NEW a, NEW b, NEW c, IsProg(a), IsProg(b), IsProg(c)
  PROVE  /\ IsProg((a \o b) \o c) /\ Len((a \o b) \o c) = Len(a) + Len(b) + Len(c)
         /\ Block((a \o b) \o c, 0, a)
         /\ Block((a \o b) \o c, Len(a), b)
         /\ Block((a \o b) \o c, Len(a) + Len(b), c)
<1>1. Len(a) \in Nat /\ Len(b) \in Nat /\ Len(c) \in Nat  BY Lengths
<1>2. /\ IsProg(a \o b) /\ Len(a \o b) = Len(a) + Len(b)
      /\ Block(a \o b, 0, a) /\ Block(a \o b, Len(a), b)
  BY Joined
<1> DEFINE ab == a \o b
<1> HIDE DEF ab
<1>3. IsProg(ab) /\ Len(ab) = Len(a) + Len(b) /\ Block(ab, 0, a) /\ Block(ab, Len(a), b)
  BY <1>2 DEF ab
<1> DEFINE p == ab \o c
<1>4. IsProg(p) /\ Len(p) = Len(ab) + Len(c) /\ Block(p, 0, ab) /\ Block(p, Len(ab), c)
  BY <1>3, Joined
<1> HIDE DEF p
<1>5. Block(p, 0, a) /\ Block(p, Len(a), b)
  <2>1. \A j \in Places(ab) : 0 + j = j  BY <1>3, Lengths DEF Places
  <2>2. \A j \in Places(a) : 0 + j = j  BY <1>1 DEF Places
  <2> QED  BY <1>3, <1>4, <2>1, <2>2 DEF Block
<1> QED  BY <1>1, <1>3, <1>4, <1>5 DEF p, ab

\* A write of torque, and the lock set alike.
LEMMA TorqueIs ==
  ASSUME NEW i, NEW on, NEW fail, NEW p, p = Torque(i, on, fail)
  PROVE  /\ IsProg(p) /\ Places(p) = {1, 2} /\ Len(p) = 2
         /\ p[1] = Write(i, "torque", on, fail)
         /\ p[2] = Write(i, "lock", on, fail)
BY Two DEF Torque, Locks, Places

LEMMA TorquePart ==
  ASSUME NEW i, NEW on \in BOOLEAN, NEW fail, NEW fails, fail \in fails
  PROVE  /\ Part(Torque(i, on, fail), {"on"}, fails)
         /\ ~on => Part(Torque(i, on, fail), {}, fails)
         /\ on => \A k \in Places(Torque(i, on, fail)) : Torque(i, on, fail)[k].id = i /\ Torque(i, on, fail)[k].val = TRUE
<1> DEFINE p == Torque(i, on, fail)
<1>1. /\ IsProg(p) /\ Places(p) = {1, 2} /\ Len(p) = 2
      /\ p[1].do = "write" /\ p[1].id = i /\ p[1].reg = "torque" /\ p[1].val = on /\ p[1].fail = fail
      /\ p[2].do = "write" /\ p[2].id = i /\ p[2].reg = "lock" /\ p[2].val = on /\ p[2].fail = fail
  <2>1. /\ IsProg(p) /\ Places(p) = {1, 2} /\ Len(p) = 2
        /\ p[1] = Write(i, "torque", on, fail)
        /\ p[2] = Write(i, "lock", on, fail)
    BY TorqueIs
  <2> HIDE DEF p
  <2> QED  BY <2>1 DEF Write, Op
<1> HIDE DEF p
<1>2. \A j : ~LocksOff(p, 1, j) /\ ~PowersOn(p, 2, j)  BY <1>1 DEF PowersOn, LocksOff, IsWrite
<1>3. ~on => \A j : ~PowersOn(p, 1, j)  BY <1>1 DEF PowersOn, IsWrite
<1>4. LocksOff(p, 2, i) => PowersOff(p, 2 - 1, i)  BY <1>1 DEF PowersOff, LocksOff, IsWrite
<1>5. \A k \in {1, 2} : PartAt(p, k, {"on"}, fails) /\ (~on => PartAt(p, k, {}, fails))
  BY <1>1, <1>2, <1>3, <1>4 DEF PartAt
<1> QED  BY <1>1, <1>5 DEF Part, p

\* The finally of an opened configuration.
Relock(i, fail) == Locks(i, TRUE, fail) \o fail

\* A configuration that is opened, written and locked.
UnlockedWell(p, i, regs, fail) ==
  /\ IsProg(p) /\ Len(p) = Len(regs) + 2 /\ Len(regs) \in Nat
  /\ p[1].do = "write" /\ p[1].id = i /\ p[1].reg = "lock" /\ p[1].val = FALSE /\ p[1].fail = fail
  /\ \A k \in 1 .. Len(regs) :
       /\ p[k + 1].do = "write" /\ p[k + 1].id = i /\ p[k + 1].reg = regs[k] /\ p[k + 1].val = TRUE
       /\ p[k + 1].fail = Relock(i, fail)
  /\ p[Len(regs) + 2].do = "write" /\ p[Len(regs) + 2].id = i /\ p[Len(regs) + 2].reg = "lock"
  /\ p[Len(regs) + 2].val = TRUE /\ p[Len(regs) + 2].fail = fail

LEMMA UnlockedIs ==
  ASSUME NEW i, NEW regs, NEW fail, IsProg(regs), NEW p, p = Unlocked(i, regs, fail)
  PROVE  UnlockedWell(p, i, regs, fail)
<1> DEFINE a == <<Write(i, "lock", FALSE, fail)>>
           W(k) == Write(i, regs[k], TRUE, Relock(i, fail))
           b == [k \in DOMAIN regs |-> W(k)]
           c == <<Write(i, "lock", TRUE, fail)>>
           n == Len(regs)
<1>1. p = (a \o b) \o c  BY DEF Unlocked, Locks, Relock
<1>2. n \in Nat /\ DOMAIN regs = 1 .. n  BY Lengths DEF Places
<1>3. IsProg(a) /\ Len(a) = 1 /\ a[1] = Write(i, "lock", FALSE, fail)  BY One
<1>4. IsProg(c) /\ Len(c) = 1 /\ c[1] = Write(i, "lock", TRUE, fail)  BY One
<1>5. IsProg(b) /\ Len(b) = n /\ \A k \in 1 .. n : b[k] = W(k)
  <2> HIDE DEF W
  <2>1. b \in Seq({W(k) : k \in 1 .. n}) /\ Len(b) = n  BY <1>2
  <2> QED  BY <1>2, <2>1, Progs
<1> HIDE DEF a, b, c, W, n
<1>6. /\ IsProg(p) /\ Len(p) = 1 + n + 1
      /\ Block(p, 0, a) /\ Block(p, 1, b) /\ Block(p, 1 + n, c)
  <2>1. /\ IsProg((a \o b) \o c) /\ Len((a \o b) \o c) = Len(a) + Len(b) + Len(c)
        /\ Block((a \o b) \o c, 0, a)
        /\ Block((a \o b) \o c, Len(a), b)
        /\ Block((a \o b) \o c, Len(a) + Len(b), c)
    BY <1>3, <1>4, <1>5, Three
  <2>2. Len(a) = 1 /\ Len(b) = n /\ Len(c) = 1  BY <1>3, <1>4, <1>5
  <2> QED  BY <1>1, <2>1, <2>2
<1>7. p[1] = a[1]
  <2>1. 0 + 1 = 1 /\ 1 \in 1 .. Len(a)  BY <1>3
  <2>2. p[0 + 1] = a[1]  BY <1>6, <2>1 DEF Block, Places
  <2> QED  BY <2>1, <2>2
<1>8. ASSUME NEW k \in 1 .. n PROVE p[k + 1] = W(k)
  <2>1. 1 + k = k + 1  BY <1>2
  <2> QED  BY <1>5, <1>6, <2>1 DEF Block, Places
<1>9. p[n + 2] = c[1]
  <2>1. 1 + n + 1 = n + 2 /\ 1 \in 1 .. 1  BY <1>2
  <2> QED  BY <1>4, <1>6, <2>1 DEF Block, Places
<1>10. Len(p) = n + 2  BY <1>2, <1>6
<1>11. p[1].do = "write" /\ p[1].id = i /\ p[1].reg = "lock" /\ p[1].val = FALSE /\ p[1].fail = fail
  BY <1>3, <1>7 DEF Write, Op
<1>12. /\ p[n + 2].do = "write" /\ p[n + 2].id = i /\ p[n + 2].reg = "lock"
       /\ p[n + 2].val = TRUE /\ p[n + 2].fail = fail
  BY <1>4, <1>9 DEF Write, Op
<1>13. ASSUME NEW k \in 1 .. n
       PROVE  /\ p[k + 1].do = "write" /\ p[k + 1].id = i /\ p[k + 1].reg = regs[k] /\ p[k + 1].val = TRUE
              /\ p[k + 1].fail = Relock(i, fail)
  <2>1. p[k + 1] = Write(i, regs[k], TRUE, Relock(i, fail))  BY <1>8 DEF W
  <2> QED  BY <2>1 DEF Write, Op
<1> QED  BY <1>2, <1>6, <1>10, <1>11, <1>12, <1>13 DEF n, UnlockedWell

LEMMA UnlockedPart ==
  ASSUME NEW i, NEW regs, IsProg(regs), \A k \in 1 .. Len(regs) : regs[k] \in Settings, NEW fail, NEW fails,
         fail \in fails, Relock(i, fail) \in fails, IsProg(fail),
         NEW p, p = Unlocked(i, regs, fail)
  PROVE  Part(p, {"set"}, fails)
<1> DEFINE n == Len(regs)
           g == Relock(i, fail)
           w == Write(i, "lock", TRUE, fail)
<1>1. n \in Nat /\ IsProg(regs) /\ \A k \in 1 .. n : regs[k] \in Settings
  BY Lengths
<1>2. /\ IsProg(p) /\ Len(p) = n + 2
      /\ p[1].do = "write" /\ p[1].id = i /\ p[1].reg = "lock" /\ p[1].val = FALSE /\ p[1].fail = fail
      /\ \A k \in 1 .. n : /\ p[k + 1].do = "write" /\ p[k + 1].id = i /\ p[k + 1].reg = regs[k]
                            /\ p[k + 1].val = TRUE /\ p[k + 1].fail = g
      /\ p[n + 2].do = "write" /\ p[n + 2].id = i /\ p[n + 2].reg = "lock" /\ p[n + 2].val = TRUE
      /\ p[n + 2].fail = fail
  <2>1. IsProg(regs)  BY <1>1
  <2> HIDE DEF n, g, w
  <2>2. UnlockedWell(p, i, regs, fail)  BY <2>1, UnlockedIs
  <2> QED  BY <2>2 DEF n, g, UnlockedWell
<1>3. LocksOn(g, 1, i)
  <2>1. IsProg(<<w>>) /\ Len(<<w>>) = 1 /\ <<w>>[1] = w /\ g = <<w>> \o fail  BY One DEF Relock, Locks
  <2>2. Block(g, 0, <<w>>)  BY <2>1, Joined
  <2>3. 0 + 1 = 1 /\ 1 \in Places(<<w>>)  BY <2>1 DEF Places
  <2>4. 0 + 1 \in Places(g) /\ g[0 + 1] = w  BY <2>1, <2>2, <2>3 DEF Block
  <2>5. 1 \in Places(g) /\ g[1] = w  BY <2>3, <2>4
  <2>6. w.do = "write" /\ w.id = i /\ w.reg = "lock" /\ w.val = TRUE  BY DEF Write, Op
  <2> HIDE DEF g, w
  <2> QED  BY <2>5, <2>6 DEF LocksOn, IsWrite
<1> HIDE DEF n, g, w
<1>4. ASSUME NEW k \in 2 .. n + 1
      PROVE  p[k].do = "write" /\ p[k].reg \in Settings /\ p[k].val = TRUE /\ p[k].fail = g
  <2>1. k - 1 \in 1 .. n /\ (k - 1) + 1 = k  BY <1>1
  <2> QED  BY <1>1, <1>2, <2>1
<1>5. Mends(p, 1, i)
  <2>1. n + 2 \in Places(p) /\ n + 2 > 1 /\ 1 + 1 = 2 /\ (n + 2) - 1 = n + 1  BY <1>1, <1>2 DEF Places
  <2>2. LocksOn(p, n + 2, i)  BY <1>2, <2>1 DEF LocksOn, IsWrite
  <2>3. \A j \in 2 .. n + 1 : IsSetting(p, j) /\ LocksOn(p[j].fail, 1, i)
    BY <1>3, <1>4 DEF IsSetting
  <2>4. \A j \in 1 + 1 .. (n + 2) - 1 : IsSetting(p, j) /\ LocksOn(p[j].fail, 1, i)  BY <2>1, <2>3
  <2> QED  BY <2>1, <2>2, <2>4 DEF Mends
<1>6. PartAt(p, 1, {"set"}, fails)
  <2>1. ~PowersOn(p, 1, p[1].id)  BY <1>2 DEF PowersOn, IsWrite
  <2> QED  BY <1>2, <1>5, <2>1 DEF PartAt
<1>7. PartAt(p, n + 2, {"set"}, fails)
  <2>1. ~PowersOn(p, n + 2, p[n + 2].id) /\ ~LocksOff(p, n + 2, p[n + 2].id)
    BY <1>2 DEF PowersOn, LocksOff, IsWrite
  <2> QED  BY <1>2, <2>1 DEF PartAt
<1>8. ASSUME NEW k \in 2 .. n + 1 PROVE PartAt(p, k, {"set"}, fails)
  <2>1. p[k].do = "write" /\ p[k].reg \in Settings /\ p[k].val = TRUE /\ p[k].fail = g  BY <1>4
  <2>2. ~PowersOn(p, k, p[k].id) /\ ~LocksOff(p, k, p[k].id)
    BY <2>1 DEF PowersOn, LocksOff, IsWrite, Settings
  <2> QED  BY <2>1, <2>2 DEF PartAt, g
<1>9. ASSUME NEW k \in Places(p) PROVE PartAt(p, k, {"set"}, fails)
  <2>1. k = 1 \/ k = n + 2 \/ k \in 2 .. n + 1  BY <1>1, <1>2 DEF Places
  <2> QED  BY <1>6, <1>7, <1>8, <2>1
<1> QED  BY <1>2, <1>9 DEF Part

LEMMA SettingSeqs ==
  ASSUME NEW regs \in {<<"prot">>, <<"cap">>, <<"low", "high">>}
  PROVE  IsProg(regs) /\ \A k \in 1 .. Len(regs) : regs[k] \in Settings
<1>1. <<"prot">> \in Seq(Settings) /\ <<"cap">> \in Seq(Settings)  BY DEF Settings
<1>2. <<"low", "high">> \in Seq(Settings)  BY DEF Settings
<1>3. regs \in Seq(Settings)  BY <1>1, <1>2
<1> QED  BY <1>3, Progs

\* One program for each of the ids.
LEMMA EachIs ==
  ASSUME NEW ids \in Seq(Ids), ids # <<>>, NEW f, f = [k \in DOMAIN ids |-> f[k]]
  PROVE  /\ IsProg(f) /\ f # <<>> /\ Places(f) = DOMAIN ids /\ IsProg(ids)
         /\ \A k \in DOMAIN ids : ids[k] \in Ids
<1>1. Len(ids) \in Nat /\ Len(ids) # 0 /\ DOMAIN ids = 1 .. Len(ids)  OBVIOUS
<1>2. f \in Seq({f[k] : k \in 1 .. Len(ids)}) /\ Len(f) = Len(ids)
  BY <1>1
<1>3. f # <<>>  BY <1>1, <1>2
<1>4. IsProg(f) /\ IsProg(ids)  BY <1>2, Progs
<1>5. Places(f) = DOMAIN ids  BY <1>1, <1>2 DEF Places
<1> QED  BY <1>3, <1>4, <1>5

\* What an interrupted operation may leave to do, where d ends the program.
Ends(d)  == {<<>>, Close, d}
Fails(d) == Ends(d) \cup UNION {{Relock(i, f) : i \in Ids} : f \in Ends(d)}

LEMMA SafetyPart ==
  ASSUME NEW ids \in Seq(Ids), ids # <<>>, NEW d, NEW f \in Ends(d), IsProg(d),
         NEW regs \in {<<"prot">>, <<"cap">>, <<"low", "high">>}, NEW p, p = FlattenSeq([k \in DOMAIN ids |-> Unlocked(ids[k], regs, f)])
  PROVE  Part(p, {"set"}, Fails(d))
<1> DEFINE s == [k \in DOMAIN ids |-> Unlocked(ids[k], regs, f)]
<1>1. s = [k \in DOMAIN ids |-> s[k]]  OBVIOUS
<1>2. IsProg(f)
  <2>1. IsProg(Close)  BY One DEF Close, Step
  <2> QED  BY <2>1, NoneToDo DEF Ends
<1>3. ASSUME NEW k \in DOMAIN ids PROVE Part(Unlocked(ids[k], regs, f), {"set"}, Fails(d))
  <2>1. ids[k] \in Ids  OBVIOUS
  <2>2. Relock(ids[k], f) \in {Relock(i, f) : i \in Ids}  BY <2>1
  <2>3. f \in Fails(d) /\ Relock(ids[k], f) \in Fails(d)  BY <2>2 DEF Fails
  <2> QED  BY <1>2, <2>3, UnlockedPart, SettingSeqs
<1>4. \A k \in DOMAIN ids : Part(s[k], {"set"}, Fails(d))  BY <1>3
<1> HIDE DEF s
<1>5. IsProg(s) /\ s # <<>> /\ Places(s) = DOMAIN ids  BY <1>1, EachIs
<1>6. Part(FlattenSeq(s), {"set"}, Fails(d))  BY <1>4, <1>5, PartFlat
<1> QED  BY <1>6 DEF s

LEMMA TorquesPart ==
  ASSUME NEW ids \in Seq(Ids), ids # <<>>, NEW fails, NEW f \in fails, NEW on \in BOOLEAN,
         NEW p, p = FlattenSeq([k \in DOMAIN ids |-> Torque(ids[k], on, f)])
  PROVE  Part(p, {"on"}, fails) /\ (~on => Part(p, {}, fails))
<1> DEFINE s == [k \in DOMAIN ids |-> Torque(ids[k], on, f)]
<1>1. s = [k \in DOMAIN ids |-> s[k]]  OBVIOUS
<1>2. \A k \in DOMAIN ids : Part(s[k], {"on"}, fails) /\ (~on => Part(s[k], {}, fails))
  <2>1. \A i : Part(Torque(i, on, f), {"on"}, fails) /\ (~on => Part(Torque(i, on, f), {}, fails))
    BY TorquePart
  <2> QED  BY <2>1
<1> HIDE DEF s
<1>3. IsProg(s) /\ s # <<>> /\ Places(s) = DOMAIN ids  BY <1>1, EachIs
<1>4. Part(FlattenSeq(s), {"on"}, fails) /\ (~on => Part(FlattenSeq(s), {}, fails))
  BY <1>2, <1>3, PartFlat
<1> QED  BY <1>4 DEF s

\* What is left to do behind an error never locks a motor up that is on.
LEMMA FallsWhen ==
  ASSUME NEW p, NEW may \in SUBSET {"off", "close"}, NEW fails, Part(p, may, fails)
  PROVE  /\ Quiet(p)
         /\ fails \subseteq {<<>>, Close} => Falls2(p)
<1>1. IsProg(p) /\ \A k \in Places(p) : PartAt(p, k, may, fails)  BY DEF Part
<1>2. ASSUME NEW k \in Places(p), p[k].do = "write", p[k].reg = "torque", p[k].val \in BOOLEAN
      PROVE  p[k].val = FALSE
  <2>1. ~PowersOn(p, k, p[k].id)  BY <1>1 DEF PartAt
  <2> QED  BY <1>2, <2>1 DEF PowersOn, IsWrite
<1>3. ASSUME NEW k \in Places(p)
      PROVE  /\ \/ p[k].do \in {"off", "close"}
                \/ p[k].do = "write" /\ p[k].reg = "lock" /\ p[k].val \in BOOLEAN
                \/ p[k].do = "write" /\ p[k].reg = "torque" /\ p[k].val = FALSE
             /\ p[k].do = "close" => k = Len(p)
             /\ LocksOff(p, k, p[k].id) => PowersOff(p, k - 1, p[k].id)
             /\ p[k].fail \in fails
  <2>1. PartAt(p, k, may, fails) /\ "set" \notin may /\ "write" \notin may  BY <1>1
  <2> QED  BY <1>2, <2>1 DEF PartAt
<1>4. Quiet(p)  BY <1>1, <1>3 DEF Quiet
<1> QED  BY <1>3, <1>4, CloseFalls, QuietNone DEF Falls2

LEMMA CloseIs == Part(Close, {"close"}, {<<>>, Close}) /\ IsProg(Close)
BY StepPart DEF Close, Part

LEMMA DisableFalls ==
  ASSUME NEW ids \in Seq(Ids), ids # <<>>
  PROVE  /\ Part(Disable(ids), {"close"}, {<<>>, Close}) /\ Falls2(Disable(ids)) /\ IsProg(Disable(ids))
<1> DEFINE p == FlattenSeq([k \in DOMAIN ids |-> Torque(ids[k], FALSE, Close)])
<1>1. Part(p, {}, {<<>>, Close})
  BY TorquesPart
<1>2. Disable(ids) = p \o Close  BY DEF Disable, Each
<1> HIDE DEF p
<1>3. Part(Disable(ids), {"close"}, {<<>>, Close})  BY <1>1, <1>2, CloseIs, PartJoin
<1> QED  BY <1>3, FallsWhen DEF Part

LEMMA LimpFalls == Part(Limp, {"off", "close"}, {<<>>, Close}) /\ Falls2(Limp) /\ IsProg(Limp)
<1>1. Part(Step("off", Close), {"off"}, {<<>>, Close})  BY StepPart
<1>2. Part(Limp, {"off", "close"}, {<<>>, Close})  BY <1>1, CloseIs, PartJoin DEF Limp
<1> QED  BY <1>2, FallsWhen DEF Part

LEMMA ReleaseFalls ==
  ASSUME NEW ids \in Seq(Ids), ids # <<>>, NEW p, p = Each(ids, LAMBDA i : Torque(i, FALSE, <<>>))
  PROVE  Part(p, {}, {<<>>, Close}) /\ Falls2(p) /\ IsProg(p)
<1>1. p = FlattenSeq([k \in DOMAIN ids |-> Torque(ids[k], FALSE, <<>>)])  BY DEF Each
<1>2. Part(p, {}, {<<>>, Close})  BY <1>1, TorquesPart
<1> QED  BY <1>2, FallsWhen DEF Part

LEMMA FailsFall ==
  ASSUME NEW d, Falls2(d)
  PROVE  IsProg(d) /\ \A f \in Fails(d) : Falls3(f)
<1>1. IsProg(d) /\ Falls3(d) /\ \A f \in {<<>>, Close, d} : Falls2(f) /\ Falls3(f)
    <2>1. Falls2(<<>>) /\ Falls2(Close)  BY CloseFalls, QuietNone
  <2>2. Falls3(<<>>) /\ Falls3(Close) /\ Falls3(d)  BY <2>1, FallsLess
  <2> QED  BY <2>1, <2>2 DEF Falls2, Quiet
<1>2. ASSUME NEW i \in Ids, NEW f \in Ends(d) PROVE Falls3(Relock(i, f))
  <2> DEFINE w == Write(i, "lock", TRUE, f)
             p == <<w>> \o f
  <2>1. Falls2(f) /\ IsProg(f) /\ Quiet(f) /\ Len(f) \in Nat  BY <1>1, Lengths DEF Falls2, Quiet, Ends
  <2>2. w.do = "write" /\ w.id = i /\ w.reg = "lock" /\ w.val = TRUE /\ w.fail = f  BY DEF Write, Op
  <2> HIDE DEF w
  <2>3. /\ IsProg(p) /\ Len(p) = 1 + Len(f) /\ Block(p, 0, <<w>>) /\ Block(p, 1, f)
        /\ \A k \in Places(p) : k \in Places(<<w>>) \/ k - 1 \in Places(f)
    <3> DEFINE a == <<w>>
    <3>1. IsProg(a) /\ Len(a) = 1  BY One
    <3> HIDE DEF a
    <3> QED  BY <2>1, <3>1, Joined DEF a
  <2> HIDE DEF p
  <2>4. p[1] = w
    <3>1. 0 + 1 = 1 /\ 1 \in Places(<<w>>) /\ <<w>>[1] = w  BY One DEF Places
    <3>2. p[0 + 1] = <<w>>[1]  BY <2>3, <3>1 DEF Block
    <3> QED  BY <3>1, <3>2
  <2>5. ASSUME NEW k \in Places(p), k # 1
        PROVE  k \in Int /\ k - 1 \in Places(f) /\ p[k] = f[k - 1]
    <3>1. Places(<<w>>) = {1}  BY One DEF Places
    <3>2. k - 1 \in Places(f) /\ 1 + (k - 1) = k  BY <2>3, <2>5, <3>1 DEF Places
    <3>3. p[1 + (k - 1)] = f[k - 1]  BY <2>3, <3>2 DEF Block
    <3> QED  BY <3>2, <3>3 DEF Places
  <2>6. ASSUME NEW k \in Places(p)
        PROVE  /\ Falls2(p[k].fail)
               /\ \/ p[k].do \in {"off", "close"}
                  \/ p[k].do = "write" /\ p[k].reg = "lock" /\ p[k].val \in BOOLEAN
                  \/ p[k].do = "write" /\ p[k].reg = "torque" /\ p[k].val = FALSE
               /\ p[k].do = "close" => k = Len(p)
               /\ LocksOff(p, k, p[k].id) => PowersOff(p, k - 1, p[k].id)
    <3>1. CASE k = 1
      <4>1. ~LocksOff(p, 1, w.id)  BY <2>2, <2>4 DEF LocksOff, IsWrite
      <4> QED  BY <2>1, <2>2, <2>4, <3>1, <4>1
    <3>2. CASE k # 1
      <4> DEFINE j == k - 1
      <4>1. k \in Int /\ j \in Places(f) /\ p[k] = f[j] /\ 1 + j = k /\ j \in Int  BY <2>5, <3>2 DEF Places
      <4> HIDE DEF j
      <4>2. Falls2(f[j].fail)
        BY <2>1, <4>1, FallsLess DEF Falls2
      <4>3. f[j].do = "close" => k = Len(p)  BY <2>1, <2>3, <4>1 DEF Quiet
      <4>4. ASSUME LocksOff(p, k, p[k].id) PROVE PowersOff(p, k - 1, p[k].id)
        <5>1. LocksOff(f, j, f[j].id)  BY <4>1, <4>4 DEF LocksOff, IsWrite
        <5>2. PowersOff(f, j - 1, f[j].id)  BY <2>1, <4>1, <5>1 DEF Quiet
        <5>3. j - 1 \in Int  BY <4>1
        <5>4. PowersOff(p, 1 + (j - 1), f[j].id)
          BY <2>1, <2>3, <5>3, <5>2, WriteInBlock DEF PowersOff
        <5> QED  BY <4>1, <5>4
      <4>5. \/ f[j].do \in {"off", "close"}
            \/ f[j].do = "write" /\ f[j].reg = "lock" /\ f[j].val \in BOOLEAN
            \/ f[j].do = "write" /\ f[j].reg = "torque" /\ f[j].val = FALSE
        BY <2>1, <4>1 DEF Quiet
      <4> QED  BY <4>1, <4>2, <4>3, <4>4, <4>5
    <3> QED  BY <3>1, <3>2
  <2>7. Quiet(p)  BY <2>3, <2>6 DEF Quiet
  <2>8. Falls3(p)  BY <2>6, <2>7 DEF Falls3
  <2> QED  BY <2>8 DEF p, w, Relock, Locks
<1>3. \A f \in Ends(d) : Falls3(f)  BY <1>1 DEF Ends
<1>4. ASSUME NEW g \in Fails(d) PROVE Falls3(g)
  <2>1. CASE g \in Ends(d)  BY <1>3, <2>1
  <2>2. ASSUME NEW f \in Ends(d), g \in {Relock(i, f) : i \in Ids} PROVE Falls3(g)
    <3>1. PICK i \in Ids : g = Relock(i, f)  BY <2>2
    <3> QED  BY <1>2, <3>1
  <2> QED  BY <2>1, <2>2 DEF Fails
<1> QED  BY <1>1, <1>4

----------------------------------------------------------------------------
(* Whoever powers a motor has set its protection and locked it.            *)

\* Place j writes reg of the motor i, which the program has unlocked.
SetsIn(p, j, i, reg) ==
  /\ IsWrite(p, j, i, reg, TRUE)
  /\ \E m \in 1 .. j - 1 : LocksOff(p, m, i) /\ \A l \in m + 1 .. j - 1 : IsSetting(p, l)

Locked(p, k, i) ==
  /\ \E j \in 1 .. k - 1 : LocksOn(p, j, i)
  /\ \A j \in 1 .. k - 1 : LocksOff(p, j, i) => \E m \in j + 1 .. k - 1 : LocksOn(p, m, i)

Ready(p, k, i) ==
  /\ \E j \in 1 .. k - 1 : SetsIn(p, j, i, "prot")
  /\ Locked(p, k, i)

Along(p, j) ==
  \/ p[j].do = "write" /\ p[j].reg \notin {"id", "baud"}
  \/ p[j].do = "work"
  \/ j = 1 /\ p[j].do = "open" /\ p[j].val = Speed

Guards(p) ==
  \A k \in Places(p) : PowersOn(p, k, p[k].id) =>
    Ready(p, k, p[k].id) /\ \A j \in 1 .. k - 1 : Along(p, j)

LEMMA SetsInBlock ==
  ASSUME NEW p, NEW b, NEW o \in Nat, IsProg(b), Block(p, o, b), NEW j \in Int, NEW i, NEW reg,
         SetsIn(b, j, i, reg)
  PROVE  SetsIn(p, o + j, i, reg)
<1>1. PICK m \in 1 .. j - 1 : LocksOff(b, m, i) /\ \A l \in m + 1 .. j - 1 : IsSetting(b, l)
  BY DEF SetsIn
<1>2. j \in Places(b) /\ Len(b) \in Nat  BY Lengths DEF SetsIn, IsWrite
<1>3. IsWrite(p, o + j, i, reg, TRUE)  BY <1>2, WriteInBlock DEF SetsIn
<1>4. LocksOff(p, o + m, i)
  <2>1. m \in Int  OBVIOUS
  <2> QED  BY <1>1, <2>1, WriteInBlock DEF LocksOff
<1>5. ASSUME NEW l \in (o + m) + 1 .. (o + j) - 1 PROVE IsSetting(p, l)
  <2>1. l - o \in m + 1 .. j - 1 /\ l - o \in 1 .. Len(b) /\ o + (l - o) = l  BY <1>2 DEF Places
  <2>2. p[l] = b[l - o]  BY <2>1 DEF Block, Places
  <2> QED  BY <1>1, <2>1, <2>2 DEF IsSetting
<1>6. o + m \in 1 .. (o + j) - 1  OBVIOUS
<1> QED  BY <1>3, <1>4, <1>5, <1>6 DEF SetsIn

\* What stands behind x is as ready as it was.
LEMMA ReadyBehind ==
  ASSUME NEW x, NEW a, IsProg(x), IsProg(a), NEW i, Ready(a, Len(a) + 1, i),
         NEW p, p = x \o a
  PROVE  Ready(p, Len(p) + 1, i)
<1> DEFINE o == Len(x)
<1>1. /\ IsProg(p) /\ Len(p) = o + Len(a) /\ o \in Nat /\ Len(a) \in Nat
      /\ Block(p, 0, x) /\ Block(p, o, a)
      /\ \A k \in Places(p) : k \in Places(x) \/ k - o \in Places(a)
  BY Joined, Lengths
<1> HIDE DEF o
<1>2. PICK j \in 1 .. Len(a) : SetsIn(a, j, i, "prot")
  <2>1. (Len(a) + 1) - 1 = Len(a)  BY <1>1
  <2> QED  BY <2>1 DEF Ready
<1>3. o + j \in 1 .. (Len(p) + 1) - 1 /\ SetsIn(p, o + j, i, "prot")
  BY <1>1, <1>2, SetsInBlock
<1>4. PICK m \in 1 .. Len(a) : LocksOn(a, m, i)
  <2>1. (Len(a) + 1) - 1 = Len(a)  BY <1>1
  <2> QED  BY <2>1 DEF Ready, Locked
<1>5. o + m \in 1 .. (Len(p) + 1) - 1 /\ LocksOn(p, o + m, i) /\ o + m > o
  <2>1. m \in Int  BY <1>1
  <2>2. LocksOn(p, o + m, i)  BY <1>1, <1>4, <2>1, WriteInBlock DEF LocksOn
  <2> QED  BY <1>1, <2>1, <2>2
<1>6. ASSUME NEW k \in 1 .. (Len(p) + 1) - 1, LocksOff(p, k, i)
      PROVE  \E l \in k + 1 .. (Len(p) + 1) - 1 : LocksOn(p, l, i)
  <2>1. k \in Places(p) /\ k \in Int  BY <1>1 DEF Places
  <2>2. CASE k \in Places(x)
    <3>1. o + m \in k + 1 .. (Len(p) + 1) - 1  BY <1>1, <1>5, <2>2 DEF Places, o
    <3> QED  BY <1>5, <3>1
  <2>3. CASE k - o \in Places(a)
    <3> DEFINE q == k - o
    <3>1. q \in Places(a) /\ o + q = k /\ q \in 1 .. (Len(a) + 1) - 1  BY <1>1, <2>1, <2>3 DEF Places
    <3> HIDE DEF q
    <3>2. LocksOff(a, q, i)  BY <1>1, <1>6, <3>1, WriteOfBlock DEF LocksOff
    <3>3. PICK l \in q + 1 .. (Len(a) + 1) - 1 : LocksOn(a, l, i)  BY <3>1, <3>2 DEF Ready, Locked
    <3>4. l \in Int /\ o + l \in k + 1 .. (Len(p) + 1) - 1  BY <1>1, <3>1
    <3>5. LocksOn(p, o + l, i)  BY <1>1, <3>3, <3>4, WriteInBlock DEF LocksOn
    <3> QED  BY <3>4, <3>5
  <2> QED  BY <1>1, <2>1, <2>2, <2>3
<1> QED  BY <1>3, <1>5, <1>6 DEF Ready, Locked

\* It stays ready while nothing is unlocked.
LEMMA ReadyBefore ==
  ASSUME NEW a, NEW b, IsProg(a), IsProg(b), NEW i, Ready(a, Len(a) + 1, i),
         \A j \in Places(b) : ~LocksOff(b, j, i), NEW p, p = a \o b, NEW k \in 1 .. Len(b) + 1
  PROVE  Ready(p, Len(a) + k, i)
<1> DEFINE n == Len(a)
           q == n + k
<1>1. /\ IsProg(p) /\ Len(p) = n + Len(b) /\ n \in Nat /\ Len(b) \in Nat
      /\ Block(p, 0, a) /\ Block(p, n, b)
      /\ \A x \in Places(p) : x \in Places(a) \/ x - n \in Places(b)
      /\ (n + 1) - 1 = n
  BY Joined, Lengths
<1>2. k \in Nat /\ q \in Nat /\ q > n /\ 0 \in Nat  BY <1>1
<1>3. Places(a) = 1 .. n  BY DEF Places
<1>4. Ready(a, n + 1, i)  OBVIOUS
<1> HIDE DEF n, q
<1>5. PICK j \in 1 .. n : SetsIn(a, j, i, "prot")  BY <1>1, <1>4 DEF Ready
<1>6. j \in 1 .. q - 1 /\ SetsIn(p, j, i, "prot")
  <2>1. j \in Int /\ 0 + j = j /\ j \in 1 .. q - 1  BY <1>1, <1>2
  <2>2. SetsIn(p, 0 + j, i, "prot")  BY <1>1, <1>2, <1>5, <2>1, SetsInBlock
  <2> QED  BY <2>1, <2>2
<1>7. ASSUME NEW m \in 1 .. n, LocksOn(a, m, i) PROVE m \in 1 .. q - 1 /\ LocksOn(p, m, i)
  <2>1. m \in Int /\ 0 + m = m /\ m \in 1 .. q - 1  BY <1>1, <1>2
  <2>2. LocksOn(p, 0 + m, i)  BY <1>1, <1>2, <1>7, <2>1, WriteInBlock DEF LocksOn
  <2> QED  BY <2>1, <2>2
<1>8. ASSUME NEW x \in 1 .. q - 1, LocksOff(p, x, i)
      PROVE  \E l \in x + 1 .. q - 1 : LocksOn(p, l, i)
  <2>1. x \in Places(p) /\ x \in Int  BY <1>2, <1>8 DEF LocksOff, IsWrite
  <2>2. CASE x \in Places(a)
    <3>1. 0 + x = x /\ x \in 1 .. n  BY <1>3, <2>1, <2>2
    <3>2. LocksOff(p, 0 + x, i)  BY <1>8, <3>1
    <3>3. LocksOff(a, x, i)  BY <1>1, <1>2, <2>2, <3>2, WriteOfBlock DEF LocksOff
    <3>4. PICK l \in x + 1 .. n : LocksOn(a, l, i)  BY <1>1, <1>4, <3>1, <3>3 DEF Ready, Locked
    <3>5. l \in 1 .. n  BY <1>1, <3>1
    <3>6. l \in x + 1 .. q - 1 /\ LocksOn(p, l, i)  BY <1>1, <1>2, <1>7, <3>1, <3>4, <3>5
    <3> QED  BY <3>6
  <2>3. CASE x - n \in Places(b)
    <3>1. n + (x - n) = x  BY <1>1, <2>1
    <3> DEFINE y == x - n
    <3>2. y \in Places(b) /\ n + y = x  BY <2>3, <3>1
    <3> HIDE DEF y
    <3>3. LocksOff(p, n + y, i)  BY <1>8, <3>2
    <3>4. LocksOff(b, y, i)  BY <1>1, <3>2, <3>3, WriteOfBlock DEF LocksOff
    <3> QED  BY <3>2, <3>4
  <2> QED  BY <1>1, <2>1, <2>2, <2>3
<1>9. \E m \in 1 .. q - 1 : LocksOn(p, m, i)
  <2>1. PICK m \in 1 .. n : LocksOn(a, m, i)  BY <1>1, <1>4 DEF Ready, Locked
  <2> QED  BY <1>7, <2>1
<1>10. Ready(p, q, i)  BY <1>6, <1>8, <1>9 DEF Ready, Locked
<1> QED  BY <1>10 DEF q, n

\* An unlocked configuration, where it stands.
LEMMA UnlockedSets ==
  ASSUME NEW p, NEW o \in Nat, NEW b, NEW i, NEW regs, NEW f, UnlockedWell(b, i, regs, f), Block(p, o, b),
         \A k \in 1 .. Len(regs) : regs[k] \in Settings
  PROVE  /\ \A k \in 1 .. Len(regs) : SetsIn(p, o + (k + 1), i, regs[k])
         /\ LocksOn(p, o + Len(b), i)
         /\ \A q \in Places(b) : b[q].id = i
         /\ \A q \in Places(b) : b[q].reg = "lock" /\ b[q].val = FALSE => q < Len(b)
<1> DEFINE n == Len(regs)
<1>1. /\ IsProg(b) /\ Len(b) = n + 2 /\ n \in Nat
      /\ b[1].do = "write" /\ b[1].id = i /\ b[1].reg = "lock" /\ b[1].val = FALSE
      /\ \A k \in 1 .. n : b[k + 1].do = "write" /\ b[k + 1].id = i /\ b[k + 1].reg = regs[k] /\ b[k + 1].val = TRUE
      /\ b[n + 2].do = "write" /\ b[n + 2].id = i /\ b[n + 2].reg = "lock" /\ b[n + 2].val = TRUE
  BY DEF UnlockedWell
<1>2. \A k \in 1 .. n : regs[k] \in Settings  OBVIOUS
<1> HIDE DEF n
<1>3. Places(b) = 1 .. n + 2  BY <1>1 DEF Places
<1>4. ASSUME NEW k \in 1 .. n PROVE SetsIn(p, o + (k + 1), i, regs[k])
  <2>1. k + 1 \in Places(b) /\ k + 1 \in Int /\ 1 \in 1 .. (k + 1) - 1 /\ 1 \in Places(b)  BY <1>1, <1>3
  <2>2. IsWrite(b, k + 1, i, regs[k], TRUE)  BY <1>1, <2>1 DEF IsWrite
  <2>3. LocksOff(b, 1, i)  BY <1>1, <2>1 DEF LocksOff, IsWrite
  <2>4. ASSUME NEW l \in 1 + 1 .. (k + 1) - 1 PROVE IsSetting(b, l)
    <3>1. l - 1 \in 1 .. n /\ (l - 1) + 1 = l  BY <1>1
    <3> QED  BY <1>1, <1>2, <3>1 DEF IsSetting
  <2>5. SetsIn(b, k + 1, i, regs[k])  BY <2>1, <2>2, <2>3, <2>4 DEF SetsIn
  <2> QED  BY <1>1, <2>1, <2>5, SetsInBlock
<1>5. LocksOn(p, o + Len(b), i)
  <2>1. n + 2 \in Places(b) /\ n + 2 \in Int  BY <1>1, <1>3
  <2>2. LocksOn(b, n + 2, i)  BY <1>1, <2>1 DEF LocksOn, IsWrite
  <2>3. LocksOn(p, o + (n + 2), i)  BY <1>1, <2>1, <2>2, WriteInBlock DEF LocksOn
  <2> QED  BY <1>1, <2>3
<1>6. ASSUME NEW q \in Places(b)
      PROVE  b[q].id = i /\ (b[q].reg = "lock" /\ b[q].val = FALSE => q < Len(b))
  <2>1. CASE q = n + 2  BY <1>1, <2>1
  <2>2. CASE q = 1  BY <1>1, <2>2
  <2>3. CASE q # 1 /\ q # n + 2
    <3>1. q - 1 \in 1 .. n /\ (q - 1) + 1 = q /\ q < Len(b)  BY <1>1, <1>3, <2>3
    <3> QED  BY <1>1, <3>1
  <2> QED  BY <2>1, <2>2, <2>3
<1> QED  BY <1>4, <1>5, <1>6 DEF n

LEMMA SafetyReady ==
  ASSUME NEW ids \in Seq(Ids), ids # <<>>, NEW f, NEW x \in DOMAIN ids, NEW a, a = Safety(ids, f)
  PROVE  IsProg(a) /\ Ready(a, Len(a) + 1, ids[x])
<1> DEFINE R == <<"prot">>
           s == [k \in DOMAIN ids |-> Unlocked(ids[k], R, f)]
           i == ids[x]
<1>1. s = [k \in DOMAIN ids |-> s[k]]  OBVIOUS
<1>2. IsProg(R) /\ Len(R) = 1 /\ R[1] = "prot" /\ R[1] \in Settings  BY One DEF Settings
<1>3. a = FlattenSeq(s)  BY DEF Safety, Each
<1> HIDE DEF R
<1>4. \A k \in DOMAIN ids : s[k] = Unlocked(ids[k], R, f)  OBVIOUS
<1> HIDE DEF s
<1>5. ASSUME NEW k \in DOMAIN ids PROVE UnlockedWell(s[k], ids[k], R, f) /\ IsProg(s[k])
  <2>1. UnlockedWell(s[k], ids[k], R, f)  BY <1>2, <1>4, UnlockedIs
  <2> QED  BY <2>1 DEF UnlockedWell
<1>6. IsProg(s) /\ s # <<>> /\ Places(s) = DOMAIN ids  BY <1>1, EachIs
<1>7. /\ IsProg(a)
      /\ \A k \in DOMAIN ids : \E o \in Nat : Block(a, o, s[k])
      /\ \A q \in Places(a) : \E k \in DOMAIN ids : \E o \in Nat :
           Block(a, o, s[k]) /\ q - o \in Places(s[k])
  BY <1>3, <1>5, <1>6, Flattened
<1>8. ASSUME NEW k \in DOMAIN ids, NEW o \in Nat, Block(a, o, s[k])
      PROVE  /\ SetsIn(a, o + 2, ids[k], "prot") /\ LocksOn(a, o + Len(s[k]), ids[k])
             /\ Len(s[k]) \in Nat
             /\ \A q \in Places(s[k]) : s[k][q].id = ids[k]
             /\ \A q \in Places(s[k]) : s[k][q].reg = "lock" /\ s[k][q].val = FALSE => q < Len(s[k])
  <2>1. UnlockedWell(s[k], ids[k], R, f) /\ \A y \in 1 .. Len(R) : R[y] \in Settings  BY <1>2, <1>5
  <2>2. /\ \A y \in 1 .. Len(R) : SetsIn(a, o + (y + 1), ids[k], R[y])
        /\ LocksOn(a, o + Len(s[k]), ids[k])
        /\ \A q \in Places(s[k]) : s[k][q].id = ids[k]
        /\ \A q \in Places(s[k]) : s[k][q].reg = "lock" /\ s[k][q].val = FALSE => q < Len(s[k])
    <3> DEFINE b == s[k]
    <3>1. UnlockedWell(b, ids[k], R, f) /\ Block(a, o, b)  BY <1>8, <2>1
    <3> HIDE DEF b
    <3>2. \A y \in 1 .. Len(R) : SetsIn(a, o + (y + 1), ids[k], R[y])  BY <2>1, <3>1, UnlockedSets
    <3>3. LocksOn(a, o + Len(b), ids[k])  BY <2>1, <3>1, UnlockedSets
    <3>4. \A q \in Places(b) : b[q].id = ids[k]  BY <2>1, <3>1, UnlockedSets
    <3>5. \A q \in Places(b) : b[q].reg = "lock" /\ b[q].val = FALSE => q < Len(b)
      BY <2>1, <3>1, UnlockedSets
    <3> QED  BY <3>2, <3>3, <3>4, <3>5 DEF b
  <2>3. 1 \in 1 .. Len(R) /\ 1 + 1 = 2  BY <1>2
  <2>4. SetsIn(a, o + (1 + 1), ids[k], R[1])  BY <2>2, <2>3
  <2>5. SetsIn(a, o + 2, ids[k], "prot")  BY <1>2, <2>3, <2>4
  <2> QED  BY <1>5, <2>2, <2>5, Lengths
<1>9. Len(a) \in Nat /\ (Len(a) + 1) - 1 = Len(a) /\ Places(a) = 1 .. Len(a)  BY <1>7, Lengths DEF Places
<1>10. PICK o \in Nat : Block(a, o, s[x])  BY <1>7
<1>11. SetsIn(a, o + 2, i, "prot") /\ o + 2 \in 1 .. Len(a)
  <2>1. SetsIn(a, o + 2, ids[x], "prot")  BY <1>8, <1>10
  <2> QED  BY <1>9, <2>1 DEF SetsIn, IsWrite
<1>12. LocksOn(a, o + Len(s[x]), i) /\ o + Len(s[x]) \in 1 .. Len(a)
  <2>1. LocksOn(a, o + Len(s[x]), i)  BY <1>8, <1>10
  <2> QED  BY <1>9, <2>1 DEF LocksOn, IsWrite
<1>13. ASSUME NEW j \in 1 .. Len(a), LocksOff(a, j, i)
       PROVE  \E m \in j + 1 .. Len(a) : LocksOn(a, m, i)
  <2>1. PICK k \in DOMAIN ids, u \in Nat : Block(a, u, s[k]) /\ j - u \in Places(s[k])
    BY <1>7, <1>9
  <2> DEFINE q == j - u
  <2>2. q \in Places(s[k]) /\ u + q = j /\ q \in Int  BY <1>9, <2>1
  <2> HIDE DEF q
  <2>3. a[j] = s[k][q]  BY <2>1, <2>2 DEF Block
  <2>4. ids[k] = i /\ q < Len(s[k])  BY <1>8, <1>13, <2>1, <2>2, <2>3 DEF LocksOff, IsWrite
  <2>5. LocksOn(a, u + Len(s[k]), i)  BY <1>8, <2>1, <2>4
  <2>6. Len(s[k]) \in Nat /\ u + Len(s[k]) \in Places(a)  BY <1>8, <2>1, <2>5 DEF LocksOn, IsWrite
  <2>7. u + Len(s[k]) \in j + 1 .. Len(a)  BY <1>9, <2>2, <2>4, <2>6
  <2> QED  BY <2>5, <2>7
<1>14. Ready(a, Len(a) + 1, i)  BY <1>9, <1>11, <1>12, <1>13 DEF Ready, Locked
<1> QED  BY <1>7, <1>14

LEMMA EnableIs ==
  ASSUME NEW ids \in Seq(Ids), ids # <<>>, NEW fails, NEW f \in fails, NEW e, e = Enable(ids, f)
  PROVE  /\ Part(e, {"on"}, fails)
         /\ \A j \in Places(e) : /\ \E x \in DOMAIN ids : e[j].id = ids[x]
                                 /\ \A i : ~LocksOff(e, j, i)
<1> DEFINE s == [k \in DOMAIN ids |-> Torque(ids[k], TRUE, f)]
<1>1. s = [k \in DOMAIN ids |-> s[k]]  OBVIOUS
<1>2. e = FlattenSeq(s)  BY DEF Enable, Each
<1>3. Part(e, {"on"}, fails)  BY <1>2, TorquesPart
<1>4. \A k \in DOMAIN ids : s[k] = Torque(ids[k], TRUE, f)  OBVIOUS
<1> HIDE DEF s
<1>5. IsProg(s) /\ s # <<>> /\ Places(s) = DOMAIN ids  BY <1>1, EachIs
<1>6. ASSUME NEW k \in DOMAIN ids
      PROVE  IsProg(s[k]) /\ \A q \in Places(s[k]) : s[k][q].id = ids[k] /\ s[k][q].val = TRUE
  <2> DEFINE p == s[k]
             i == ids[k]
  <2>1. p = Torque(i, TRUE, f)  BY <1>4
  <2> HIDE DEF p, i
  <2>2. /\ IsProg(p) /\ Places(p) = {1, 2}
        /\ p[1] = Write(i, "torque", TRUE, f) /\ p[2] = Write(i, "lock", TRUE, f)
    <3> DEFINE on == Write(i, "torque", TRUE, f)
               lock == Write(i, "lock", TRUE, f)
    <3>1. p = <<on>> \o <<lock>>  BY <2>1 DEF Torque, Locks
    <3> HIDE DEF on, lock
    <3>2. IsProg(p) /\ Len(p) = 2 /\ p[1] = on /\ p[2] = lock  BY <3>1, Two
    <3>3. Places(p) = {1, 2}  BY <3>2 DEF Places
    <3> QED  BY <3>2, <3>3 DEF on, lock
  <2>3. p[1].id = i /\ p[1].val = TRUE /\ p[2].id = i /\ p[2].val = TRUE  BY <2>2 DEF Write, Op
  <2> QED  BY <2>2, <2>3 DEF p, i
<1>7. \A q \in Places(e) : \E k \in DOMAIN ids : \E o \in Nat : Block(e, o, s[k]) /\ q - o \in Places(s[k])
  BY <1>2, <1>5, <1>6, Flattened
<1>8. ASSUME NEW j \in Places(e)
      PROVE  (\E x \in DOMAIN ids : e[j].id = ids[x]) /\ \A i : ~LocksOff(e, j, i)
  <2>1. PICK k \in DOMAIN ids, o \in Nat : Block(e, o, s[k]) /\ j - o \in Places(s[k])  BY <1>7
  <2>2. j \in Int /\ o + (j - o) = j  BY <1>3, Lengths DEF Part, Places
  <2>3. e[j] = s[k][j - o]  BY <2>1, <2>2 DEF Block
  <2>4. e[j].id = ids[k] /\ e[j].val = TRUE  BY <1>6, <2>1, <2>3
  <2> QED  BY <2>4 DEF LocksOff, IsWrite
<1> QED  BY <1>3, <1>8

LEMMA GuardsMade ==
  ASSUME NEW a, NEW e, NEW may \in SUBSET {"open", "set", "work"}, NEW fails,
         Part(a, may, fails), Part(e, {"on"}, fails),
         \A j \in Places(e) : Ready(a, Len(a) + 1, e[j].id) /\ \A i : ~LocksOff(e, j, i),
         NEW p, p = a \o e
  PROVE  Guards(p)
<1>1. /\ IsProg(a) /\ IsProg(e)
      /\ IsProg(p) /\ Len(p) = Len(a) + Len(e) /\ Len(a) \in Nat /\ Len(e) \in Nat
      /\ Block(p, 0, a) /\ Block(p, Len(a), e)
      /\ \A x \in Places(p) : x \in Places(a) \/ x - Len(a) \in Places(e)
  BY Joined, Lengths DEF Part
<1>2. ASSUME NEW j \in Places(a) PROVE Along(p, j) /\ ~PowersOn(p, j, p[j].id)
  <2>1. j \in Int /\ 0 + j = j  BY <1>1 DEF Places
  <2>2. p[j] = a[j]  BY <1>1, <2>1 DEF Block
  <2>3. PartAt(a, j, may, fails) /\ "on" \notin may  BY DEF Part
  <2>4. ~PowersOn(a, j, a[j].id)  BY <2>3 DEF PartAt
  <2>5. ~PowersOn(p, j, p[j].id)  BY <2>2, <2>4 DEF PowersOn, IsWrite
  <2>6. Along(a, j)  BY <2>3 DEF PartAt, Along, Settings
  <2> QED  BY <2>2, <2>5, <2>6 DEF Along
<1>3. ASSUME NEW q \in Places(e) PROVE Along(p, Len(a) + q) /\ Ready(p, Len(a) + q, e[q].id)
  <2>1. PartAt(e, q, {"on"}, fails)  BY DEF Part
  <2>2. p[Len(a) + q] = e[q]  BY <1>1 DEF Block
  <2>3. Along(p, Len(a) + q)
    <3>1. e[q].do = "write" /\ e[q].reg \notin {"id", "baud"}  BY <2>1 DEF PartAt, Settings
    <3> QED  BY <2>2, <3>1 DEF Along
  <2>4. q \in 1 .. Len(e) + 1  BY <1>1 DEF Places
  <2>5. \A j \in Places(e) : ~LocksOff(e, j, e[q].id)  OBVIOUS
  <2>6. Ready(a, Len(a) + 1, e[q].id)  OBVIOUS
  <2> QED  BY <1>1, <2>3, <2>4, <2>5, <2>6, ReadyBefore
<1>4. \A x \in Places(p) : Along(p, x)
  <2> TAKE x \in Places(p)
  <2>1. CASE x \in Places(a)  BY <1>2, <2>1
  <2>2. CASE x - Len(a) \in Places(e)
    <3>1. Len(a) + (x - Len(a)) = x  BY <1>1 DEF Places
    <3> QED  BY <1>3, <2>2, <3>1
  <2> QED  BY <1>1, <2>1, <2>2
<1>5. ASSUME NEW k \in Places(p), PowersOn(p, k, p[k].id)
      PROVE  Ready(p, k, p[k].id) /\ \A j \in 1 .. k - 1 : Along(p, j)
  <2> DEFINE q == k - Len(a)
  <2>1. q \in Places(e) /\ Len(a) + q = k  BY <1>1, <1>2, <1>5 DEF Places
  <2> HIDE DEF q
  <2>2. p[k] = e[q]  BY <1>1, <2>1 DEF Block
  <2>3. Ready(p, k, p[k].id)  BY <1>3, <2>1, <2>2
  <2>4. \A j \in 1 .. k - 1 : j \in Places(p)  BY <1>1 DEF Places
  <2> QED  BY <1>4, <2>3, <2>4
<1> QED  BY <1>5 DEF Guards

LEMMA GuardsMore ==
  ASSUME NEW a, NEW r, NEW may, "on" \notin may, NEW fails, IsProg(a), Guards(a), Part(r, may, fails),
         NEW p, p = a \o r
  PROVE  Guards(p)
<1>1. /\ IsProg(r)
      /\ IsProg(p) /\ Len(p) = Len(a) + Len(r) /\ Len(a) \in Nat /\ Len(r) \in Nat
      /\ Block(p, 0, a) /\ Block(p, Len(a), r)
      /\ \A x \in Places(p) : x \in Places(a) \/ x - Len(a) \in Places(r)
  BY Joined, Lengths DEF Part
<1>2. ASSUME NEW j \in Places(a) PROVE p[j] = a[j] /\ j \in Places(p) /\ j \in Int
  <2>1. j \in Int /\ 0 + j = j  BY <1>1 DEF Places
  <2> QED  BY <1>1, <2>1 DEF Block
<1>3. ASSUME NEW q \in Places(r) PROVE ~PowersOn(p, Len(a) + q, p[Len(a) + q].id)
  <2>1. PartAt(r, q, may, fails) /\ p[Len(a) + q] = r[q]  BY <1>1 DEF Block, Part
  <2>2. ~PowersOn(r, q, r[q].id)  BY <2>1 DEF PartAt
  <2> QED  BY <2>1, <2>2 DEF PowersOn, IsWrite
<1>4. ASSUME NEW k \in Places(p), PowersOn(p, k, p[k].id)
      PROVE  Ready(p, k, p[k].id) /\ \A j \in 1 .. k - 1 : Along(p, j)
  <2>1. k \in Places(a)
    <3>1. k \in Int /\ Len(a) + (k - Len(a)) = k  BY <1>1 DEF Places
    <3> QED  BY <1>1, <1>3, <1>4, <3>1
  <2> DEFINE i == p[k].id
  <2>2. PowersOn(a, k, a[k].id) /\ a[k].id = i  BY <1>2, <1>4, <2>1 DEF PowersOn, IsWrite
  <2>3. Ready(a, k, i) /\ \A j \in 1 .. k - 1 : Along(a, j)  BY <2>1, <2>2 DEF Guards
  <2> HIDE DEF i
  <2>4. k \in Int /\ \A j \in 1 .. k - 1 : j \in Places(a)  BY <1>1, <2>1 DEF Places
  <2>5. \A j \in 1 .. k - 1 : Along(p, j)  BY <1>2, <2>3, <2>4 DEF Along
  <2>6. ASSUME NEW j \in 1 .. k - 1
        PROVE  /\ LocksOn(p, j, i) <=> LocksOn(a, j, i)
               /\ LocksOff(p, j, i) <=> LocksOff(a, j, i)
    BY <1>2, <2>4 DEF LocksOn, LocksOff, IsWrite
  <2>7. ASSUME NEW j \in 1 .. k - 1, SetsIn(a, j, i, "prot") PROVE SetsIn(p, j, i, "prot")
    <3>1. j \in Int /\ 0 + j = j /\ 0 \in Nat  BY <2>4
    <3>2. SetsIn(p, 0 + j, i, "prot")  BY <1>1, <2>7, <3>1, SetsInBlock
    <3> QED  BY <3>1, <3>2
  <2>8. Locked(p, k, i)
    <3>1. \E j \in 1 .. k - 1 : LocksOn(p, j, i)  BY <2>3, <2>6 DEF Ready, Locked
    <3>2. ASSUME NEW j \in 1 .. k - 1, LocksOff(p, j, i) PROVE \E m \in j + 1 .. k - 1 : LocksOn(p, m, i)
      <4>1. PICK m \in j + 1 .. k - 1 : LocksOn(a, m, i)  BY <2>3, <2>6, <3>2 DEF Ready, Locked
      <4>2. m \in 1 .. k - 1  BY <2>4
      <4> QED  BY <2>6, <4>1, <4>2
    <3> QED  BY <3>1, <3>2 DEF Locked
  <2>9. Ready(p, k, i)  BY <2>3, <2>7, <2>8 DEF Ready
  <2> QED  BY <2>5, <2>9 DEF i
<1> QED  BY <1>4 DEF Guards

LEMMA GuardsNone ==
  ASSUME NEW p, NEW may, "on" \notin may, NEW fails, Part(p, may, fails)
  PROVE  Guards(p)
BY DEF Guards, Part, PartAt

LEMMA PartMore ==
  ASSUME NEW p, NEW may, NEW more, may \subseteq more, NEW fails, NEW all, fails \subseteq all,
         Part(p, may, fails)
  PROVE  Part(p, more, all)
BY DEF Part, PartAt

\* Every tool takes the bus first.
Starting(p) == IsProg(p) /\ p # <<>> /\ p[1].do = "open"

LEMMA StartingOn ==
  ASSUME NEW a, NEW b, Starting(a), IsProg(b), NEW p, p = a \o b
  PROVE  Starting(p)
<1>1. /\ IsProg(p) /\ Len(p) = Len(a) + Len(b) /\ Block(p, 0, a) /\ IsProg(a)
      /\ Len(a) \in Nat /\ Len(b) \in Nat /\ Len(a) # 0
  BY Joined, Lengths DEF Starting
<1>2. 1 \in Places(a) /\ 0 + 1 = 1  BY <1>1 DEF Places
<1>3. p[0 + 1] = a[1] /\ 0 + 1 \in Places(p)  BY <1>1, <1>2 DEF Block
<1>4. Len(p) # 0  BY <1>1
<1> QED  BY <1>1, <1>2, <1>3, <1>4, Lengths DEF Starting

LEMMA OpenStarts ==
  ASSUME NEW speed, NEW f
  PROVE  Starting(Open(speed, f))
<1> DEFINE o == Op("open", None, None, speed, f)
<1>1. o.do = "open" /\ Open(speed, f) = <<o>>  BY DEF Op, Open
<1> HIDE DEF o
<1> QED  BY <1>1, One DEF Starting

\* A program that renames nothing and says nothing.
Plain(p, may) ==
  /\ Sound(p)
  /\ Starting(p)
  /\ Guards(p)
  /\ \A k \in Places(p) :
       /\ p[k].do \in {"write"} \cup may
       /\ p[k].do = "write" => p[k].reg \notin {"id", "baud"}
       /\ LocksOff(p, k, p[k].id) => PowersOff(p, k - 1, p[k].id) \/ Mends(p, k, p[k].id)

LEMMA PartSound ==
  ASSUME NEW p, NEW may, NEW d, Falls2(d), Part(p, may, Fails(d))
  PROVE  Sound(p)
<1>1. IsProg(p) /\ \A k \in Places(p) : PartAt(p, k, may, Fails(d))  BY DEF Part
<1>2. ASSUME NEW k \in Places(p)
      PROVE  /\ Falls3(p[k].fail)
             /\ p[k].do = "write" => Fits(p[k].reg, p[k].val)
             /\ p[k].do = "open" => p[k].val \in Speeds /\ p[k].fail \in {<<>>, Close}
             /\ p[k].do = "close" => k = Len(p)
  <2>1. PartAt(p, k, may, Fails(d))  BY <1>1
  <2> QED  BY <2>1, FailsFall, SpeedAssumption DEF PartAt, Fits
<1> QED  BY <1>1, <1>2 DEF Sound

LEMMA PlainIs ==
  ASSUME NEW p, NEW may, NEW d, Falls2(d), Part(p, may, Fails(d)), Guards(p), Starting(p)
  PROVE  Plain(p, may)
<1>1. IsProg(p) /\ \A k \in Places(p) : PartAt(p, k, may, Fails(d))  BY DEF Part
<1>2. Sound(p)  BY PartSound
<1> QED  BY <1>1, <1>2 DEF Plain, PartAt, Settings

----------------------------------------------------------------------------
(* The programs of the tools that move the arm.                            *)

Kinds == {"open", "set", "work", "on", "off", "close"}

Guarding(p, d) == Part(p, {"open", "set", "work", "on"}, Fails(d)) /\ Guards(p) /\ Starting(p)

LEMMA FailsHave ==
  ASSUME NEW d
  PROVE  /\ <<>> \in Fails(d) /\ Close \in Fails(d) /\ d \in Fails(d)
         /\ {<<>>, Close} \subseteq Fails(d) /\ Ends(d) \subseteq Fails(d)
BY DEF Fails, Ends

LEMMA SafetyIs ==
  ASSUME NEW ids \in Seq(Ids), ids # <<>>, NEW d, NEW f \in Ends(d), IsProg(d), NEW p, p = Safety(ids, f)
  PROVE  Part(p, {"set"}, Fails(d))
<1>1. p = FlattenSeq([k \in DOMAIN ids |-> Unlocked(ids[k], <<"prot">>, f)])  BY DEF Safety, Each
<1> QED  BY <1>1, SafetyPart

\* Enabling the motors whose protection the program has set.
LEMMA EnableGuards ==
  ASSUME NEW ids \in Seq(Ids), ids # <<>>, NEW d, NEW g \in Ends(d), NEW a,
         Part(a, {"open", "set", "work"}, Fails(d)), Starting(a),
         \A x \in DOMAIN ids : Ready(a, Len(a) + 1, ids[x]), NEW p, p = a \o Enable(ids, g)
  PROVE  Guarding(p, d)
<1> DEFINE e == Enable(ids, g)
<1>1. /\ Part(e, {"on"}, Fails(d))
      /\ \A j \in Places(e) : (\E x \in DOMAIN ids : e[j].id = ids[x]) /\ \A i : ~LocksOff(e, j, i)
  BY FailsHave, EnableIs
<1>2. p = a \o e  OBVIOUS
<1> HIDE DEF e
<1>3. \A j \in Places(e) : Ready(a, Len(a) + 1, e[j].id) /\ \A i : ~LocksOff(e, j, i)  BY <1>1
<1>4. Guards(p)  BY <1>1, <1>2, <1>3, GuardsMade
<1>5. Part(a \o e, {"open", "set", "work", "on"}, Fails(d))  BY <1>1, PartJoin
<1>6. Starting(p)  BY <1>1, <1>2, StartingOn DEF Part
<1> QED  BY <1>2, <1>4, <1>5, <1>6 DEF Guarding

LEMMA EnergizeGuards ==
  ASSUME NEW ids \in Seq(Ids), ids # <<>>, NEW d, IsProg(d), NEW f \in Ends(d), NEW g \in Ends(d), NEW x,
         Part(x, {"open"}, Fails(d)), Starting(x), NEW p, p = x \o Energize(ids, f, g)
  PROVE  Guarding(p, d)
<1> DEFINE s == Safety(ids, f)
           e == Enable(ids, g)
           a == x \o s
<1>1. Part(s, {"set"}, Fails(d)) /\ IsProg(s) /\ IsProg(x)  BY SafetyIs DEF Part
<1>2. IsProg(e)
  <2>1. Part(e, {"on"}, Fails(d))  BY FailsHave, EnableIs
  <2> QED  BY <2>1 DEF Part
<1>3. p = x \o (s \o e)  BY DEF Energize
<1>4. \A y \in DOMAIN ids : Ready(s, Len(s) + 1, ids[y])  BY SafetyReady
<1> HIDE DEF s, e
<1>5. (x \o s) \o e = x \o (s \o e)  BY <1>1, <1>2, JoinedTwice
<1>6. p = a \o e  BY <1>3, <1>5
<1>7. \A y \in DOMAIN ids : Ready(a, Len(a) + 1, ids[y])  BY <1>1, <1>4, ReadyBehind
<1>8. Part(a, {"open", "set", "work"}, Fails(d))  BY <1>1, PartJoin
<1>9. Starting(a)  BY <1>1, StartingOn
<1> HIDE DEF a
<1>10. p = a \o Enable(ids, g)  BY <1>6 DEF e
<1> QED  BY <1>7, <1>8, <1>10, <1>9, EnableGuards

LEMMA GuardsOn ==
  ASSUME NEW a, NEW d, Guarding(a, d), NEW r, NEW may \in SUBSET {"set", "work"}, Part(r, may, Fails(d)),
         NEW p, p = a \o r
  PROVE  Guarding(p, d)
<1>1. IsProg(a) /\ "on" \notin may  BY DEF Guarding, Part
<1>2. Guards(p)  BY <1>1, GuardsMore DEF Guarding
<1>3. Part(a \o r, {"open", "set", "work", "on"}, Fails(d))  BY PartJoin DEF Guarding
<1>4. Starting(p)  BY StartingOn DEF Guarding, Part
<1> QED  BY <1>2, <1>3, <1>4 DEF Guarding

LEMMA GuardsEnd ==
  ASSUME NEW a, NEW d, Falls2(d), Guarding(a, d), NEW r, Part(r, {"off", "close"}, {<<>>, Close}),
         NEW p, p = a \o r
  PROVE  Plain(p, Kinds)
<1>1. IsProg(a) /\ Part(r, {"off", "close"}, Fails(d))  BY PartMore, FailsHave DEF Guarding, Part
<1>2. Guards(p)  BY <1>1, GuardsMore DEF Guarding
<1>3. Part(a \o r, Kinds, Fails(d))  BY <1>1, PartJoin DEF Guarding, Kinds
<1>4. Starting(p)  BY <1>1, StartingOn DEF Guarding, Part
<1> QED  BY <1>2, <1>3, <1>4, PlainIs

LEMMA WorkIs ==
  ASSUME NEW d, NEW f \in Fails(d)
  PROVE  Part(Step("work", f), {"work"}, Fails(d))
BY StepPart

LEMMA CapIs ==
  ASSUME NEW ids \in Seq(Ids), ids # <<>>, NEW d, IsProg(d), NEW f \in Ends(d)
  PROVE  /\ Part(Each(ids, LAMBDA i : Unlocked(i, <<"cap">>, f)), {"set"}, Fails(d))
         /\ Part(Each(ids, LAMBDA i : Unlocked(i, <<"low", "high">>, f)), {"set"}, Fails(d))
<1>1. Part(FlattenSeq([k \in DOMAIN ids |-> Unlocked(ids[k], <<"cap">>, f)]), {"set"}, Fails(d))
  BY SafetyPart
<1>2. Part(FlattenSeq([k \in DOMAIN ids |-> Unlocked(ids[k], <<"low", "high">>, f)]), {"set"}, Fails(d))
  BY SafetyPart
<1> QED  BY <1>1, <1>2 DEF Each

LEMMA DisableIs ==
  ASSUME NEW ids \in Seq(Ids), ids # <<>>, NEW d, d = Disable(ids)
  PROVE  /\ Falls2(d) /\ IsProg(d) /\ d \in Ends(d) /\ <<>> \in Ends(d) /\ Close \in Ends(d)
         /\ Part(d, {"off", "close"}, {<<>>, Close})
         /\ Part(Step("work", d), {"work"}, Fails(d))
         /\ Part(Open(Speed, <<>>), {"open"}, Fails(d)) /\ Starting(Open(Speed, <<>>))
<1>1. Part(d, {"close"}, {<<>>, Close}) /\ Falls2(d) /\ IsProg(d)  BY DisableFalls
<1>2. Part(d, {"off", "close"}, {<<>>, Close})  BY <1>1, PartMore
<1>3. Part(Step("work", d), {"work"}, Fails(d))  BY FailsHave, WorkIs
<1>4. Part(Open(Speed, <<>>), {"open"}, Fails(d))  BY FailsHave, OpenPart
<1> QED  BY <1>1, <1>2, <1>3, <1>4, OpenStarts DEF Ends

LEMMA DemoPlain ==
  ASSUME NEW ids \in Seq(Ids), ids # <<>>
  PROVE  Plain(Demo(ids), Kinds)
<1> DEFINE d == Disable(ids)
           x == Open(Speed, <<>>)
           a == x \o Energize(ids, d, d)
           w == Step("work", d)
           c == Each(ids, LAMBDA i : Unlocked(i, <<"cap">>, d))
<1>1. /\ Falls2(d) /\ IsProg(d) /\ d \in Ends(d) /\ Part(d, {"off", "close"}, {<<>>, Close})
      /\ Part(w, {"work"}, Fails(d)) /\ Part(x, {"open"}, Fails(d)) /\ Starting(x)
  BY DisableIs
<1>2. Part(c, {"set"}, Fails(d))  BY <1>1, CapIs
<1>3. Demo(ids) = ((a \o w) \o c) \o d  BY DEF Demo
<1> HIDE DEF d, x, w, c
<1>4. Guarding(a, d)  BY <1>1, EnergizeGuards
<1> HIDE DEF a
<1>5. Guarding(a \o w, d)  BY <1>1, <1>4, GuardsOn
<1>6. Guarding((a \o w) \o c, d)  BY <1>2, <1>5, GuardsOn
<1> QED  BY <1>1, <1>3, <1>6, GuardsEnd

LEMMA MovePlain ==
  ASSUME NEW ids \in Seq(Ids), ids # <<>>
  PROVE  Plain(Move(ids), Kinds) /\ Plain(Verify(ids), Kinds)
<1> DEFINE d == Disable(ids)
           x == Open(Speed, <<>>)
           w == Step("work", d)
           a == x \o Energize(ids, <<>>, <<>>)
           b == x \o Energize(ids, <<>>, d)
<1>1. /\ Falls2(d) /\ IsProg(d) /\ d \in Ends(d) /\ <<>> \in Ends(d)
      /\ Part(d, {"off", "close"}, {<<>>, Close})
      /\ Part(w, {"work"}, Fails(d)) /\ Part(x, {"open"}, Fails(d)) /\ Starting(x)
  BY DisableIs
<1>2. Move(ids) = (a \o w) \o d /\ Verify(ids) = (b \o w) \o d  BY DEF Move, Verify
<1> HIDE DEF d, x, w
<1>3. Guarding(a, d) /\ Guarding(b, d)  BY <1>1, EnergizeGuards
<1> HIDE DEF a, b
<1>4. Guarding(a \o w, d) /\ Guarding(b \o w, d)  BY <1>1, <1>3, GuardsOn
<1> QED  BY <1>1, <1>2, <1>4, GuardsEnd

LEMMA CheckPlain ==
  ASSUME NEW ids \in Seq(Ids), ids # <<>>
  PROVE  Plain(Check(ids), Kinds)
<1> DEFINE d == Limp
           x == Open(Speed, <<>>)
           w == Step("work", d)
           a == x \o Energize(ids, d, d)
<1>1. /\ Falls2(d) /\ IsProg(d) /\ d \in Ends(d) /\ Part(d, {"off", "close"}, {<<>>, Close})
      /\ Part(w, {"work"}, Fails(d)) /\ Part(x, {"open"}, Fails(d)) /\ Starting(x)
  BY LimpFalls, FailsHave, WorkIs, OpenPart, OpenStarts DEF Ends
<1>2. Check(ids) = (a \o w) \o d  BY DEF Check
<1> HIDE DEF d, x, w
<1>3. Guarding(a, d)  BY <1>1, EnergizeGuards
<1> HIDE DEF a
<1>4. Guarding(a \o w, d)  BY <1>1, <1>3, GuardsOn
<1> QED  BY <1>1, <1>2, <1>4, GuardsEnd

\* The tools that begin by hand.
LEMMA ByHandIs ==
  ASSUME NEW ids \in Seq(Ids), ids # <<>>, NEW d
  PROVE  Part(ByHand(ids), {"open"}, Fails(d)) /\ IsProg(ByHand(ids)) /\ Starting(ByHand(ids))
<1> DEFINE x == Open(Speed, <<>>)
           r == Each(ids, LAMBDA i : Torque(i, FALSE, <<>>))
<1>1. Part(x, {"open"}, Fails(d))  BY FailsHave, OpenPart
<1>2. Part(r, {}, {<<>>, Close})  BY ReleaseFalls
<1>3. ByHand(ids) = x \o r /\ Starting(x)  BY OpenStarts DEF ByHand
<1> HIDE DEF x, r
<1>4. Part(r, {}, Fails(d))  BY <1>2, FailsHave, PartMore
<1>5. Part(x \o r, {"open"}, Fails(d))  BY <1>1, <1>4, PartJoin
<1>6. Starting(x \o r)  BY <1>2, <1>3, StartingOn DEF Part
<1> QED  BY <1>3, <1>5, <1>6 DEF Part

LEMMA MeasurePlain ==
  ASSUME NEW ids \in Seq(Ids), ids # <<>>
  PROVE  Plain(Measure(ids), Kinds)
<1> DEFINE d == Disable(ids)
           x == ByHand(ids)
           s == Safety(ids, <<>>)
           w == Step("work", d)
           a == x \o s
           b == a \o w
           c == b \o Enable(ids, d)
<1>1. /\ Falls2(d) /\ IsProg(d) /\ d \in Ends(d) /\ <<>> \in Ends(d)
      /\ Part(d, {"off", "close"}, {<<>>, Close}) /\ Part(w, {"work"}, Fails(d))
  BY DisableIs
<1>2. Measure(ids) = (c \o w) \o d  BY DEF Measure
<1> HIDE DEF d
<1>3. Part(x, {"open"}, Fails(d)) /\ IsProg(x) /\ Starting(x)  BY ByHandIs
<1>4. /\ Part(s, {"set"}, Fails(d)) /\ IsProg(s)
      /\ \A y \in DOMAIN ids : Ready(s, Len(s) + 1, ids[y])
  BY <1>1, SafetyIs, SafetyReady
<1>5. w = <<w[1]>> /\ Len(w) = 1 /\ w[1].do = "work"
  BY One DEF Step, Op
<1> HIDE DEF x, s, w
<1>6. Part(a, {"open", "set"}, Fails(d))  BY <1>3, <1>4, PartJoin
<1>7. \A y \in DOMAIN ids : Ready(a, Len(a) + 1, ids[y])  BY <1>3, <1>4, ReadyBehind
<1>8. Starting(a)  BY <1>3, <1>4, StartingOn
<1> HIDE DEF a
<1>9. /\ IsProg(a) /\ IsProg(w) /\ Len(a) \in Nat
      /\ Len(a \o w) = Len(a) + 1
  BY <1>1, <1>5, <1>6, Joined, Lengths DEF Part
<1>10. Part(b, {"open", "set", "work"}, Fails(d))  BY <1>1, <1>6, PartJoin
<1>11. ASSUME NEW y \in DOMAIN ids PROVE Ready(b, Len(b) + 1, ids[y])
  <2>1. \A j \in Places(w) : ~LocksOff(w, j, ids[y])  BY <1>5 DEF Places, LocksOff, IsWrite
  <2>2. 2 \in 1 .. Len(w) + 1  BY <1>5
  <2>3. Ready(b, Len(a) + 2, ids[y])  BY <1>7, <1>9, <2>1, <2>2, ReadyBefore
  <2> QED  BY <1>9, <2>3
<1>12. Starting(b)  BY <1>9, <1>8, StartingOn
<1> HIDE DEF b
<1>13. Guarding(c, d)  BY <1>1, <1>10, <1>11, <1>12, EnableGuards
<1> HIDE DEF c
<1>14. Guarding(c \o w, d)  BY <1>1, <1>13, GuardsOn
<1> QED  BY <1>1, <1>2, <1>14, GuardsEnd

LEMMA ScalePlain ==
  ASSUME NEW ids \in Seq(Ids), ids # <<>>
  PROVE  Plain(Scale(ids), Kinds)
<1> DEFINE d == Close
           x == ByHand(ids)
           w == Step("work", <<>>)
           r == Each(ids, LAMBDA i : Torque(i, FALSE, <<>>))
           a == x \o Energize(ids, <<>>, <<>>)
<1>1. Falls2(d) /\ IsProg(d) /\ <<>> \in Ends(d) /\ Part(d, {"off", "close"}, {<<>>, Close})
  BY CloseFalls, CloseIs, PartMore DEF Ends
<1>2. Part(w, {"work"}, Fails(d))  BY FailsHave, WorkIs
<1>3. Part(r, {}, {<<>>, Close})  BY ReleaseFalls
<1>4. Scale(ids) = ((a \o w) \o r) \o d  BY DEF Scale
<1> HIDE DEF d
<1>5. Part(x, {"open"}, Fails(d)) /\ Starting(x)  BY ByHandIs
<1> HIDE DEF x, w, r
<1>6. Part(r, {}, Fails(d))  BY <1>3, FailsHave, PartMore
<1>7. Guarding(a, d)  BY <1>1, <1>5, EnergizeGuards
<1> HIDE DEF a
<1>8. Guarding(a \o w, d)  BY <1>2, <1>7, GuardsOn
<1>9. Guarding((a \o w) \o r, d)  BY <1>6, <1>8, GuardsOn
<1> QED  BY <1>1, <1>4, <1>9, GuardsEnd

LEMMA FindLimitsPlain ==
  ASSUME NEW ids \in Seq(Ids), ids # <<>>
  PROVE  Plain(FindLimits(ids), Kinds)
<1> DEFINE d == Each(ids, LAMBDA i : Torque(i, FALSE, <<>>))
           x == ByHand(ids)
           w == Step("work", d)
           c == Each(ids, LAMBDA i : Unlocked(i, <<"low", "high">>, <<>>))
           p == (((x \o w) \o d) \o c) \o Close
<1>1. Falls2(d) /\ IsProg(d) /\ Part(d, {}, {<<>>, Close})  BY ReleaseFalls
<1>2. FindLimits(ids) = p  BY DEF FindLimits
<1> HIDE DEF d
<1>3. Part(w, {"work"}, Fails(d))  BY FailsHave, WorkIs
<1>4. <<>> \in Ends(d)  BY DEF Ends
<1>5. Part(c, {"set"}, Fails(d))  BY <1>1, <1>4, CapIs
<1>6. Part(x, {"open"}, Fails(d)) /\ Starting(x)  BY ByHandIs
<1> HIDE DEF x, w, c
<1>7. Part(d, {}, Fails(d)) /\ Part(Close, {"close"}, Fails(d))  BY <1>1, CloseIs, FailsHave, PartMore
<1> DEFINE all == {"open", "work", "set"}
<1>8. Part(x \o w, all, Fails(d))  BY <1>3, <1>6, PartJoin
<1>9. Part((x \o w) \o d, all, Fails(d))  BY <1>7, <1>8, PartJoin
<1>10. Part(((x \o w) \o d) \o c, all, Fails(d))  BY <1>5, <1>9, PartJoin
<1>11. Part(p, {"open", "work", "set", "close"}, Fails(d))  BY <1>7, <1>10, PartJoin
<1>12. Starting(p)
  <2>1. Starting(x \o w)  BY <1>3, <1>6, StartingOn DEF Part
  <2>2. Starting((x \o w) \o d)  BY <1>1, <2>1, StartingOn
  <2>3. Starting(((x \o w) \o d) \o c)  BY <1>5, <2>2, StartingOn DEF Part
  <2> QED  BY <1>7, <2>3, StartingOn DEF Part
<1> HIDE DEF p
<1>13. Guards(p)  BY <1>11, GuardsNone
<1>14. Part(p, Kinds, Fails(d))  BY <1>11, PartMore DEF Kinds
<1> QED  BY <1>1, <1>2, <1>13, <1>14, <1>12, PlainIs

\* The tools that switch off, and 320 up to its plan.
LEMMA StepsPlain ==
  Plain(TorqueOff, Kinds) /\ Plain(Persist, {"open", "plan", "close"})
<1> DEFINE d == Close
           x == Open(Speed, <<>>)
           o == Step("off", Close)
           l == Step("plan", Close)
<1>1. Falls2(d)  BY CloseFalls
<1>2. /\ Part(x, {"open"}, Fails(d)) /\ Part(o, {"off"}, Fails(d)) /\ Part(l, {"plan"}, Fails(d))
      /\ Part(Close, {"close"}, Fails(d)) /\ Starting(x)
  BY FailsHave, OpenPart, OpenStarts, StepPart, CloseIs, PartMore
<1>3. TorqueOff = (x \o o) \o Close /\ Persist = x \o l  BY DEF TorqueOff, Persist
<1> HIDE DEF d, x, o, l
<1>4. Part(x \o o, {"open", "off"}, Fails(d))  BY <1>2, PartJoin
<1>5. Part((x \o o) \o Close, {"open", "off", "close"}, Fails(d))  BY <1>2, <1>4, PartJoin
<1>6. Part(x \o l, {"open", "plan", "close"}, Fails(d))  BY <1>2, PartJoin
<1>7. Guards((x \o o) \o Close) /\ Guards(x \o l)  BY <1>5, <1>6, GuardsNone
<1>8. Part((x \o o) \o Close, Kinds, Fails(d))  BY <1>5, PartMore DEF Kinds
<1>9. Starting(x \o l)  BY <1>2, StartingOn DEF Part
<1>10. Starting((x \o o) \o Close)
  <2>1. Starting(x \o o)  BY <1>2, StartingOn DEF Part
  <2> QED  BY <1>2, <2>1, StartingOn DEF Part
<1> QED  BY <1>1, <1>3, <1>6, <1>7, <1>8, <1>9, <1>10, PlainIs

----------------------------------------------------------------------------
(* The programs that rename a motor.                                       *)

Extends(p, a, n, o) ==
  /\ IsProg(p) /\ Len(p) = n + 1 /\ n \in Nat
  /\ p[n + 1] = o /\ \A k \in 1 .. n : p[k] = a[k]

LEMMA Longer ==
  ASSUME NEW a, IsProg(a), NEW n, Len(a) = n, NEW o, NEW p, p = a \o <<o>>
  PROVE  Extends(p, a, n, o)
<1> DEFINE b == <<o>>
<1>1. IsProg(b) /\ Len(b) = 1 /\ b[1] = o  BY One
<1> HIDE DEF b
<1>2. /\ IsProg(p) /\ Len(p) = n + 1 /\ n \in Nat
      /\ Block(p, 0, a) /\ Block(p, n, b)
  <2>1. p = a \o b  BY DEF b
  <2> QED  BY <1>1, <2>1, Joined, Lengths
<1>3. p[n + 1] = o  BY <1>1, <1>2 DEF Block, Places
<1>4. ASSUME NEW k \in 1 .. n PROVE p[k] = a[k]
  <2>1. 0 + k = k /\ k \in Places(a)  BY <1>2 DEF Places
  <2>2. p[0 + k] = a[k]  BY <1>2, <2>1 DEF Block
  <2> QED  BY <2>1, <2>2
<1> QED  BY <1>2, <1>3, <1>4 DEF Extends

LEMMA NothingMore ==
  ASSUME NEW a, IsProg(a)
  PROVE  a \o <<>> = a
<1> DEFINE S == {a[k] : k \in 1 .. Len(a)}
<1>1. a \in Seq(S)  BY DEF IsProg
<1> HIDE DEF S
<1> QED  BY <1>1

\* A motor that is unlocked is renamed and locked, and found in the end.
Renamer(p, new, at, to) ==
  /\ Sound(p)
  /\ p # <<>>
  /\ \A k \in Places(p) :
       /\ p[k].do \in {"write", "open", "close", "ping", "done"}
       /\ p[k].do = "write" => p[k].reg \in {"lock", "id", "baud"}
       /\ LocksOff(p, k, p[k].id) => Renames(p, k + 1, p[k].id) \/ Moves(p, k + 1, p[k].id)
       /\ p[k].do = "write" /\ p[k].reg = "id" => Renames(p, k, p[k].id)
       /\ p[k].do = "write" /\ p[k].reg = "baud" => Moves(p, k, p[k].id)
       /\ p[k].do = "done" =>
            /\ \A j \in 1 .. k - 1 : p[j].do = "open" => p[j].val = to
            /\ at = to \/ \E j \in 1 .. k - 3 : IsDo(p, j, "open")
            /\ k > 3 /\ IsDo(p, k - 1, "ping") /\ p[k - 1].id = new /\ p[k - 1].val = TRUE
            /\ LocksOn(p, k - 2, new)

\* A change of the lock, of the id, of the speed, and the steps between them.
IsLock(o, i, on)   == o.do = "write" /\ o.id = i /\ o.reg = "lock" /\ o.val = on /\ o.fail = Close
IsName(o, i, new)  == o.do = "write" /\ o.id = i /\ o.reg = "id" /\ o.val = new /\ o.fail = Close
IsBaud(o, i, to)   == o.do = "write" /\ o.id = i /\ o.reg = "baud" /\ o.val = to /\ o.fail = Close
IsPing(o, i, on)   == o.do = "ping" /\ o.id = i /\ o.val = on /\ o.fail = Close
IsStep(o, do, f)   == o.do = do /\ o.fail = f
IsOpen(o, to, f)   == o.do = "open" /\ o.val = to /\ o.fail = f

\* How all of them end: from place n + 1 on the motor answers to its new id.
Ending(p, n, new) ==
  /\ IsProg(p) /\ n \in Nat \ {0} /\ Len(p) = n + 3
  /\ IsPing(p[n + 1], new, TRUE) /\ IsStep(p[n + 2], "done", <<>>) /\ IsStep(p[n + 3], "close", <<>>)

Keeps(p, q, n) == \A k \in 1 .. n : p[k] = q[k]

IsFind(o, i) == IsPing(o, i, TRUE)

Ended(q, o) == ((q \o <<o>>) \o Step("done", <<>>)) \o Close

IsEnd(p, q, n, new) == Ending(p, n, new) /\ Keeps(p, q, n)

LEMMA Ends3 ==
  ASSUME NEW q, IsProg(q), NEW n \in Nat \ {0}, Len(q) = n, NEW new, NEW ping, IsFind(ping, new),
         NEW p, p = Ended(q, ping)
  PROVE  IsEnd(p, q, n, new)
<1> DEFINE d == Op("done", None, None, None, <<>>)
           c == Op("close", None, None, None, <<>>)
           p1 == q \o <<ping>>
           p2 == p1 \o <<d>>
<1>1. p = p2 \o <<c>>  BY DEF Ended, Step, Close
<1>2. IsStep(d, "done", <<>>) /\ IsStep(c, "close", <<>>)  BY DEF Op, IsStep
<1> HIDE DEF d, c
<1>3. Extends(p1, q, n, ping)  BY Longer
<1> HIDE DEF p1
<1>4. IsProg(p1) /\ Len(p1) = n + 1 /\ p1[n + 1] = ping /\ \A k \in 1 .. n : p1[k] = q[k]
  BY <1>3 DEF Extends
<1>5. Extends(p2, p1, n + 1, d)  BY <1>4, Longer
<1>6. /\ IsProg(p2) /\ Len(p2) = (n + 1) + 1 /\ p2[(n + 1) + 1] = d
      /\ \A k \in 1 .. n + 1 : p2[k] = p1[k]
  BY <1>5 DEF Extends
<1>7. Len(p2) = n + 2 /\ p2[n + 2] = d  BY <1>6
<1> HIDE DEF p2
<1>8. Extends(p, p2, n + 2, c)  BY <1>1, <1>6, <1>7, Longer
<1>9. /\ IsProg(p) /\ Len(p) = (n + 2) + 1 /\ p[(n + 2) + 1] = c
      /\ \A k \in 1 .. n + 2 : p[k] = p2[k]
  BY <1>8 DEF Extends
<1>10. p[n + 3] = c /\ p[n + 2] = d /\ p[n + 1] = ping /\ Len(p) = n + 3
  BY <1>4, <1>6, <1>7, <1>9
<1>11. \A k \in 1 .. n : p[k] = q[k]  BY <1>4, <1>6, <1>9
<1>12. IsPing(ping, new, TRUE)  BY DEF IsFind
<1> QED  BY <1>2, <1>9, <1>10, <1>11, <1>12 DEF IsEnd, Ending, Keeps


LEMMA HasPlaces ==
  ASSUME NEW p, IsProg(p), NEW n \in Nat \ {0}, Len(p) = n
  PROVE  Places(p) = 1 .. n /\ p # <<>>
BY Lengths DEF Places

\* An operation of a renaming.
Fine(o) ==
  /\ Falls3(o.fail)
  /\ o.do = "write" => Fits(o.reg, o.val) /\ o.reg \in {"lock", "id", "baud"}
  /\ o.do \in {"write", "open", "close", "ping", "done"}

LEMMA AllFine ==
  ASSUME NEW o
  PROVE  /\ \A i \in Ids, on \in BOOLEAN : IsLock(o, i, on) => Fine(o)
         /\ \A i \in Ids, on \in BOOLEAN : IsPing(o, i, on) => Fine(o)
         /\ \A i \in Ids, new \in Ids : IsName(o, i, new) => Fine(o)
         /\ \A i \in Ids, to \in Speeds : IsBaud(o, i, to) => Fine(o)
         /\ \A to \in Speeds : IsOpen(o, to, <<>>) \/ IsOpen(o, to, Close) => Fine(o)
         /\ IsStep(o, "done", <<>>) \/ IsStep(o, "close", <<>>) => Fine(o)
<1>1. Falls3(<<>>) /\ Falls3(Close)  BY QuietNone, CloseFalls
<1>2. ASSUME NEW i \in Ids, NEW on \in BOOLEAN, IsLock(o, i, on)  PROVE Fine(o)
  BY <1>1, <1>2 DEF IsLock, Fine, Fits
<1>3. ASSUME NEW i \in Ids, NEW on \in BOOLEAN, IsPing(o, i, on)  PROVE Fine(o)
  BY <1>1, <1>3 DEF IsPing, Fine
<1>4. ASSUME NEW i \in Ids, NEW new \in Ids, IsName(o, i, new)  PROVE Fine(o)
  BY <1>1, <1>4 DEF IsName, Fine, Fits
<1>5. ASSUME NEW i \in Ids, NEW to \in Speeds, IsBaud(o, i, to)  PROVE Fine(o)
  BY <1>1, <1>5 DEF IsBaud, Fine, Fits
<1>6. ASSUME NEW to \in Speeds, IsOpen(o, to, <<>>) \/ IsOpen(o, to, Close)  PROVE Fine(o)
  BY <1>1, <1>6 DEF IsOpen, Fine
<1>7. ASSUME IsStep(o, "done", <<>>) \/ IsStep(o, "close", <<>>)  PROVE Fine(o)
  BY <1>1, <1>7 DEF IsStep, Fine
<1> QED  BY <1>2, <1>3, <1>4, <1>5, <1>6, <1>7

\* A motor is locked as it was.
LEMMA SameLocks ==
  ASSUME NEW p, IsProg(p), Len(p) = 5, Places(p) = 1 .. 5, p # <<>>,
         NEW i \in Ids, NEW new \in Ids, NEW at \in Speeds, NEW to \in Speeds,
         at = to, i = new,
      /\ IsLock(p[1], i, FALSE) /\ IsLock(p[2], new, TRUE) /\ IsPing(p[3], new, TRUE)
      /\ IsStep(p[4], "done", <<>>) /\ IsStep(p[5], "close", <<>>)
  PROVE  Renamer(p, new, at, to)
<1>1. /\ Places(p) = 1 .. 5 /\ p # <<>>
      /\ IsLock(p[1], i, FALSE) /\ IsLock(p[2], new, TRUE) /\ IsPing(p[3], new, TRUE)
      /\ IsStep(p[4], "done", <<>>) /\ IsStep(p[5], "close", <<>>)
  OBVIOUS
<1>2. \A k \in 1 .. 5 : k = 1 \/ k = 2 \/ k = 3 \/ k = 4 \/ k = 5  OBVIOUS
<1>3. ASSUME NEW k \in 1 .. 5
      PROVE  /\ Falls3(p[k].fail)
             /\ p[k].do = "write" => Fits(p[k].reg, p[k].val) /\ p[k].reg \in {"lock", "id", "baud"}
             /\ p[k].do \in {"write", "open", "close", "ping", "done"}
  <2>1. Fine(p[k])  BY <1>1, <1>2, AllFine
  <2> QED  BY <2>1 DEF Fine
<1>4. ASSUME NEW k \in 1 .. 5
      PROVE  /\ p[k].do = "close" => k = 5
             /\ p[k].do = "open" => FALSE
             /\ p[k].do = "done" => k = 4
  BY <1>1, <1>2 DEF IsLock, IsName, IsBaud, IsPing, IsStep, IsOpen
<1>5. ASSUME NEW k \in 1 .. 5
      PROVE  /\ p[k].do = "write" /\ p[k].reg = "id" => FALSE
             /\ p[k].do = "write" /\ p[k].reg = "baud" => FALSE
             /\ p[k].do = "write" /\ p[k].reg = "lock" /\ p[k].val = FALSE => k = 1 /\ p[k].id = i
  BY <1>1, <1>2 DEF IsLock, IsName, IsBaud, IsPing, IsStep, IsOpen
<1>6. ASSUME NEW k \in 1 .. 5, LocksOff(p, k, p[k].id) PROVE k = 1 /\ p[k].id = i
  BY <1>5, <1>6 DEF LocksOff, IsWrite
<1>7. Sound(p)
  <2>1. \A k \in 1 .. 5 : p[k].do = "close" /\ k # 5 => p[k + 1].do = "open"
    BY <1>4
  <2> QED  BY <1>1, <1>3, <1>4, <2>1 DEF Sound
<1>8. LocksOn(p, 2, new) /\ IsDo(p, 3, "ping") /\ p[3].id = new /\ p[3].val = TRUE
  BY <1>1 DEF LocksOn, IsWrite, IsDo, IsLock, IsName, IsBaud, IsPing, IsStep, IsOpen
<1>9. Renames(p, 2, i)  BY <1>8 DEF Renames
<1>10. ASSUME NEW k \in 1 .. 5
       PROVE  /\ LocksOff(p, k, p[k].id) => Renames(p, k + 1, p[k].id)
              /\ p[k].do = "write" /\ p[k].reg = "id" => Renames(p, k, p[k].id)
              /\ p[k].do = "write" /\ p[k].reg = "baud" => Moves(p, k, p[k].id)
  <2>1. 1 + 1 = 2  OBVIOUS
  <2> QED  BY <1>5, <1>6, <1>9, <2>1
<1>11. ASSUME NEW k \in 1 .. 5, p[k].do = "done"
       PROVE  /\ \A j \in 1 .. k - 1 : p[j].do = "open" => p[j].val = to
              /\ at = to \/ \E j \in 1 .. k - 3 : IsDo(p, j, "open")
              /\ k > 3 /\ IsDo(p, k - 1, "ping") /\ p[k - 1].id = new /\ p[k - 1].val = TRUE
              /\ LocksOn(p, k - 2, new)
  <2>1. k = 4 /\ k - 1 = 3 /\ k - 2 = 2 /\ k > 3 /\ \A j \in 1 .. k - 1 : j \in 1 .. 5
    BY <1>4, <1>11
  <2> QED  BY <1>4, <1>8, <2>1
<1> QED  BY <1>1, <1>3, <1>7, <1>10, <1>11 DEF Renamer

\* A motor gets a new id.
LEMMA SameRenames ==
  ASSUME NEW p, IsProg(p), Len(p) = 6, Places(p) = 1 .. 6, p # <<>>,
         NEW i \in Ids, NEW new \in Ids, NEW at \in Speeds, NEW to \in Speeds,
         at = to,
      /\ IsLock(p[1], i, FALSE) /\ IsName(p[2], i, new) /\ IsLock(p[3], new, TRUE)
      /\ IsPing(p[4], new, TRUE) /\ IsStep(p[5], "done", <<>>) /\ IsStep(p[6], "close", <<>>)
  PROVE  Renamer(p, new, at, to)
<1>1. /\ Places(p) = 1 .. 6 /\ p # <<>>
      /\ IsLock(p[1], i, FALSE) /\ IsName(p[2], i, new) /\ IsLock(p[3], new, TRUE)
      /\ IsPing(p[4], new, TRUE) /\ IsStep(p[5], "done", <<>>) /\ IsStep(p[6], "close", <<>>)
  OBVIOUS
<1>2. \A k \in 1 .. 6 : k = 1 \/ k = 2 \/ k = 3 \/ k = 4 \/ k = 5 \/ k = 6  OBVIOUS
<1>3. ASSUME NEW k \in 1 .. 6
      PROVE  /\ Falls3(p[k].fail)
             /\ p[k].do = "write" => Fits(p[k].reg, p[k].val) /\ p[k].reg \in {"lock", "id", "baud"}
             /\ p[k].do \in {"write", "open", "close", "ping", "done"}
  <2>1. Fine(p[k])  BY <1>1, <1>2, AllFine
  <2> QED  BY <2>1 DEF Fine
<1>4. ASSUME NEW k \in 1 .. 6
      PROVE  /\ p[k].do = "close" => k = 6
             /\ p[k].do = "open" => FALSE
             /\ p[k].do = "done" => k = 5
  BY <1>1, <1>2 DEF IsLock, IsName, IsBaud, IsPing, IsStep, IsOpen
<1>5. ASSUME NEW k \in 1 .. 6
      PROVE  /\ p[k].do = "write" /\ p[k].reg = "id" => k = 2 /\ p[k].id = i
             /\ p[k].do = "write" /\ p[k].reg = "baud" => FALSE
             /\ p[k].do = "write" /\ p[k].reg = "lock" /\ p[k].val = FALSE => k = 1 /\ p[k].id = i
  BY <1>1, <1>2 DEF IsLock, IsName, IsBaud, IsPing, IsStep, IsOpen
<1>6. ASSUME NEW k \in 1 .. 6, LocksOff(p, k, p[k].id) PROVE k = 1 /\ p[k].id = i
  BY <1>5, <1>6 DEF LocksOff, IsWrite
<1>7. Sound(p)
  <2>1. \A k \in 1 .. 6 : p[k].do = "close" /\ k # 6 => p[k + 1].do = "open"
    BY <1>4
  <2> QED  BY <1>1, <1>3, <1>4, <2>1 DEF Sound
<1>8. LocksOn(p, 3, new) /\ IsDo(p, 4, "ping") /\ p[4].id = new /\ p[4].val = TRUE
  BY <1>1 DEF LocksOn, IsWrite, IsDo, IsLock, IsName, IsBaud, IsPing, IsStep, IsOpen
<1>9. Renames(p, 2, i)
  <2>1. IsWrite(p, 2, i, "id", new) /\ 2 + 1 = 3  BY <1>1 DEF IsWrite, IsName
  <2> QED  BY <1>8, <2>1 DEF Renames
<1>10. ASSUME NEW k \in 1 .. 6
       PROVE  /\ LocksOff(p, k, p[k].id) => Renames(p, k + 1, p[k].id)
              /\ p[k].do = "write" /\ p[k].reg = "id" => Renames(p, k, p[k].id)
              /\ p[k].do = "write" /\ p[k].reg = "baud" => Moves(p, k, p[k].id)
  <2>1. 1 + 1 = 2  OBVIOUS
  <2> QED  BY <1>5, <1>6, <1>9, <2>1
<1>11. ASSUME NEW k \in 1 .. 6, p[k].do = "done"
       PROVE  /\ \A j \in 1 .. k - 1 : p[j].do = "open" => p[j].val = to
              /\ at = to \/ \E j \in 1 .. k - 3 : IsDo(p, j, "open")
              /\ k > 3 /\ IsDo(p, k - 1, "ping") /\ p[k - 1].id = new /\ p[k - 1].val = TRUE
              /\ LocksOn(p, k - 2, new)
  <2>1. k = 5 /\ k - 1 = 4 /\ k - 2 = 3 /\ k > 3 /\ \A j \in 1 .. k - 1 : j \in 1 .. 6
    BY <1>4, <1>11
  <2> QED  BY <1>4, <1>8, <2>1
<1> QED  BY <1>1, <1>3, <1>7, <1>10, <1>11 DEF Renamer

\* A motor gets a new speed.
LEMMA LateLocks ==
  ASSUME NEW p, IsProg(p), Len(p) = 8, Places(p) = 1 .. 8, p # <<>>,
         NEW i \in Ids, NEW new \in Ids, NEW at \in Speeds, NEW to \in Speeds,
         i = new,
      /\ IsLock(p[1], i, FALSE) /\ IsBaud(p[2], i, to) /\ IsStep(p[3], "close", <<>>)
      /\ IsOpen(p[4], to, Close) /\ IsLock(p[5], new, TRUE) /\ IsPing(p[6], new, TRUE)
      /\ IsStep(p[7], "done", <<>>) /\ IsStep(p[8], "close", <<>>)
  PROVE  Renamer(p, new, at, to)
<1>1. /\ Places(p) = 1 .. 8 /\ p # <<>>
      /\ IsLock(p[1], i, FALSE) /\ IsBaud(p[2], i, to) /\ IsStep(p[3], "close", <<>>)
      /\ IsOpen(p[4], to, Close) /\ IsLock(p[5], new, TRUE) /\ IsPing(p[6], new, TRUE)
      /\ IsStep(p[7], "done", <<>>) /\ IsStep(p[8], "close", <<>>)
  OBVIOUS
<1>2. \A k \in 1 .. 8 : k = 1 \/ k = 2 \/ k = 3 \/ k = 4 \/ k = 5 \/ k = 6 \/ k = 7 \/ k = 8  OBVIOUS
<1>3. ASSUME NEW k \in 1 .. 8
      PROVE  /\ Falls3(p[k].fail)
             /\ p[k].do = "write" => Fits(p[k].reg, p[k].val) /\ p[k].reg \in {"lock", "id", "baud"}
             /\ p[k].do \in {"write", "open", "close", "ping", "done"}
  <2>1. Fine(p[k])  BY <1>1, <1>2, AllFine
  <2> QED  BY <2>1 DEF Fine
<1>4. ASSUME NEW k \in 1 .. 8
      PROVE  /\ p[k].do = "close" => k = 3 \/ k = 8
             /\ p[k].do = "open" => k = 4 /\ p[k].val = to /\ p[k].fail \in {<<>>, Close}
             /\ p[k].do = "done" => k = 7
  BY <1>1, <1>2 DEF IsLock, IsName, IsBaud, IsPing, IsStep, IsOpen
<1>5. ASSUME NEW k \in 1 .. 8
      PROVE  /\ p[k].do = "write" /\ p[k].reg = "id" => FALSE
             /\ p[k].do = "write" /\ p[k].reg = "baud" => k = 2 /\ p[k].id = i
             /\ p[k].do = "write" /\ p[k].reg = "lock" /\ p[k].val = FALSE => k = 1 /\ p[k].id = i
  BY <1>1, <1>2 DEF IsLock, IsName, IsBaud, IsPing, IsStep, IsOpen
<1>6. ASSUME NEW k \in 1 .. 8, LocksOff(p, k, p[k].id) PROVE k = 1 /\ p[k].id = i
  BY <1>5, <1>6 DEF LocksOff, IsWrite
<1>7. Sound(p)
  <2>1. \A k \in 1 .. 8 : p[k].do = "close" /\ k # 8 => p[k + 1].do = "open"
    <3>1. 3 + 1 = 4 /\ p[4].do = "open"  BY <1>1 DEF IsOpen
    <3> QED  BY <1>4, <3>1
  <2> QED  BY <1>1, <1>3, <1>4, <2>1 DEF Sound
<1>8. LocksOn(p, 5, new) /\ IsDo(p, 6, "ping") /\ p[6].id = new /\ p[6].val = TRUE /\ IsDo(p, 4, "open")
  BY <1>1 DEF LocksOn, IsWrite, IsDo, IsLock, IsName, IsBaud, IsPing, IsStep, IsOpen
<1>9. Renames(p, 5, i)  BY <1>8 DEF Renames
<1>10. Moves(p, 2, i)
  <2>1. IsWrite(p, 2, i, "baud", to)  BY <1>1 DEF IsWrite, IsBaud
  <2>2. IsDo(p, 3, "close") /\ IsDo(p, 4, "open") /\ p[4].val = to  BY <1>1 DEF IsDo, IsStep, IsOpen
  <2>3. 2 + 1 = 3 /\ 2 + 2 = 4 /\ 2 + 3 = 5  OBVIOUS
  <2> QED  BY <1>9, <2>1, <2>2, <2>3 DEF Moves, Reopens
<1>11. ASSUME NEW k \in 1 .. 8
       PROVE  /\ LocksOff(p, k, p[k].id) => Moves(p, k + 1, p[k].id)
              /\ p[k].do = "write" /\ p[k].reg = "id" => Renames(p, k, p[k].id)
              /\ p[k].do = "write" /\ p[k].reg = "baud" => Moves(p, k, p[k].id)
  <2>1. 1 + 1 = 2  OBVIOUS
  <2> QED  BY <1>5, <1>6, <1>9, <1>10, <2>1
<1>12. ASSUME NEW k \in 1 .. 8, p[k].do = "done"
       PROVE  /\ \A j \in 1 .. k - 1 : p[j].do = "open" => p[j].val = to
              /\ at = to \/ \E j \in 1 .. k - 3 : IsDo(p, j, "open")
              /\ k > 3 /\ IsDo(p, k - 1, "ping") /\ p[k - 1].id = new /\ p[k - 1].val = TRUE
              /\ LocksOn(p, k - 2, new)
  <2>1. k = 7 /\ k - 1 = 6 /\ k - 2 = 5 /\ k > 3 /\ 4 \in 1 .. k - 3 /\ \A j \in 1 .. k - 1 : j \in 1 .. 8
    BY <1>4, <1>12
  <2> QED  BY <1>4, <1>8, <2>1
<1> QED  BY <1>1, <1>3, <1>7, <1>11, <1>12 DEF Renamer

\* A motor gets both.
LEMMA LateRenames ==
  ASSUME NEW p, IsProg(p), Len(p) = 9, Places(p) = 1 .. 9, p # <<>>,
         NEW i \in Ids, NEW new \in Ids, NEW at \in Speeds, NEW to \in Speeds,
      /\ IsLock(p[1], i, FALSE) /\ IsBaud(p[2], i, to) /\ IsStep(p[3], "close", <<>>)
      /\ IsOpen(p[4], to, Close) /\ IsName(p[5], i, new) /\ IsLock(p[6], new, TRUE)
      /\ IsPing(p[7], new, TRUE) /\ IsStep(p[8], "done", <<>>) /\ IsStep(p[9], "close", <<>>)
  PROVE  Renamer(p, new, at, to)
<1>1. /\ Places(p) = 1 .. 9 /\ p # <<>>
      /\ IsLock(p[1], i, FALSE) /\ IsBaud(p[2], i, to) /\ IsStep(p[3], "close", <<>>)
      /\ IsOpen(p[4], to, Close) /\ IsName(p[5], i, new) /\ IsLock(p[6], new, TRUE)
      /\ IsPing(p[7], new, TRUE) /\ IsStep(p[8], "done", <<>>) /\ IsStep(p[9], "close", <<>>)
  OBVIOUS
<1>2. \A k \in 1 .. 9 : k = 1 \/ k = 2 \/ k = 3 \/ k = 4 \/ k = 5 \/ k = 6 \/ k = 7 \/ k = 8 \/ k = 9  OBVIOUS
<1>3. ASSUME NEW k \in 1 .. 9
      PROVE  /\ Falls3(p[k].fail)
             /\ p[k].do = "write" => Fits(p[k].reg, p[k].val) /\ p[k].reg \in {"lock", "id", "baud"}
             /\ p[k].do \in {"write", "open", "close", "ping", "done"}
  <2>1. Fine(p[k])  BY <1>1, <1>2, AllFine
  <2> QED  BY <2>1 DEF Fine
<1>4. ASSUME NEW k \in 1 .. 9
      PROVE  /\ p[k].do = "close" => k = 3 \/ k = 9
             /\ p[k].do = "open" => k = 4 /\ p[k].val = to /\ p[k].fail \in {<<>>, Close}
             /\ p[k].do = "done" => k = 8
  BY <1>1, <1>2 DEF IsLock, IsName, IsBaud, IsPing, IsStep, IsOpen
<1>5. ASSUME NEW k \in 1 .. 9
      PROVE  /\ p[k].do = "write" /\ p[k].reg = "id" => k = 5 /\ p[k].id = i
             /\ p[k].do = "write" /\ p[k].reg = "baud" => k = 2 /\ p[k].id = i
             /\ p[k].do = "write" /\ p[k].reg = "lock" /\ p[k].val = FALSE => k = 1 /\ p[k].id = i
  BY <1>1, <1>2 DEF IsLock, IsName, IsBaud, IsPing, IsStep, IsOpen
<1>6. ASSUME NEW k \in 1 .. 9, LocksOff(p, k, p[k].id) PROVE k = 1 /\ p[k].id = i
  BY <1>5, <1>6 DEF LocksOff, IsWrite
<1>7. Sound(p)
  <2>1. \A k \in 1 .. 9 : p[k].do = "close" /\ k # 9 => p[k + 1].do = "open"
    <3>1. 3 + 1 = 4 /\ p[4].do = "open"  BY <1>1 DEF IsOpen
    <3> QED  BY <1>4, <3>1
  <2> QED  BY <1>1, <1>3, <1>4, <2>1 DEF Sound
<1>8. LocksOn(p, 6, new) /\ IsDo(p, 7, "ping") /\ p[7].id = new /\ p[7].val = TRUE /\ IsDo(p, 4, "open")
  BY <1>1 DEF LocksOn, IsWrite, IsDo, IsLock, IsName, IsBaud, IsPing, IsStep, IsOpen
<1>9. Renames(p, 5, i)
  <2>1. IsWrite(p, 5, i, "id", new) /\ 5 + 1 = 6  BY <1>1 DEF IsWrite, IsName
  <2> QED  BY <1>8, <2>1 DEF Renames
<1>10. Moves(p, 2, i)
  <2>1. IsWrite(p, 2, i, "baud", to)  BY <1>1 DEF IsWrite, IsBaud
  <2>2. IsDo(p, 3, "close") /\ IsDo(p, 4, "open") /\ p[4].val = to  BY <1>1 DEF IsDo, IsStep, IsOpen
  <2>3. 2 + 1 = 3 /\ 2 + 2 = 4 /\ 2 + 3 = 5  OBVIOUS
  <2> QED  BY <1>9, <2>1, <2>2, <2>3 DEF Moves, Reopens
<1>11. ASSUME NEW k \in 1 .. 9
       PROVE  /\ LocksOff(p, k, p[k].id) => Moves(p, k + 1, p[k].id)
              /\ p[k].do = "write" /\ p[k].reg = "id" => Renames(p, k, p[k].id)
              /\ p[k].do = "write" /\ p[k].reg = "baud" => Moves(p, k, p[k].id)
  <2>1. 1 + 1 = 2  OBVIOUS
  <2> QED  BY <1>5, <1>6, <1>9, <1>10, <2>1
<1>12. ASSUME NEW k \in 1 .. 9, p[k].do = "done"
       PROVE  /\ \A j \in 1 .. k - 1 : p[j].do = "open" => p[j].val = to
              /\ at = to \/ \E j \in 1 .. k - 3 : IsDo(p, j, "open")
              /\ k > 3 /\ IsDo(p, k - 1, "ping") /\ p[k - 1].id = new /\ p[k - 1].val = TRUE
              /\ LocksOn(p, k - 2, new)
  <2>1. k = 8 /\ k - 1 = 7 /\ k - 2 = 6 /\ k > 3 /\ 4 \in 1 .. k - 3 /\ \A j \in 1 .. k - 1 : j \in 1 .. 9
    BY <1>4, <1>12
  <2> QED  BY <1>4, <1>8, <2>1
<1> QED  BY <1>1, <1>3, <1>7, <1>11, <1>12 DEF Renamer

\* 120 asks for both ids first.
LEMMA ByIdRenames ==
  ASSUME NEW p, IsProg(p), Len(p) = 9, Places(p) = 1 .. 9, p # <<>>,
         NEW i \in Ids, NEW new \in Ids, NEW at \in Speeds, NEW to \in Speeds,
         to = Speed,
      /\ IsOpen(p[1], Speed, <<>>) /\ IsPing(p[2], i, TRUE) /\ IsPing(p[3], new, FALSE)
      /\ IsLock(p[4], i, FALSE) /\ IsName(p[5], i, new) /\ IsLock(p[6], new, TRUE)
      /\ IsPing(p[7], new, TRUE) /\ IsStep(p[8], "done", <<>>) /\ IsStep(p[9], "close", <<>>)
  PROVE  Renamer(p, new, at, to)
<1>1. /\ Places(p) = 1 .. 9 /\ p # <<>>
      /\ IsOpen(p[1], Speed, <<>>) /\ IsPing(p[2], i, TRUE) /\ IsPing(p[3], new, FALSE)
      /\ IsLock(p[4], i, FALSE) /\ IsName(p[5], i, new) /\ IsLock(p[6], new, TRUE)
      /\ IsPing(p[7], new, TRUE) /\ IsStep(p[8], "done", <<>>) /\ IsStep(p[9], "close", <<>>)
  OBVIOUS
<1>2. \A k \in 1 .. 9 : k = 1 \/ k = 2 \/ k = 3 \/ k = 4 \/ k = 5 \/ k = 6 \/ k = 7 \/ k = 8 \/ k = 9  OBVIOUS
<1>3. ASSUME NEW k \in 1 .. 9
      PROVE  /\ Falls3(p[k].fail)
             /\ p[k].do = "write" => Fits(p[k].reg, p[k].val) /\ p[k].reg \in {"lock", "id", "baud"}
             /\ p[k].do \in {"write", "open", "close", "ping", "done"}
  <2>1. Fine(p[k])  BY <1>1, <1>2, AllFine
  <2> QED  BY <2>1 DEF Fine
<1>4. ASSUME NEW k \in 1 .. 9
      PROVE  /\ p[k].do = "close" => k = 9
             /\ p[k].do = "open" => k = 1 /\ p[k].val = to /\ p[k].fail \in {<<>>, Close}
             /\ p[k].do = "done" => k = 8
  BY <1>1, <1>2 DEF IsLock, IsName, IsBaud, IsPing, IsStep, IsOpen
<1>5. ASSUME NEW k \in 1 .. 9
      PROVE  /\ p[k].do = "write" /\ p[k].reg = "id" => k = 5 /\ p[k].id = i
             /\ p[k].do = "write" /\ p[k].reg = "baud" => FALSE
             /\ p[k].do = "write" /\ p[k].reg = "lock" /\ p[k].val = FALSE => k = 4 /\ p[k].id = i
  BY <1>1, <1>2 DEF IsLock, IsName, IsBaud, IsPing, IsStep, IsOpen
<1>6. ASSUME NEW k \in 1 .. 9, LocksOff(p, k, p[k].id) PROVE k = 4 /\ p[k].id = i
  BY <1>5, <1>6 DEF LocksOff, IsWrite
<1>7. Sound(p)
  <2>1. \A k \in 1 .. 9 : p[k].do = "close" /\ k # 9 => p[k + 1].do = "open"
    BY <1>4
  <2> QED  BY <1>1, <1>3, <1>4, <2>1 DEF Sound
<1>8. LocksOn(p, 6, new) /\ IsDo(p, 7, "ping") /\ p[7].id = new /\ p[7].val = TRUE /\ IsDo(p, 1, "open")
  BY <1>1 DEF LocksOn, IsWrite, IsDo, IsLock, IsName, IsBaud, IsPing, IsStep, IsOpen
<1>9. Renames(p, 5, i)
  <2>1. IsWrite(p, 5, i, "id", new) /\ 5 + 1 = 6  BY <1>1 DEF IsWrite, IsName
  <2> QED  BY <1>8, <2>1 DEF Renames
<1>10. ASSUME NEW k \in 1 .. 9
       PROVE  /\ LocksOff(p, k, p[k].id) => Renames(p, k + 1, p[k].id)
              /\ p[k].do = "write" /\ p[k].reg = "id" => Renames(p, k, p[k].id)
              /\ p[k].do = "write" /\ p[k].reg = "baud" => Moves(p, k, p[k].id)
  <2>1. 4 + 1 = 5  OBVIOUS
  <2> QED  BY <1>5, <1>6, <1>9, <2>1
<1>11. ASSUME NEW k \in 1 .. 9, p[k].do = "done"
       PROVE  /\ \A j \in 1 .. k - 1 : p[j].do = "open" => p[j].val = to
              /\ at = to \/ \E j \in 1 .. k - 3 : IsDo(p, j, "open")
              /\ k > 3 /\ IsDo(p, k - 1, "ping") /\ p[k - 1].id = new /\ p[k - 1].val = TRUE
              /\ LocksOn(p, k - 2, new)
  <2>1. k = 8 /\ k - 1 = 7 /\ k - 2 = 6 /\ k > 3 /\ 1 \in 1 .. k - 3 /\ \A j \in 1 .. k - 1 : j \in 1 .. 9
    BY <1>4, <1>11
  <2> QED  BY <1>4, <1>8, <2>1
<1> QED  BY <1>1, <1>3, <1>7, <1>10, <1>11 DEF Renamer

\* The programs, one operation behind the other.
List2(q, a, b)    == IsProg(q) /\ Len(q) = 2 /\ q[1] = a /\ q[2] = b
List3(q, a, b, c) == IsProg(q) /\ Len(q) = 3 /\ q[1] = a /\ q[2] = b /\ q[3] = c
List4(q, a, b, c, d) == IsProg(q) /\ Len(q) = 4 /\ q[1] = a /\ q[2] = b /\ q[3] = c /\ q[4] = d
List5(q, a, b, c, d, e) ==
  IsProg(q) /\ Len(q) = 5 /\ q[1] = a /\ q[2] = b /\ q[3] = c /\ q[4] = d /\ q[5] = e
List6(q, a, b, c, d, e, f) ==
  IsProg(q) /\ Len(q) = 6 /\ q[1] = a /\ q[2] = b /\ q[3] = c /\ q[4] = d /\ q[5] = e /\ q[6] = f

LEMMA Lists ==
  ASSUME NEW q, NEW p, NEW a, NEW b, NEW c, NEW d, NEW e, NEW f
  PROVE  /\ List2(q, a, b) /\ Extends(p, q, 2, c) => List3(p, a, b, c)
         /\ List3(q, a, b, c) /\ Extends(p, q, 3, d) => List4(p, a, b, c, d)
         /\ List4(q, a, b, c, d) /\ Extends(p, q, 4, e) => List5(p, a, b, c, d, e)
         /\ List5(q, a, b, c, d, e) /\ Extends(p, q, 5, f) => List6(p, a, b, c, d, e, f)
<1>1. List2(q, a, b) /\ Extends(p, q, 2, c) => List3(p, a, b, c)
  BY DEF List2, List3, Extends
<1>2. List3(q, a, b, c) /\ Extends(p, q, 3, d) => List4(p, a, b, c, d)
  BY DEF List3, List4, Extends
<1>3. List4(q, a, b, c, d) /\ Extends(p, q, 4, e) => List5(p, a, b, c, d, e)
  BY DEF List4, List5, Extends
<1>4. List5(q, a, b, c, d, e) /\ Extends(p, q, 5, f) => List6(p, a, b, c, d, e, f)
  BY DEF List5, List6, Extends
<1> QED  BY <1>1, <1>2, <1>3, <1>4

LEMMA TwoOf ==
  ASSUME NEW a, NEW b
  PROVE  List2(<<a>> \o <<b>>, a, b)
BY Two DEF List2

LEMMA ThreeOf ==
  ASSUME NEW a, NEW b, NEW c
  PROVE  List3((<<a>> \o <<b>>) \o <<c>>, a, b, c)
<1> DEFINE q == <<a>> \o <<b>>
           p == q \o <<c>>
<1>1. List2(q, a, b)  BY TwoOf
<1> HIDE DEF q
<1>2. IsProg(q) /\ Len(q) = 2  BY <1>1 DEF List2
<1>3. Extends(p, q, 2, c)  BY <1>2, Longer
<1> HIDE DEF p
<1>4. List3(p, a, b, c)  BY <1>1, <1>3, Lists
<1> QED  BY <1>4 DEF p, q

LEMMA FourOf ==
  ASSUME NEW a, NEW b, NEW c, NEW d
  PROVE  List4(((<<a>> \o <<b>>) \o <<c>>) \o <<d>>, a, b, c, d)
<1> DEFINE q == (<<a>> \o <<b>>) \o <<c>>
           p == q \o <<d>>
<1>1. List3(q, a, b, c)  BY ThreeOf
<1> HIDE DEF q
<1>2. IsProg(q) /\ Len(q) = 3  BY <1>1 DEF List3
<1>3. Extends(p, q, 3, d)  BY <1>2, Longer
<1> HIDE DEF p
<1>4. List4(p, a, b, c, d)  BY <1>1, <1>3, Lists
<1> QED  BY <1>4 DEF p, q

LEMMA FiveOf ==
  ASSUME NEW q, NEW a, NEW b, NEW c, NEW d, NEW e, List4(q, a, b, c, d)
  PROVE  List5(q \o <<e>>, a, b, c, d, e)
<1> DEFINE p == q \o <<e>>
<1>1. IsProg(q) /\ Len(q) = 4  BY DEF List4
<1>2. Extends(p, q, 4, e)  BY <1>1, Longer
<1> HIDE DEF p
<1>3. List5(p, a, b, c, d, e)  BY <1>2, Lists
<1> QED  BY <1>3 DEF p

LEMMA SixOf ==
  ASSUME NEW q, NEW a, NEW b, NEW c, NEW d, NEW e, NEW f, List5(q, a, b, c, d, e)
  PROVE  List6(q \o <<f>>, a, b, c, d, e, f)
<1> DEFINE p == q \o <<f>>
<1>1. IsProg(q) /\ Len(q) = 5  BY DEF List5
<1>2. Extends(p, q, 5, f)  BY <1>1, Longer
<1> HIDE DEF p
<1>3. List6(p, a, b, c, d, e, f)  BY <1>2, Lists
<1> QED  BY <1>3 DEF p

LEMMA OpsAre ==
  ASSUME NEW i, NEW v, NEW f
  PROVE  /\ \A on \in BOOLEAN : IsLock(Write(i, "lock", on, Close), i, on)
         /\ IsName(Write(i, "id", v, Close), i, v)
         /\ IsBaud(Write(i, "baud", v, Close), i, v)
         /\ \A on \in BOOLEAN : IsPing(Op("ping", i, None, on, Close), i, on)
         /\ IsOpen(Op("open", None, None, v, f), v, f)
         /\ IsStep(Op("close", None, None, None, <<>>), "close", <<>>)
BY DEF Write, Op, IsLock, IsName, IsBaud, IsPing, IsOpen, IsStep

EndAt(p, x, y, z, new) ==
  /\ IsProg(p) /\ Len(p) = z /\ Places(p) = 1 .. z /\ p # <<>>
  /\ IsPing(p[x], new, TRUE) /\ IsStep(p[y], "done", <<>>) /\ IsStep(p[z], "close", <<>>)

LEMMA EndsAt ==
  ASSUME NEW p, NEW n, NEW new, Ending(p, n, new), NEW x, NEW y, NEW z, x = n + 1, y = n + 2, z = n + 3
  PROVE  EndAt(p, x, y, z, new)
<1>1. /\ IsProg(p) /\ Len(p) = z
      /\ IsPing(p[x], new, TRUE) /\ IsStep(p[y], "done", <<>>) /\ IsStep(p[z], "close", <<>>)
  BY Zenon DEF Ending
<1>2. z \in Nat \ {0}  BY DEF Ending
<1>3. Places(p) = 1 .. z /\ p # <<>>  BY <1>1, <1>2, HasPlaces
<1> QED  BY <1>1, <1>3, Zenon DEF EndAt

\* Where the programs lead to, once their first operations are known.
LEMMA Finish2 ==
  ASSUME NEW p, NEW q, NEW a, NEW b, NEW i \in Ids, NEW new \in Ids, NEW at \in Speeds, NEW to \in Speeds,
         List2(q, a, b), Ending(p, 2, new), Keeps(p, q, 2), at = to, i = new,
         IsLock(a, i, FALSE), IsLock(b, new, TRUE)
  PROVE  Renamer(p, new, at, to)
<1>1. 3 = 2 + 1 /\ 4 = 2 + 2 /\ 5 = 2 + 3  OBVIOUS
<1>2. EndAt(p, 3, 4, 5, new)  BY <1>1, EndsAt
<1>3. /\ IsProg(p) /\ Len(p) = 5
      /\ IsPing(p[3], new, TRUE) /\ IsStep(p[4], "done", <<>>) /\ IsStep(p[5], "close", <<>>)
  BY <1>2 DEF EndAt
<1>4. p[1] = a /\ p[2] = b  BY DEF Keeps, List2
<1>5. Places(p) = 1 .. 5 /\ p # <<>>  BY <1>2 DEF EndAt
<1>6. IsLock(p[1], i, FALSE) /\ IsLock(p[2], new, TRUE)  BY <1>4
<1> QED  BY <1>3, <1>5, <1>6, SameLocks

LEMMA Finish3 ==
  ASSUME NEW p, NEW q, NEW a, NEW b, NEW c, NEW i \in Ids, NEW new \in Ids, NEW at \in Speeds, NEW to \in Speeds,
         List3(q, a, b, c), Ending(p, 3, new), Keeps(p, q, 3), at = to,
         IsLock(a, i, FALSE), IsName(b, i, new), IsLock(c, new, TRUE)
  PROVE  Renamer(p, new, at, to)
<1>1. 4 = 3 + 1 /\ 5 = 3 + 2 /\ 6 = 3 + 3  OBVIOUS
<1>2. EndAt(p, 4, 5, 6, new)  BY <1>1, EndsAt
<1>3. /\ IsProg(p) /\ Len(p) = 6
      /\ IsPing(p[4], new, TRUE) /\ IsStep(p[5], "done", <<>>) /\ IsStep(p[6], "close", <<>>)
  BY <1>2 DEF EndAt
<1>4. p[1] = a /\ p[2] = b /\ p[3] = c  BY DEF Keeps, List3
<1>5. Places(p) = 1 .. 6 /\ p # <<>>  BY <1>2 DEF EndAt
<1>6. IsLock(p[1], i, FALSE) /\ IsName(p[2], i, new) /\ IsLock(p[3], new, TRUE)  BY <1>4
<1> QED  BY <1>3, <1>5, <1>6, SameRenames

LEMMA Finish5 ==
  ASSUME NEW p, NEW q, NEW a, NEW b, NEW c, NEW d, NEW e,
         NEW i \in Ids, NEW new \in Ids, NEW at \in Speeds, NEW to \in Speeds,
         List5(q, a, b, c, d, e), Ending(p, 5, new), Keeps(p, q, 5), i = new,
         IsLock(a, i, FALSE), IsBaud(b, i, to), IsStep(c, "close", <<>>), IsOpen(d, to, Close),
         IsLock(e, new, TRUE)
  PROVE  Renamer(p, new, at, to)
<1>1. 6 = 5 + 1 /\ 7 = 5 + 2 /\ 8 = 5 + 3  OBVIOUS
<1>2. EndAt(p, 6, 7, 8, new)  BY <1>1, EndsAt
<1>3. /\ IsProg(p) /\ Len(p) = 8
      /\ IsPing(p[6], new, TRUE) /\ IsStep(p[7], "done", <<>>) /\ IsStep(p[8], "close", <<>>)
  BY <1>2 DEF EndAt
<1>4. p[1] = a /\ p[2] = b /\ p[3] = c /\ p[4] = d /\ p[5] = e  BY DEF Keeps, List5
<1>5. Places(p) = 1 .. 8 /\ p # <<>>  BY <1>2 DEF EndAt
<1>6. /\ IsLock(p[1], i, FALSE) /\ IsBaud(p[2], i, to) /\ IsStep(p[3], "close", <<>>)
      /\ IsOpen(p[4], to, Close) /\ IsLock(p[5], new, TRUE)
  BY <1>4
<1> QED  BY <1>3, <1>5, <1>6, LateLocks

LEMMA Finish6 ==
  ASSUME NEW p, NEW q, NEW a, NEW b, NEW c, NEW d, NEW e, NEW f,
         NEW i \in Ids, NEW new \in Ids, NEW at \in Speeds, NEW to \in Speeds,
         List6(q, a, b, c, d, e, f), Ending(p, 6, new), Keeps(p, q, 6)
  PROVE  /\ /\ IsLock(a, i, FALSE) /\ IsBaud(b, i, to) /\ IsStep(c, "close", <<>>) /\ IsOpen(d, to, Close)
            /\ IsName(e, i, new) /\ IsLock(f, new, TRUE)
            => Renamer(p, new, at, to)
         /\ /\ IsOpen(a, Speed, <<>>) /\ IsPing(b, i, TRUE) /\ IsPing(c, new, FALSE) /\ IsLock(d, i, FALSE)
            /\ IsName(e, i, new) /\ IsLock(f, new, TRUE)
            => Renamer(p, new, Speed, Speed) /\ Starting(p)
<1>1. 7 = 6 + 1 /\ 8 = 6 + 2 /\ 9 = 6 + 3  OBVIOUS
<1>2. EndAt(p, 7, 8, 9, new)  BY <1>1, EndsAt
<1>3. /\ IsProg(p) /\ Len(p) = 9
      /\ IsPing(p[7], new, TRUE) /\ IsStep(p[8], "done", <<>>) /\ IsStep(p[9], "close", <<>>)
  BY <1>2 DEF EndAt
<1>4. p[1] = a /\ p[2] = b /\ p[3] = c /\ p[4] = d /\ p[5] = e /\ p[6] = f  BY DEF Keeps, List6
<1>5. Places(p) = 1 .. 9 /\ p # <<>>  BY <1>2 DEF EndAt
<1>6. ASSUME /\ IsLock(a, i, FALSE) /\ IsBaud(b, i, to) /\ IsStep(c, "close", <<>>) /\ IsOpen(d, to, Close)
             /\ IsName(e, i, new) /\ IsLock(f, new, TRUE)
      PROVE  Renamer(p, new, at, to)
  <2>1. /\ IsLock(p[1], i, FALSE) /\ IsBaud(p[2], i, to) /\ IsStep(p[3], "close", <<>>)
        /\ IsOpen(p[4], to, Close) /\ IsName(p[5], i, new) /\ IsLock(p[6], new, TRUE)
    BY <1>4, <1>6
  <2> QED  BY <1>3, <1>5, <2>1, LateRenames
<1>7. ASSUME /\ IsOpen(a, Speed, <<>>) /\ IsPing(b, i, TRUE) /\ IsPing(c, new, FALSE) /\ IsLock(d, i, FALSE)
             /\ IsName(e, i, new) /\ IsLock(f, new, TRUE)
      PROVE  Renamer(p, new, Speed, Speed) /\ Starting(p)
  <2>1. /\ IsOpen(p[1], Speed, <<>>) /\ IsPing(p[2], i, TRUE) /\ IsPing(p[3], new, FALSE)
        /\ IsLock(p[4], i, FALSE) /\ IsName(p[5], i, new) /\ IsLock(p[6], new, TRUE)
    BY <1>4, <1>7
  <2>2. Renamer(p, new, Speed, Speed)  BY <1>3, <1>5, <2>1, SpeedAssumption, ByIdRenames
  <2> QED  BY <1>3, <1>5, <2>1, <2>2 DEF Starting, IsOpen
<1> QED  BY <1>6, <1>7

LEMMA SplitTwo ==
  ASSUME NEW l, IsProg(l), NEW a, NEW b
  PROVE  l \o (<<a>> \o <<b>>) = (l \o <<a>>) \o <<b>>
<1> DEFINE x == <<a>>
           y == <<b>>
<1>1. IsProg(x) /\ IsProg(y)  BY One
<1> HIDE DEF x, y
<1>2. (l \o x) \o y = l \o (x \o y)  BY <1>1, JoinedTwice
<1> QED  BY <1>2 DEF x, y

LEMMA SplitThree ==
  ASSUME NEW l, IsProg(l), NEW a, NEW b, NEW c
  PROVE  l \o ((<<a>> \o <<b>>) \o <<c>>) = ((l \o <<a>>) \o <<b>>) \o <<c>>
<1> DEFINE x == <<a>> \o <<b>>
           y == <<c>>
<1>1. IsProg(x) /\ IsProg(y)  BY One, Two
<1>2. l \o x = (l \o <<a>>) \o <<b>>  BY SplitTwo
<1> HIDE DEF x, y
<1>3. (l \o x) \o y = l \o (x \o y)  BY <1>1, JoinedTwice
<1> QED  BY <1>2, <1>3 DEF x, y

LEMMA PairIs ==
  ASSUME NEW a, NEW b
  PROVE  <<a, b>> = <<a>> \o <<b>>
<1> DEFINE S == {a, b}
<1>1. <<a, b>> \in Seq(S) /\ <<a>> \o <<b>> \in Seq(S)  OBVIOUS
<1>2. Len(<<a, b>>) = 2 /\ Len(<<a>> \o <<b>>) = 2  BY Two
<1>3. <<a, b>>[1] = (<<a>> \o <<b>>)[1] /\ <<a, b>>[2] = (<<a>> \o <<b>>)[2]  BY Two
<1> DEFINE x == <<a, b>>
           y == <<a>> \o <<b>>
<1>4. x \in Seq(S) /\ y \in Seq(S) /\ Len(x) = 2 /\ Len(y) = 2 /\ x[1] = y[1] /\ x[2] = y[2]
  BY <1>1, <1>2, <1>3
<1> HIDE DEF x, y, S
<1>5. x = [k \in 1 .. 2 |-> x[k]] /\ y = [k \in 1 .. 2 |-> y[k]]  BY <1>4
<1>6. \A k \in 1 .. 2 : x[k] = y[k]
  <2>1. \A k \in 1 .. 2 : k = 1 \/ k = 2  OBVIOUS
  <2> QED  BY <1>4, <2>1
<1>7. x = y  BY <1>5, <1>6
<1> QED  BY <1>7 DEF x, y

\* 120_set_motor_id.py gives a motor another id.
LEMMA SetIdRenames ==
  ASSUME NEW i \in Ids, NEW new \in Ids
  PROVE  Renamer(SetId(i, new), new, Speed, Speed) /\ Starting(SetId(i, new))
<1> DEFINE o  == Op("open", None, None, Speed, <<>>)
           g1 == Op("ping", i, None, TRUE, Close)
           g2 == Op("ping", new, None, FALSE, Close)
           g3 == Op("ping", new, None, TRUE, Close)
           l0 == Write(i, "lock", FALSE, Close)
           w  == Write(i, "id", new, Close)
           l1 == Write(new, "lock", TRUE, Close)
           q4 == ((<<o>> \o <<g1>>) \o <<g2>>) \o <<l0>>
           q5 == q4 \o <<w>>
           q6 == q5 \o <<l1>>
           p  == Ended(q6, g3)
<1>1. p = SetId(i, new)
  <2>1. (<<o>> \o <<g1, g2>>) = (<<o>> \o <<g1>>) \o <<g2>>
    <3> HIDE DEF o, g1, g2
    <3>1. <<g1, g2>> = <<g1>> \o <<g2>>  BY PairIs
    <3> DEFINE l == <<o>>
    <3>2. IsProg(l)  BY One
    <3> HIDE DEF l
    <3>3. l \o (<<g1>> \o <<g2>>) = (l \o <<g1>>) \o <<g2>>  BY <3>2, SplitTwo
    <3> QED  BY <3>1, <3>3 DEF l
  <2>2. q6 = q4 \o (<<w>> \o <<l1>>)
    <3>1. IsProg(q4)  BY FourOf DEF List4
    <3> HIDE DEF q4
    <3> QED  BY <3>1, SplitTwo
  <2>3. SetId(i, new) = (((((<<o>> \o <<g1, g2>>) \o <<l0>>) \o (<<w>> \o <<l1>>)) \o <<g3>>)
                            \o Step("done", <<>>)) \o Close
    BY DEF SetId, Open, Locks, Rename
  <2> HIDE DEF q5, o, g1, g2, g3, l0, w, l1
  <2> QED  BY <2>1, <2>2, <2>3 DEF Ended
<1>2. /\ IsOpen(o, Speed, <<>>) /\ IsPing(g1, i, TRUE) /\ IsPing(g2, new, FALSE) /\ IsLock(l0, i, FALSE)
      /\ IsName(w, i, new) /\ IsLock(l1, new, TRUE) /\ IsFind(g3, new)
  BY OpsAre DEF IsFind
<1> HIDE DEF o, g1, g2, g3, l0, w, l1
<1>3. List4(q4, o, g1, g2, l0)  BY FourOf
<1> HIDE DEF q4
<1>4. List5(q5, o, g1, g2, l0, w)  BY <1>3, FiveOf
<1> HIDE DEF q5
<1>5. List6(q6, o, g1, g2, l0, w, l1)  BY <1>4, SixOf
<1>6. IsProg(q6) /\ Len(q6) = 6  BY <1>5 DEF List6
<1> HIDE DEF q6
<1>7. p = Ended(q6, g3)  OBVIOUS
<1> HIDE DEF p
<1>8. Ending(p, 6, new) /\ Keeps(p, q6, 6)
  <2>1. 6 \in Nat \ {0}  OBVIOUS
  <2>2. IsEnd(p, q6, 6, new)  BY <1>2, <1>6, <1>7, <2>1, Ends3
  <2> QED  BY <2>2 DEF IsEnd
<1>9. Renamer(p, new, Speed, Speed) /\ Starting(p)
  BY <1>2, <1>5, <1>8, SpeedAssumption, Finish6
<1> QED  BY <1>1, <1>9

\* 121_setup_motor.py gives it a speed and an id, if they are other ones.
LEMMA SetUpRenames ==
  ASSUME NEW i \in Ids, NEW new \in Ids, NEW at \in Speeds, NEW to \in Speeds
  PROVE  Renamer(SetUp(i, new, at, to), new, at, to)
<1> DEFINE l0 == Write(i, "lock", FALSE, Close)
           v  == Write(i, "baud", to, Close)
           c  == Op("close", None, None, None, <<>>)
           o  == Op("open", None, None, to, Close)
           w  == Write(i, "id", new, Close)
           l1 == Write(new, "lock", TRUE, Close)
           g  == Op("ping", new, None, TRUE, Close)
           x  == IF at = to THEN <<>> ELSE (<<v>> \o <<c>>) \o <<o>>
           y  == IF i = new THEN <<l1>> ELSE <<w>> \o <<l1>>
           q  == (<<l0>> \o x) \o y
           p  == Ended(q, g)
<1>1. p = SetUp(i, new, at, to)
  BY DEF Ended, SetUp, Open, Locks, Rename, Close, Step
<1>2. /\ IsLock(l0, i, FALSE) /\ IsBaud(v, i, to) /\ IsStep(c, "close", <<>>) /\ IsOpen(o, to, Close)
      /\ IsName(w, i, new) /\ IsLock(l1, new, TRUE) /\ IsFind(g, new)
  BY OpsAre DEF IsFind
<1> HIDE DEF l0, v, c, o, w, l1, g
<1>3. CASE at = to /\ i = new
  <2>1. x = <<>> /\ y = <<l1>>  BY <1>3
  <2>2. q = <<l0>> \o <<l1>>  BY <2>1, One, NothingMore
  <2>3. List2(q, l0, l1)  BY <2>2, TwoOf
  <2>4. IsProg(q) /\ Len(q) = 2  BY <2>3 DEF List2
  <2> HIDE DEF q
  <2>5. p = Ended(q, g)  OBVIOUS
  <2> HIDE DEF p
  <2>6. Ending(p, 2, new) /\ Keeps(p, q, 2)
    <3>1. 2 \in Nat \ {0}  OBVIOUS
    <3>2. IsEnd(p, q, 2, new)  BY <1>2, <2>4, <2>5, <3>1, Ends3
    <3> QED  BY <3>2 DEF IsEnd
  <2> QED  BY <1>1, <1>2, <1>3, <2>3, <2>6, Finish2
<1>4. CASE at = to /\ i # new
  <2>1. x = <<>> /\ y = <<w>> \o <<l1>>  BY <1>4
  <2>2. q = (<<l0>> \o <<w>>) \o <<l1>>  BY <2>1, One, NothingMore, SplitTwo
  <2>3. List3(q, l0, w, l1)  BY <2>2, ThreeOf
  <2>4. IsProg(q) /\ Len(q) = 3  BY <2>3 DEF List3
  <2> HIDE DEF q
  <2>5. p = Ended(q, g)  OBVIOUS
  <2> HIDE DEF p
  <2>6. Ending(p, 3, new) /\ Keeps(p, q, 3)
    <3>1. 3 \in Nat \ {0}  OBVIOUS
    <3>2. IsEnd(p, q, 3, new)  BY <1>2, <2>4, <2>5, <3>1, Ends3
    <3> QED  BY <3>2 DEF IsEnd
  <2> QED  BY <1>1, <1>2, <1>4, <2>3, <2>6, Finish3
<1> DEFINE q4 == ((<<l0>> \o <<v>>) \o <<c>>) \o <<o>>
<1>5. List4(q4, l0, v, c, o)  BY FourOf
<1>6. ASSUME at # to PROVE <<l0>> \o x = q4
  <2>1. x = (<<v>> \o <<c>>) \o <<o>>  BY <1>6
  <2> QED  BY <2>1, One, SplitThree
<1> HIDE DEF q4
<1>7. CASE at # to /\ i = new
  <2>1. y = <<l1>>  BY <1>7
  <2>2. q = q4 \o <<l1>>  BY <1>6, <1>7, <2>1
  <2>3. List5(q, l0, v, c, o, l1)  BY <1>5, <2>2, FiveOf
  <2>4. IsProg(q) /\ Len(q) = 5  BY <2>3 DEF List5
  <2> HIDE DEF q
  <2>5. p = Ended(q, g)  OBVIOUS
  <2> HIDE DEF p
  <2>6. Ending(p, 5, new) /\ Keeps(p, q, 5)
    <3>1. 5 \in Nat \ {0}  OBVIOUS
    <3>2. IsEnd(p, q, 5, new)  BY <1>2, <2>4, <2>5, <3>1, Ends3
    <3> QED  BY <3>2 DEF IsEnd
  <2> QED  BY <1>1, <1>2, <1>7, <2>3, <2>6, Finish5
<1>8. CASE at # to /\ i # new
  <2>1. y = <<w>> \o <<l1>>  BY <1>8
  <2> DEFINE q5 == q4 \o <<w>>
  <2>2. q = q5 \o <<l1>>
    <3>1. IsProg(q4)  BY <1>5 DEF List4
    <3>2. q4 \o (<<w>> \o <<l1>>) = (q4 \o <<w>>) \o <<l1>>  BY <3>1, SplitTwo
    <3> QED  BY <1>6, <1>8, <2>1, <3>2
  <2>3. List5(q5, l0, v, c, o, w)  BY <1>5, FiveOf
  <2> HIDE DEF q5
  <2>4. List6(q, l0, v, c, o, w, l1)  BY <2>2, <2>3, SixOf
  <2>5. IsProg(q) /\ Len(q) = 6  BY <2>4 DEF List6
  <2> HIDE DEF q
  <2>6. p = Ended(q, g)  OBVIOUS
  <2> HIDE DEF p
  <2>7. Ending(p, 6, new) /\ Keeps(p, q, 6)
    <3>1. 6 \in Nat \ {0}  OBVIOUS
    <3>2. IsEnd(p, q, 6, new)  BY <1>2, <2>5, <2>6, <3>1, Ends3
    <3> QED  BY <3>2 DEF IsEnd
  <2> QED  BY <1>1, <1>2, <2>4, <2>7, Finish6
<1> QED  BY <1>3, <1>4, <1>7, <1>8

----------------------------------------------------------------------------
(* What is started.                                                        *)

LEMMA SetupIs ==
  ASSUME NEW at \in Speeds
  PROVE  /\ Sound(Setup(at)) /\ Starting(Setup(at))
         /\ \A k \in Places(Setup(at)) : Setup(at)[k].do \in {"open", "scan"}
<1> DEFINE o == Op("open", None, None, at, <<>>)
           s == Op("scan", None, None, None, Close)
           p == <<o>> \o <<s>>
<1>1. p = Setup(at)  BY DEF Setup, Open, Step
<1>2. /\ o.do = "open" /\ o.val = at /\ o.fail = <<>>
      /\ s.do = "scan" /\ s.fail = Close
  BY DEF Op
<1> HIDE DEF o, s
<1>3. IsProg(p) /\ Len(p) = 2 /\ p[1] = o /\ p[2] = s  BY Two
<1> HIDE DEF p
<1>4. Places(p) = {1, 2} /\ p # <<>>  BY <1>3, Lengths DEF Places
<1>5. ASSUME NEW k \in Places(p)
      PROVE  /\ p[k].do \in {"open", "scan"} /\ Falls3(p[k].fail)
             /\ p[k].do = "open" => p[k].val \in Speeds /\ p[k].fail = <<>>
  BY <1>2, <1>3, <1>4, QuietNone, CloseFalls
<1>6. Sound(p)  BY <1>3, <1>5 DEF Sound
<1>7. Starting(p)  BY <1>2, <1>3, <1>4 DEF Starting
<1> QED  BY <1>1, <1>5, <1>6, <1>7

\* The programs that go with each name.
Tooled(q, name, new, to) ==
  /\ Starting(q) /\ Sound(q) /\ to \in Speeds
  /\ \/ name = "demo" /\ new \in Ids /\ q = Demo(<<new>>) /\ Plain(q, Kinds)
     \/ name = "any" /\ Plain(q, Kinds)
     \/ name = "persist" /\ Plain(q, {"open", "plan", "close"})
     \/ name = "set_id" /\ new \in Ids /\ to = Speed /\ Renamer(q, new, Speed, Speed)
     \/ name = "setup" /\ new \in Ids /\ \A k \in Places(q) : q[k].do \in {"open", "scan"}

LEMMA IdsAre == /\ Some \in Seq(Ids) /\ Some # <<>> /\ Arm \in Seq(Ids) /\ Arm # <<>> /\ NewIds \subseteq Ids
                /\ \A i \in Ids : <<i>> \in Seq(Ids) /\ <<i>> # <<>>
<1>1. Arm \in Seq(Ids) /\ Arm # <<>> /\ NewIds \subseteq Ids  BY IdsAssumption
<1>2. Head(Arm) \in Ids  BY <1>1
<1> QED  BY <1>1, <1>2 DEF Some

LEMMA BeginsIs ==
  ASSUME NEW t, Begins(t)
  PROVE  \E q, name, new, to : Run(t, name, q, new, to) /\ Tooled(q, name, new, to)
<1>1. CASE \E i \in Ids : Run(t, "demo", Demo(<<i>>), i, Speed)
  <2>1. PICK i \in Ids : Run(t, "demo", Demo(<<i>>), i, Speed)  BY <1>1
  <2>2. Plain(Demo(<<i>>), Kinds)  BY IdsAre, DemoPlain
  <2>3. Tooled(Demo(<<i>>), "demo", i, Speed)  BY <2>2, SpeedAssumption DEF Tooled, Plain
  <2> QED  BY <2>1, <2>3
<1>2. CASE \E todo \in {Move(Some), Verify(Some), Measure(Some), FindLimits(Some), Check(Arm), Scale(Arm), TorqueOff} :
             Run(t, "any", todo, None, Speed)
  <2>1. PICK q \in {Move(Some), Verify(Some), Measure(Some), FindLimits(Some), Check(Arm), Scale(Arm), TorqueOff} :
          Run(t, "any", q, None, Speed)
    BY <1>2
  <2>2. Plain(q, Kinds)
    <3>1. Plain(Move(Some), Kinds) /\ Plain(Verify(Some), Kinds)  BY IdsAre, MovePlain
    <3>2. Plain(Measure(Some), Kinds)  BY IdsAre, MeasurePlain
    <3>3. Plain(FindLimits(Some), Kinds)  BY IdsAre, FindLimitsPlain
    <3>4. Plain(Check(Arm), Kinds)  BY IdsAre, CheckPlain
    <3>5. Plain(Scale(Arm), Kinds)  BY IdsAre, ScalePlain
    <3> QED  BY <2>1, <3>1, <3>2, <3>3, <3>4, <3>5, StepsPlain
  <2>3. Tooled(q, "any", None, Speed)  BY <2>2, SpeedAssumption DEF Tooled, Plain
  <2> QED  BY <2>1, <2>3
<1>3. CASE Run(t, "persist", Persist, None, Speed)
  <2>1. Tooled(Persist, "persist", None, Speed)  BY StepsPlain, SpeedAssumption DEF Tooled, Plain
  <2> QED  BY <1>3, <2>1
<1>4. CASE \E i \in Ids, new \in NewIds : i # new /\ Run(t, "set_id", SetId(i, new), new, Speed)
  <2>1. PICK i \in Ids, new \in NewIds : Run(t, "set_id", SetId(i, new), new, Speed)  BY <1>4
  <2>2. new \in Ids  BY IdsAre
  <2>3. Renamer(SetId(i, new), new, Speed, Speed) /\ Starting(SetId(i, new))  BY <2>2, SetIdRenames
  <2>4. Tooled(SetId(i, new), "set_id", new, Speed)  BY <2>2, <2>3, SpeedAssumption DEF Tooled, Renamer
  <2> QED  BY <2>1, <2>4
<1>5. CASE \E new \in NewIds, at, to \in Speeds : Run(t, "setup", Setup(at), new, to)
  <2>1. PICK new \in NewIds, at \in Speeds, to \in Speeds : Run(t, "setup", Setup(at), new, to)  BY <1>5
  <2>2. Tooled(Setup(at), "setup", new, to)  BY <2>1, IdsAre, SetupIs DEF Tooled
  <2> QED  BY <2>1, <2>2
<1> QED  BY <1>1, <1>2, <1>3, <1>4, <1>5 DEF Begins

----------------------------------------------------------------------------
(* What is left of a program behind a step.                                *)

LEMMA TailSound ==
  ASSUME NEW p, Sound(p), p # <<>>
  PROVE  Sound(Tail(p))
<1> DEFINE q == Tail(p)
<1>1. /\ IsProg(q) /\ Len(p) \in Nat \ {0} /\ Len(q) = Len(p) - 1
      /\ \A j \in Places(q) : j + 1 \in Places(p) /\ q[j] = p[j + 1]
  BY Tails DEF Sound
<1> HIDE DEF q
<1>2. ASSUME NEW k \in Places(q), q[k].do = "close", k # Len(q) PROVE q[k + 1].do = "open"
  <2>1. k + 1 \in Places(p) /\ q[k] = p[k + 1] /\ k + 1 # Len(p) /\ k + 1 \in Places(q) /\ k \in Int
    BY <1>1, <1>2 DEF Places
  <2>2. p[(k + 1) + 1].do = "open"  BY <1>2, <2>1 DEF Sound
  <2> QED  BY <1>1, <2>1, <2>2
<1>3. Sound(q)  BY <1>1, <1>2 DEF Sound
<1> QED  BY <1>3 DEF q

LEMMA FailSound ==
  ASSUME NEW q, Falls3(q)
  PROVE  /\ Sound(q) /\ Quiet(q)
         /\ \A k \in Places(q) : q[k].do \notin {"open", "plan", "scan", "done"}
<1>1. Quiet(q) /\ IsProg(q)  BY DEF Falls3, Quiet
<1>2. ASSUME NEW k \in Places(q)
      PROVE  /\ Falls3(q[k].fail)
             /\ q[k].do = "write" => Fits(q[k].reg, q[k].val)
             /\ q[k].do \notin {"open", "plan", "scan", "done"}
             /\ q[k].do = "close" => k = Len(q)
  BY <1>1, FallsLess DEF Falls3, Quiet, Fits
<1> QED  BY <1>1, <1>2 DEF Sound

----------------------------------------------------------------------------
(* What a step may change.                                                 *)

\* The tool of the terminal t goes on to its next operation.
Forth(t) ==
  LET p == tool[t].todo
  IN  /\ p # <<>>
      /\ tool'[t].todo = Tail(p)
      /\ tool'[t].name = tool[t].name /\ tool'[t].new = tool[t].new /\ tool'[t].to = tool[t].to
      /\ tool'[t].speed = IF p[1].do = "open" THEN p[1].val ELSE tool[t].speed
      /\ IF p[1].do = "close" THEN holder' # t ELSE holder' = t

\* Nobody but the terminal t does anything.
Apart(t) ==
  /\ \A u \in Terminals \ {t} : tool'[u] = tool[u] /\ (holder' = u <=> holder = u)
  /\ DOMAIN servo' = DOMAIN servo
  /\ servo' = servo \/ holder = t

\* What a write leaves in a servo.
IsPut(r, q, reg, val) ==
  /\ r \in Registers
  /\ \A x \in {"id", "baud", "lock", "torque", "prot", "cap", "low", "high"} :
       r[x] = IF x = reg /\ ~(reg \in Eprom /\ q.lock) THEN val ELSE q[x]

LEMMA PutIs ==
  ASSUME NEW s, servo[s] \in Registers, NEW reg, NEW val, Fits(reg, val)
  PROVE  IsPut(Put(s, reg, val), servo[s], reg, val)
<1> DEFINE q == servo[s]
           F == {"id", "baud", "lock", "torque", "prot", "cap", "low", "high"}
<1>1. q \in Registers  OBVIOUS
<1>2. reg \in F  BY DEF Fits, Settings
<1> HIDE DEF q
<1>3. CASE reg \in Eprom /\ q.lock
  BY <1>1, <1>2, <1>3 DEF Put, IsPut, q
<1>4. CASE ~(reg \in Eprom /\ q.lock)
  <2> DEFINE r == [q EXCEPT ![reg] = val]
  <2>1. r = Put(s, reg, val)  BY <1>4 DEF Put, q
  <2>2. \A x \in F : r[x] = IF x = reg THEN val ELSE q[x]  BY <1>1, <1>2 DEF Registers
  <2>3. r \in Registers
    <3>1. q = [id |-> q.id, baud |-> q.baud, lock |-> q.lock, torque |-> q.torque,
               prot |-> q.prot, cap |-> q.cap, low |-> q.low, high |-> q.high]
      BY <1>1 DEF Registers
    <3> DEFINE z == [id |-> IF reg = "id" THEN val ELSE q.id, baud |-> IF reg = "baud" THEN val ELSE q.baud,
                     lock |-> IF reg = "lock" THEN val ELSE q.lock, torque |-> IF reg = "torque" THEN val ELSE q.torque,
                     prot |-> IF reg = "prot" THEN val ELSE q.prot, cap |-> IF reg = "cap" THEN val ELSE q.cap,
                     low |-> IF reg = "low" THEN val ELSE q.low, high |-> IF reg = "high" THEN val ELSE q.high]
    <3>2. DOMAIN z = F /\ \A x \in F : z[x] = IF x = reg THEN val ELSE q[x]
      OBVIOUS
    <3>3. z \in Registers  BY <1>1 DEF Registers, Fits, Settings
    <3>4. z = [x \in F |-> z[x]]  BY <3>2
    <3>5. r = [x \in F |-> IF x = reg THEN val ELSE q[x]]
      <4>1. DOMAIN q = F  BY <1>1 DEF Registers
      <4> QED  BY <4>1
    <3> HIDE DEF z, r
    <3>6. r = z  BY <3>2, <3>4, <3>5
    <3> QED  BY <3>3, <3>6
  <2> HIDE DEF r
  <2>4. IsPut(r, q, reg, val)  BY <1>4, <2>2, <2>3 DEF IsPut
  <2> QED  BY <2>1, <2>4 DEF q
<1> QED  BY <1>3, <1>4

\* The servos after a step: each as it was, or as a write or a torque-off left it.
Written(s, o, heard) ==
  IF s \in heard THEN IsPut(servo'[s], servo[s], o.reg, o.val) ELSE servo'[s] = servo[s]

Wrote(o, heard) ==
  /\ DOMAIN servo' = DOMAIN servo
  /\ \A s \in DOMAIN servo : servo'[s] \in Registers /\ Written(s, o, heard)

LEMMA Put2Is ==
  ASSUME Shaped, NEW o, NEW heard, Fits(o.reg, o.val), Put2(heard, o.reg, o.val)
  PROVE  Wrote(o, heard) /\ servo' = [s \in DOMAIN servo' |-> servo'[s]]
<1>1. /\ servo' = [s \in DOMAIN servo |-> IF s \in heard THEN Put(s, o.reg, o.val) ELSE servo[s]]
      /\ \A s \in DOMAIN servo : servo[s] \in Registers
  BY DEF Put2, Shaped, TypeOK
<1>2. DOMAIN servo' = DOMAIN servo /\ servo' = [s \in DOMAIN servo' |-> servo'[s]]  BY <1>1
<1>3. ASSUME NEW s \in DOMAIN servo PROVE servo'[s] \in Registers /\ Written(s, o, heard)
  <2>1. servo'[s] = IF s \in heard THEN Put(s, o.reg, o.val) ELSE servo[s]  BY <1>1
  <2>2. servo[s] \in Registers  BY <1>1
  <2>3. IsPut(Put(s, o.reg, o.val), servo[s], o.reg, o.val)  BY <2>2, PutIs
  <2>4. CASE s \in heard
    <3>1. servo'[s] = Put(s, o.reg, o.val)  BY <2>1, <2>4
    <3>2. IsPut(servo'[s], servo[s], o.reg, o.val)  BY <2>3, <3>1
    <3> QED  BY <2>4, <3>2 DEF Written, IsPut
  <2>5. CASE s \notin heard  BY <2>1, <2>2, <2>5 DEF Written
  <2> QED  BY <2>4, <2>5
<1> QED  BY <1>2, <1>3 DEF Wrote

\* A step that leaves the servos alone.
LEMMA NoneWrote ==
  ASSUME Shaped, servo' = servo
  PROVE  /\ DOMAIN servo' = DOMAIN servo /\ servo' = [s \in DOMAIN servo' |-> servo'[s]]
         /\ \A s \in DOMAIN servo' : servo'[s] \in Registers
BY DEF Shaped, TypeOK

\* What torque_off_verified leaves: less torque, and less locks.
Released(t) ==
  /\ DOMAIN servo' = DOMAIN servo
  /\ \A s \in DOMAIN servo :
       /\ servo'[s] \in Registers
       /\ \A x \in {"id", "baud", "prot", "cap", "low", "high"} : servo'[s][x] = servo[s][x]
       /\ servo'[s].torque => servo[s].torque
       /\ s \notin Arms(t) => servo'[s] = servo[s]
  /\ ~hurt' => ~hurt /\ \A s \in Arms(t) : ~servo'[s].torque

LEMMA ReleasedIs ==
  ASSUME Shaped, NEW t, TurnsOff(t)
  PROVE  Released(t) /\ servo' = [s \in DOMAIN servo' |-> servo'[s]]
<1>1. PICK off \in SUBSET Arms(t), open \in SUBSET Arms(t) :
        /\ servo' = [s \in DOMAIN servo |->
                      [servo[s] EXCEPT !.torque = @ /\ s \notin off, !.lock = @ /\ s \notin open]]
        /\ hurt' = (hurt \/ off # Arms(t))
  BY DEF TurnsOff
<1>2. DOMAIN servo' = DOMAIN servo /\ servo' = [s \in DOMAIN servo' |-> servo'[s]]  BY <1>1
<1>3. ASSUME NEW s \in DOMAIN servo
      PROVE  /\ servo'[s] \in Registers
             /\ \A x \in {"id", "baud", "prot", "cap", "low", "high"} : servo'[s][x] = servo[s][x]
             /\ servo'[s].torque = (servo[s].torque /\ s \notin off)
             /\ s \notin Arms(t) => servo'[s] = servo[s]
  <2>1. servo[s] \in Registers  BY DEF Shaped, TypeOK
  <2> DEFINE q == servo[s]
             r == servo'[s]
             a == q.torque /\ s \notin off
             b == q.lock /\ s \notin open
  <2>2. r = [[q EXCEPT !.torque = a] EXCEPT !.lock = b]  BY <1>1, <2>1 DEF Registers
  <2>3. a \in BOOLEAN /\ b \in BOOLEAN /\ (s \notin Arms(t) => (a = q.torque /\ b = q.lock))
    BY <1>1, <2>1 DEF Registers
  <2>4. q = [id |-> q.id, baud |-> q.baud, lock |-> q.lock, torque |-> q.torque,
             prot |-> q.prot, cap |-> q.cap, low |-> q.low, high |-> q.high]
    BY <2>1 DEF Registers
  <2>5. q \in Registers  BY <2>1
  <2>6. r.torque = (q.torque /\ s \notin off) => servo'[s].torque = (servo[s].torque /\ s \notin off)
    OBVIOUS
  <2>7. r = [id |-> q.id, baud |-> q.baud, lock |-> b, torque |-> a,
             prot |-> q.prot, cap |-> q.cap, low |-> q.low, high |-> q.high]
    <3> HIDE DEF q, r, a, b
    <3> QED  BY <2>2, <2>4
  <2>8. r \in Registers  BY <2>3, <2>5, <2>7 DEF Registers
  <2>9. \A x \in {"id", "baud", "prot", "cap", "low", "high"} : r[x] = q[x]
    <3> HIDE DEF q, r, a, b
    <3> QED  BY <2>7
  <2>10. r.torque = a
    <3> HIDE DEF q, r, a, b
    <3> QED  BY <2>7
  <2>11. ASSUME s \notin Arms(t) PROVE r = q
    <3>1. a = q.torque /\ b = q.lock  BY <2>3, <2>11
    <3> HIDE DEF q, r, a, b
    <3> QED  BY <2>4, <2>7, <3>1
  <2> QED  BY <2>8, <2>9, <2>10, <2>11
<1>4. Released(t)
  <2>1. \A s \in Arms(t) : s \in DOMAIN servo  BY DEF Arms
  <2>2. ~hurt' => ~hurt /\ off = Arms(t)  BY <1>1
  <2> QED  BY <1>2, <1>3, <2>1, <2>2 DEF Released
<1> QED  BY <1>2, <1>4

----------------------------------------------------------------------------
(* Every step keeps the tools and servos what they are.                    *)

OnlyTool(t) ==
  /\ tool' = [u \in Terminals |-> tool'[u]]
  /\ \A u \in Terminals \ {t} : tool'[u] = tool[u]

\* The terminal's tool is as it was, with this to do, at this speed.
Left(t, todo, speed) ==
  /\ tool'[t].name = tool[t].name /\ tool'[t].new = tool[t].new /\ tool'[t].to = tool[t].to
  /\ tool'[t].todo = todo /\ tool'[t].speed = speed

LEMMA LeftIs ==
  ASSUME Shaped, NEW t \in Terminals, Running(t), NEW todo, NEW speed \in Speeds,
         \/ Goes(t, todo) /\ speed = tool[t].speed
         \/ tool' = [tool EXCEPT ![t].todo = todo, ![t].speed = speed]
  PROVE  OnlyTool(t) /\ Left(t, todo, speed) /\ IsTool(tool'[t])
<1> DEFINE r == tool[t]
           n == [name |-> r.name, todo |-> todo, new |-> r.new, to |-> r.to, speed |-> speed]
<1>1. /\ tool = [u \in Terminals |-> tool[u]]
      /\ r = [name |-> r.name, todo |-> r.todo, new |-> r.new, to |-> r.to, speed |-> r.speed]
      /\ r.to \in Speeds /\ r.speed \in Speeds
      /\ r.name \in {"demo", "set_id", "setup"} => r.new \in Ids
      /\ r.name # "none"
  BY DEF Shaped, IsTool, Running
<1>2. tool' = [tool EXCEPT ![t] = n]
  <2>1. CASE Goes(t, todo) /\ speed = tool[t].speed
    <3>1. tool' = [tool EXCEPT ![t] = [r EXCEPT !.todo = todo]]  BY <2>1 DEF Goes
    <3>2. [r EXCEPT !.todo = todo] = n
      <4>1. speed = r.speed  BY <2>1
      <4> HIDE DEF r
      <4> QED  BY <1>1, <4>1
    <3> QED  BY <3>1, <3>2
  <2>2. CASE tool' = [tool EXCEPT ![t].todo = todo, ![t].speed = speed]
    <3> DEFINE m == [r EXCEPT !.todo = todo]
    <3>1. tool' = [tool EXCEPT ![t] = [m EXCEPT !.speed = speed]]  BY <1>1, <2>2
    <3>2. [m EXCEPT !.speed = speed] = n
      <4> HIDE DEF r
      <4>1. m = [name |-> r.name, todo |-> todo, new |-> r.new, to |-> r.to, speed |-> r.speed]  BY <1>1
      <4> HIDE DEF m
      <4> QED  BY <4>1
    <3> QED  BY <3>1, <3>2
  <2> QED  BY <2>1, <2>2
<1>3. OnlyTool(t) /\ tool'[t] = n  BY <1>1, <1>2 DEF OnlyTool
<1>4. /\ n.name = r.name /\ n.new = r.new /\ n.to = r.to /\ n.todo = todo /\ n.speed = speed
      /\ n = [name |-> n.name, todo |-> n.todo, new |-> n.new, to |-> n.to, speed |-> n.speed]
  OBVIOUS
<1> HIDE DEF n
<1>5. IsTool(n)  BY <1>1, <1>4 DEF IsTool
<1> QED  BY <1>3, <1>4, <1>5 DEF Left

LEMMA OpIs ==
  ASSUME NEW t, Sound(tool[t].todo), Running(t)
  PROVE  /\ tool[t].todo # <<>> /\ Now(t) = tool[t].todo[1] /\ 1 \in Places(tool[t].todo)
         /\ \A what : Does(t, what) <=> tool[t].todo[1].do = what
<1>1. tool[t].todo # <<>> /\ IsProg(tool[t].todo)  BY DEF Running, Sound
<1>2. Head(tool[t].todo) = tool[t].todo[1] /\ 1 \in Places(tool[t].todo)  BY <1>1, Tails DEF Places
<1> QED  BY <1>1, <1>2 DEF Now, Does, Running

\* What the op of a writing tool writes, and who hears it.
LEMMA WriteIs ==
  ASSUME Base, NEW t \in Terminals, Does(t, "write"), Put2(Hear(t, Now(t).id), Now(t).reg, Now(t).val)
  PROVE  /\ Wrote(tool[t].todo[1], Hear(t, tool[t].todo[1].id))
         /\ Fits(tool[t].todo[1].reg, tool[t].todo[1].val)
         /\ servo' = [s \in DOMAIN servo' |-> servo'[s]]
<1> DEFINE o == tool[t].todo[1]
<1>1. Sound(tool[t].todo) /\ Running(t)  BY DEF Base, Based, Does
<1>2. Now(t) = o /\ 1 \in Places(tool[t].todo) /\ o.do = "write"  BY <1>1, OpIs
<1>3. Fits(o.reg, o.val)  BY <1>1, <1>2 DEF Sound
<1>4. Put2(Hear(t, o.id), o.reg, o.val)  BY <1>2
<1> HIDE DEF o
<1>5. Shaped  BY DEF Base
<1>6. Wrote(o, Hear(t, o.id)) /\ servo' = [s \in DOMAIN servo' |-> servo'[s]]  BY <1>3, <1>4, <1>5, Put2Is
<1> QED  BY <1>3, <1>6 DEF o

LEMMA ShapedNext ==
  ASSUME Shaped, NEW t \in Terminals, OnlyTool(t), IsTool(tool'[t]),
         DOMAIN servo' = DOMAIN servo, servo' = [s \in DOMAIN servo' |-> servo'[s]],
         \A s \in DOMAIN servo' : servo'[s] \in Registers,
         holder' \in Terminals \cup {None}, starts' \in 0 .. Starts, hurt' \in BOOLEAN
  PROVE  Shaped'
<1>1. \A u \in Terminals : IsTool(tool'[u])  BY DEF OnlyTool, Shaped
<1>2. DOMAIN tool' = Terminals /\ tool' = [u \in Terminals |-> tool'[u]]  BY DEF OnlyTool
<1> QED  BY <1>1, <1>2 DEF Shaped, TypeOK

LEMMA Onward ==
  ASSUME Base, NEW t \in Terminals,
         Opens(t) \/ Closes(t) \/ Writes(t) \/ Pings(t) \/ Works(t) \/ TurnsOff(t)
  PROVE  Shaped' /\ Forth(t) /\ Apart(t)
<1> DEFINE p == tool[t].todo
           o == p[1]
<1>1. Shaped /\ Based(t)  BY DEF Base
<1>2. Running(t)  BY DEF Opens, Closes, Writes, Pings, Works, TurnsOff, Does
<1>3. p # <<>> /\ Now(t) = o /\ 1 \in Places(p) /\ \A what : Does(t, what) <=> o.do = what
  BY <1>1, <1>2, OpIs DEF Based
<1>4. o.do = "open" => o.val \in Speeds  BY <1>1, <1>3 DEF Based, Sound
<1>5. tool[t].speed \in Speeds  BY <1>1 DEF Shaped, IsTool
<1>6. o.do \notin {"open", "close"} => holder = t  BY <1>1, <1>3 DEF Based
<1> DEFINE speed == IF o.do = "open" THEN o.val ELSE tool[t].speed
<1>7. OnlyTool(t) /\ Left(t, Tail(p), speed) /\ IsTool(tool'[t])
  <2>1. speed \in Speeds  BY <1>4, <1>5
  <2>2. \/ Goes(t, Tail(p)) /\ speed = tool[t].speed
        \/ tool' = [tool EXCEPT ![t].todo = Tail(p), ![t].speed = speed]
    <3>1. CASE Opens(t)
      <4>1. o.do = "open"  BY <1>3, <3>1 DEF Opens
      <4>2. tool' = [tool EXCEPT ![t].todo = Tail(@), ![t].speed = Now(t).val]  BY <3>1 DEF Opens
      <4>3. tool' = [tool EXCEPT ![t].todo = Tail(p), ![t].speed = Now(t).val]  BY <4>2
      <4> QED  BY <1>3, <4>1, <4>3
    <3>2. CASE ~Opens(t)
      <4>1. o.do # "open" /\ GoesOn(t)
        BY <1>3, <3>2 DEF Closes, Writes, Pings, Works, TurnsOff
      <4> QED  BY <4>1 DEF GoesOn
    <3> QED  BY <3>1, <3>2
  <2> HIDE DEF speed, p
  <2> QED  BY <1>1, <1>2, <2>1, <2>2, LeftIs
<1>8. IF o.do = "close" THEN holder' # t /\ \A u \in Terminals \ {t} : holder' = u <=> holder = u
      ELSE holder' = t /\ \A u \in Terminals \ {t} : holder' = u <=> holder = u
  BY <1>3, <1>6, NoneAssumption DEF Opens, Closes, Writes, Pings, Works, TurnsOff
<1>9. holder' \in Terminals \cup {None}
  BY <1>1 DEF Opens, Closes, Writes, Pings, Works, TurnsOff, Shaped, TypeOK
<1>10. starts' \in 0 .. Starts /\ hurt' \in BOOLEAN
  BY <1>1 DEF Opens, Closes, Writes, Pings, Works, TurnsOff, Shaped, TypeOK
<1>11. /\ DOMAIN servo' = DOMAIN servo /\ servo' = [s \in DOMAIN servo' |-> servo'[s]]
       /\ \A s \in DOMAIN servo' : servo'[s] \in Registers
       /\ servo' = servo \/ holder = t
  <2>1. CASE Writes(t)
    <3>1. Does(t, "write") /\ Put2(Hear(t, Now(t).id), Now(t).reg, Now(t).val)  BY <2>1 DEF Writes
    <3>2. Wrote(o, Hear(t, o.id)) /\ servo' = [s \in DOMAIN servo' |-> servo'[s]]  BY <3>1, WriteIs
    <3>3. holder = t  BY <1>3, <1>6, <3>1
    <3> QED  BY <3>2, <3>3 DEF Wrote
  <2>2. CASE TurnsOff(t)
    <3>1. Released(t) /\ servo' = [s \in DOMAIN servo' |-> servo'[s]]  BY <1>1, <2>2, ReleasedIs
    <3>2. holder = t  BY <1>3, <1>6, <2>2 DEF TurnsOff
    <3> QED  BY <3>1, <3>2 DEF Released
  <2>3. CASE servo' = servo  BY <1>1, <2>3, NoneWrote
  <2> QED  BY <2>1, <2>2, <2>3 DEF Opens, Closes, Pings, Works
<1> HIDE DEF o, speed
<1>12. Apart(t)  BY <1>7, <1>8, <1>11 DEF Apart, OnlyTool
<1>13. Shaped'  BY <1>1, <1>7, <1>9, <1>10, <1>11, ShapedNext
<1>14. Forth(t)  BY <1>3, <1>7, <1>8 DEF Forth, Left, o, speed
<1> QED  BY <1>12, <1>13, <1>14

LEMMA BasedApart ==
  ASSUME Base, NEW t \in Terminals, Apart(t), NEW u \in Terminals \ {t}
  PROVE  Based(u)'
<1>1. Based(u)  BY DEF Base
<1>2. tool'[u] = tool[u] /\ (holder' = u <=> holder = u)  BY DEF Apart
<1> QED  BY <1>1, <1>2 DEF Based

LEMMA BasedForth ==
  ASSUME Base, NEW t \in Terminals, Forth(t)
  PROVE  Based(t)'
<1> DEFINE p == tool[t].todo
           q == Tail(p)
<1>1. /\ Sound(p) /\ p # <<>>
      /\ tool'[t].todo = q /\ tool'[t].name = tool[t].name
      /\ IF p[1].do = "close" THEN holder' # t ELSE holder' = t
      /\ \A k \in Places(p) : /\ p[k].do = "plan" => tool[t].name = "persist"
                              /\ p[k].do = "scan" => tool[t].name = "setup"
  <2>1. Based(t)  BY DEF Base
  <2>2. /\ Sound(p)
        /\ \A k \in Places(p) : /\ p[k].do = "plan" => tool[t].name = "persist"
                                /\ p[k].do = "scan" => tool[t].name = "setup"
    BY <2>1 DEF Based
  <2>3. /\ p # <<>> /\ tool'[t].todo = q /\ tool'[t].name = tool[t].name
        /\ IF p[1].do = "close" THEN holder' # t ELSE holder' = t
    BY DEF Forth
  <2> QED  BY <2>2, <2>3
<1> HIDE DEF p
<1>2. Sound(q)  BY <1>1, TailSound
<1>3. /\ \A k \in Places(q) : k + 1 \in Places(p) /\ q[k] = p[k + 1]
      /\ Len(p) \in Nat \ {0} /\ Len(q) = Len(p) - 1
  BY <1>1, Tails DEF Sound
<1>4. q # <<>> => Len(p) # 1 /\ 1 \in Places(q)
  <2>1. IsProg(q)  BY <1>2 DEF Sound
  <2>2. Len(q) \in Nat /\ (q = <<>> <=> Len(q) = 0)  BY <2>1, Lengths
  <2> QED  BY <1>3, <2>2 DEF Places
<1> HIDE DEF q
<1>5. ASSUME q # <<>>, p[1].do = "close" PROVE q[1].do = "open"
  <2>1. 1 \in Places(p) /\ 1 # Len(p) /\ 1 + 1 = 2  BY <1>3, <1>4, <1>5 DEF Places
  <2>2. p[1 + 1].do = "open"  BY <1>1, <1>5, <2>1 DEF Sound
  <2> QED  BY <1>3, <1>4, <1>5, <2>2
<1>6. q # <<>> /\ q[1].do \notin {"open", "close"} => holder' = t  BY <1>1, <1>5
<1>7. \A k \in Places(q) : /\ q[k].do = "plan" => tool'[t].name = "persist"
                           /\ q[k].do = "scan" => tool'[t].name = "setup"
  BY <1>1, <1>3
<1> QED  BY <1>1, <1>2, <1>6, <1>7 DEF Based

\* The tool of the terminal t meets an error.
Back(t) ==
  LET p == tool[t].todo
  IN  /\ p # <<>> /\ p[1].do \notin {"close", "done", "off"}
      /\ Left(t, p[1].fail, tool[t].speed)
      /\ p[1].do # "open" => holder = t /\ holder' = t

LEMMA Backward ==
  ASSUME Base, NEW t \in Terminals, Raises(t)
  PROVE  Shaped' /\ Back(t) /\ Apart(t)
<1> DEFINE p == tool[t].todo
           o == p[1]
<1>1. Shaped /\ Based(t)  BY DEF Base
<1>2. Running(t)  BY DEF Raises
<1>3. p # <<>> /\ Now(t) = o /\ 1 \in Places(p) /\ \A what : Does(t, what) <=> o.do = what
  BY <1>1, <1>2, OpIs DEF Based
<1>4. tool[t].speed \in Speeds  BY <1>1 DEF Shaped, IsTool
<1>5. o.do \notin {"open", "close"} => holder = t  BY <1>1, <1>3 DEF Based
<1>6. o.do \notin {"close", "done", "off"} /\ Goes(t, o.fail)  BY <1>3 DEF Raises
<1>7. OnlyTool(t) /\ Left(t, o.fail, tool[t].speed) /\ IsTool(tool'[t])
  <2> HIDE DEF p, o
  <2> QED  BY <1>1, <1>2, <1>4, <1>6, LeftIs
<1>8. /\ \A u \in Terminals \ {t} : holder' = u <=> holder = u
      /\ o.do # "open" => holder' = holder
      /\ holder' \in Terminals \cup {None}
  BY <1>1, <1>3, NoneAssumption DEF Raises, Shaped, TypeOK
<1>9. starts' \in 0 .. Starts /\ hurt' \in BOOLEAN
  BY <1>1 DEF Raises, Shaped, TypeOK
<1>10. /\ DOMAIN servo' = DOMAIN servo /\ servo' = [s \in DOMAIN servo' |-> servo'[s]]
       /\ \A s \in DOMAIN servo' : servo'[s] \in Registers
       /\ servo' = servo \/ holder = t
  <2>1. CASE servo' = servo  BY <1>1, <2>1, NoneWrote
  <2>2. CASE servo' # servo
    <3>1. Does(t, "write") /\ Put2(Hear(t, Now(t).id), Now(t).reg, Now(t).val)  BY <2>2 DEF Raises
    <3>2. Wrote(o, Hear(t, o.id)) /\ servo' = [s \in DOMAIN servo' |-> servo'[s]]  BY <3>1, WriteIs
    <3>3. holder = t  BY <1>3, <1>5, <3>1
    <3> QED  BY <3>2, <3>3 DEF Wrote
  <2> QED  BY <2>1, <2>2
<1> HIDE DEF o
<1>11. Apart(t)  BY <1>7, <1>8, <1>10 DEF Apart, OnlyTool
<1>12. Shaped'  BY <1>1, <1>7, <1>8, <1>9, <1>10, ShapedNext
<1>13. Back(t)  BY <1>3, <1>5, <1>6, <1>7, <1>8 DEF Back, o
<1> QED  BY <1>11, <1>12, <1>13

LEMMA BasedBack ==
  ASSUME Base, NEW t \in Terminals, Back(t)
  PROVE  Based(t)'
<1> DEFINE p == tool[t].todo
           o == p[1]
           q == o.fail
<1>1. Sound(p) /\ p # <<>> /\ tool'[t].todo = q /\ (o.do # "open" => holder' = t)
  BY DEF Base, Based, Back, Left
<1>2. 1 \in Places(p)  BY <1>1, Tails DEF Sound, Places
<1>3. Falls3(q)  BY <1>1, <1>2 DEF Sound
<1>4. o.do = "open" => q \in {<<>>, Close}  BY <1>1, <1>2 DEF Sound
<1>5. Close[1].do = "close"  BY One DEF Close, Step, Op
<1>6. Sound(q) /\ \A k \in Places(q) : q[k].do \notin {"open", "plan", "scan", "done"}
  BY <1>3, FailSound
<1> HIDE DEF q, o, p
<1>7. q # <<>> /\ q[1].do \notin {"open", "close"} => holder' = t  BY <1>1, <1>4, <1>5
<1> QED  BY <1>1, <1>6, <1>7 DEF Based

\* It ends, or is killed.
Gone(t) ==
  /\ OnlyTool(t) /\ tool'[t] = Idle
  /\ servo' = servo

LEMMA Ending0 ==
  ASSUME Base, NEW t \in Terminals, Exits(t) \/ Killed(t)
  PROVE  Shaped' /\ Gone(t) /\ Apart(t) /\ Based(t)'
<1>1. Shaped  BY DEF Base
<1>2. Leaves(t) /\ (hurt' = hurt \/ hurt' = TRUE)  BY DEF Exits, Killed
<1>3. tool = [u \in Terminals |-> tool[u]]  BY <1>1 DEF Shaped
<1>4. OnlyTool(t) /\ tool'[t] = Idle  BY <1>2, <1>3 DEF Leaves, OnlyTool
<1>5. servo' = servo /\ starts' = starts /\ holder' = IF holder = t THEN None ELSE holder
  BY <1>2 DEF Leaves
<1>6. \A u \in Terminals \ {t} : holder' = u <=> holder = u  BY <1>5, NoneAssumption
<1>7. Idle.todo = <<>> /\ IsTool(Idle)  BY SpeedAssumption DEF Idle, IsTool
<1>8. holder' \in Terminals \cup {None} /\ starts' \in 0 .. Starts /\ hurt' \in BOOLEAN
  BY <1>1, <1>2, <1>5 DEF Shaped, TypeOK
<1>9. /\ DOMAIN servo' = DOMAIN servo /\ servo' = [s \in DOMAIN servo' |-> servo'[s]]
      /\ \A s \in DOMAIN servo' : servo'[s] \in Registers
  BY <1>1, <1>5, NoneWrote
<1>10. IsTool(tool'[t])  BY <1>4, <1>7
<1>11. Shaped'  BY <1>1, <1>4, <1>8, <1>9, <1>10, ShapedNext
<1>12. Apart(t)  BY <1>4, <1>5, <1>6 DEF Apart, OnlyTool
<1>13. tool'[t].todo = <<>>  BY <1>4, <1>7
<1>14. Sound(<<>>)  BY NoneToDo DEF Sound
<1>15. Based(t)'  BY <1>13, <1>14, NoneToDo DEF Based
<1> QED  BY <1>4, <1>5, <1>11, <1>12, <1>15 DEF Gone

----------------------------------------------------------------------------
(* The two tools that look at the bus before they know what to do.         *)

LEMMA ChangesPart ==
  ASSUME NEW t, NEW i \in Ids
  PROVE  Part(Changes(t, i), {"set"}, Fails(Close))
<1>1. Close \in Fails(Close) /\ Relock(i, Close) \in Fails(Close) /\ IsProg(Close)
  BY CloseIs DEF Fails, Ends
<1>2. ASSUME NEW regs \in {<<"prot">>, <<"cap">>, <<"low", "high">>}
      PROVE  Part(Unlocked(i, regs, Close), {"set"}, Fails(Close))
  BY <1>1, SettingSeqs, UnlockedPart
<1>3. Part(<<>>, {"set"}, Fails(Close))  BY NoneToDo DEF Part
<1> DEFINE a == IF Differs(t, i, "cap") THEN Unlocked(i, <<"cap">>, Close) ELSE <<>>
           b == IF Differs(t, i, "low") \/ Differs(t, i, "high")
                THEN Unlocked(i, <<"low", "high">>, Close) ELSE <<>>
<1>4. Part(a, {"set"}, Fails(Close))  BY <1>2, <1>3
<1>5. Part(b, {"set"}, Fails(Close))  BY <1>2, <1>3
<1>6. Changes(t, i) = a \o b  BY DEF Changes
<1> HIDE DEF a, b
<1>7. Part(a \o b, {"set"}, Fails(Close))  BY <1>4, <1>5, PartJoin
<1> QED  BY <1>6, <1>7

AllChanges(t) == Each(Arm, LAMBDA i : Changes(t, i))

\* The writes f, the word that they are done, and the end.
PlanWell(p, f) ==
  /\ Part(f, {"set"}, Fails(Close)) /\ Block(p, 0, f)
  /\ Sound(p) /\ Part(p, {"set", "done", "close"}, Fails(Close))
  /\ \A k \in Places(p) : \/ k \in Places(f) /\ p[k] = f[k]
                          \/ k = Len(f) + 1 /\ p[k].do = "done"
                          \/ k = Len(f) + 2 /\ p[k].do = "close"

LEMMA AllChangesPart ==
  ASSUME NEW t
  PROVE  /\ Part(AllChanges(t), {"set"}, Fails(Close))
         /\ AllChanges(t) = FlattenSeq([k \in DOMAIN Arm |-> Changes(t, Arm[k])])
<1> DEFINE s == [k \in DOMAIN Arm |-> Changes(t, Arm[k])]
<1>1. AllChanges(t) = FlattenSeq(s)  BY DEF AllChanges, Each
<1>2. /\ \A k \in DOMAIN Arm : s[k] = Changes(t, Arm[k])
      /\ s = [k \in DOMAIN Arm |-> s[k]]
  OBVIOUS
<1> HIDE DEF s
<1>3. /\ IsProg(s) /\ s # <<>> /\ Places(s) = DOMAIN Arm
      /\ \A k \in DOMAIN Arm : Arm[k] \in Ids
  BY <1>2, IdsAre, EachIs
<1>4. \A k \in Places(s) : Part(s[k], {"set"}, Fails(Close))  BY <1>2, <1>3, ChangesPart
<1>5. Part(FlattenSeq(s), {"set"}, Fails(Close))  BY <1>3, <1>4, PartFlat
<1> QED  BY <1>1, <1>5 DEF s

LEMMA PlanIs ==
  ASSUME NEW f, Part(f, {"set"}, Fails(Close)), NEW p, p = (f \o Step("done", <<>>)) \o Close
  PROVE  PlanWell(p, f)
<1> DEFINE d == Step("done", <<>>)
           a == f \o d
<1>1. /\ Part(d, {"done"}, Fails(Close)) /\ Part(Close, {"close"}, Fails(Close))
      /\ Len(d) = 1 /\ d[1].do = "done" /\ Len(Close) = 1 /\ Close[1].do = "close"
  <2>1. <<>> \in Fails(Close) /\ {<<>>, Close} \subseteq Fails(Close)  BY FailsHave
  <2>2. Part(d, {"done"}, Fails(Close))  BY <2>1, StepPart
  <2>3. Part(Close, {"close"}, Fails(Close))  BY <2>1, StepPart DEF Close
  <2>4. Len(d) = 1 /\ d[1].do = "done" /\ Len(Close) = 1 /\ Close[1].do = "close"
    BY One DEF Close, Step, Op
  <2> QED  BY <2>2, <2>3, <2>4
<1> HIDE DEF d
<1>2. Part(a, {"set", "done"}, Fails(Close))  BY <1>1, PartJoin
<1>3. /\ IsProg(a) /\ Len(a) = Len(f) + Len(d) /\ Block(a, 0, f) /\ Block(a, Len(f), d)
      /\ \A k \in Places(a) : k \in Places(f) \/ k - Len(f) \in Places(d)
      /\ Len(f) \in Nat
  BY <1>1, Joined, Lengths DEF Part
<1>4. p = a \o Close  BY DEF d
<1> HIDE DEF a
<1>5. Part(p, {"set", "done", "close"}, Fails(Close))
  <2>1. Part(a, {"set", "done"}, Fails(Close)) /\ Part(Close, {"close"}, Fails(Close))  BY <1>1, <1>2
  <2>2. Part(a \o Close, {"set", "done", "close"}, Fails(Close))  BY <2>1, PartJoin
  <2> QED  BY <1>4, <2>2
<1>6. /\ IsProg(p) /\ Block(p, 0, a) /\ Block(p, Len(a), Close)
      /\ \A k \in Places(p) : k \in Places(a) \/ k - Len(a) \in Places(Close)
  BY <1>1, <1>3, <1>4, Joined DEF Part
<1>7. Sound(p)  BY <1>5, CloseFalls, PartSound
<1>8. ASSUME NEW k \in Places(a) PROVE p[k] = a[k] /\ k \in Places(p) /\ 0 + k = k
  <2>1. 0 + k = k  BY <1>3, Lengths DEF Places
  <2> QED  BY <1>6, <2>1 DEF Block
<1>9. ASSUME NEW k \in Places(f) PROVE a[k] = f[k] /\ k \in Places(a) /\ 0 + k = k
  <2>1. 0 + k = k  BY <1>3 DEF Places
  <2> QED  BY <1>3, <2>1 DEF Block
<1>10. Block(p, 0, f)  BY <1>8, <1>9 DEF Block
<1>11. ASSUME NEW k \in Places(p)
       PROVE  \/ k \in Places(f) /\ p[k] = f[k]
              \/ k = Len(f) + 1 /\ p[k].do = "done"
              \/ k = Len(f) + 2 /\ p[k].do = "close"
  <2>1. k \in Int  BY DEF Places
  <2>2. CASE k \in Places(f)  BY <1>8, <1>9, <2>2
  <2>3. CASE k \in Places(a) /\ k - Len(f) \in Places(d)
    <3>1. k - Len(f) = 1 /\ k = Len(f) + 1 /\ 1 \in Places(d)  BY <1>1, <1>3, <2>1, <2>3 DEF Places
    <3>2. a[Len(f) + 1] = d[1]  BY <1>3, <3>1 DEF Block
    <3> QED  BY <1>1, <1>8, <2>3, <3>1, <3>2
  <2>4. CASE k - Len(a) \in Places(Close)
    <3>1. k = Len(a) + 1 /\ k = Len(f) + 2 /\ 1 \in Places(Close)  BY <1>1, <1>3, <2>1, <2>4 DEF Places
    <3>2. p[Len(a) + 1] = Close[1]  BY <1>6, <3>1 DEF Block
    <3> QED  BY <1>1, <3>1, <3>2
  <2> QED  BY <1>3, <1>6, <2>2, <2>3, <2>4
<1> QED  BY <1>5, <1>7, <1>10, <1>11 DEF PlanWell

\* The tool of the terminal t goes on with another program.
Anew(t, q) ==
  /\ Left(t, q, tool[t].speed)
  /\ servo' = servo /\ hurt' = hurt
  /\ holder = t /\ holder' = t /\ tool[t].todo # <<>> /\ tool[t].todo[1].do \in {"plan", "scan"}
  /\ \/ q = Close
     \/ /\ tool[t].name = "persist" /\ PlanWell(q, AllChanges(t))
        /\ \A k \in DOMAIN Arm : Hear(t, Arm[k]) # {}
     \/ tool[t].name = "setup" /\ tool[t].new \in Ids /\ Renamer(q, tool[t].new, tool[t].speed, tool[t].to)

LEMMA Looks ==
  ASSUME Base, NEW t \in Terminals, Plans(t) \/ Finds(t)
  PROVE  Shaped' /\ Apart(t) /\ \E q : Sound(q) /\ Anew(t, q)
<1> DEFINE p == tool[t].todo
<1>1. Shaped /\ Based(t)  BY DEF Base
<1>2. Running(t) /\ (Does(t, "plan") \/ Does(t, "scan"))  BY DEF Plans, Finds, Does
<1>3. p # <<>> /\ 1 \in Places(p) /\ \A what : Does(t, what) <=> p[1].do = what
  BY <1>1, <1>2, OpIs DEF Based
<1>4. holder = t  BY <1>1, <1>2, <1>3 DEF Based
<1>5. /\ IsTool(tool[t]) /\ tool[t].speed \in Speeds /\ tool[t].to \in Speeds
      /\ tool[t].name = "setup" => tool[t].new \in Ids
      /\ \A s \in DOMAIN servo : servo[s].id \in Ids
  BY <1>1 DEF Shaped, IsTool, TypeOK, Registers
<1>6. /\ Does(t, "plan") => tool[t].name = "persist"
      /\ Does(t, "scan") => tool[t].name = "setup"
  BY <1>1, <1>3 DEF Based
<1>7. servo' = servo /\ hurt' = hurt /\ holder' = holder /\ starts' = starts  BY DEF Plans, Finds
<1>8. Sound(Close)  BY CloseFalls, FailSound
<1>9. \E q : /\ Goes(t, q) /\ Sound(q)
             /\ \/ q = Close
                \/ /\ tool[t].name = "persist" /\ PlanWell(q, AllChanges(t))
                   /\ \A k \in DOMAIN Arm : Hear(t, Arm[k]) # {}
                \/ tool[t].name = "setup" /\ tool[t].new \in Ids /\ Renamer(q, tool[t].new, tool[t].speed, tool[t].to)
  <2>1. CASE Plans(t)
    <3> DEFINE q == (AllChanges(t) \o Step("done", <<>>)) \o Close
    <3>1. PlanWell(q, AllChanges(t))
      <4>1. Part(AllChanges(t), {"set"}, Fails(Close))  BY AllChangesPart
      <4> QED  BY <4>1, PlanIs
    <3>2. Goes(t, q) \/ Goes(t, Close)  BY <2>1 DEF Plans, AllChanges
    <3>3. tool[t].name = "persist" /\ \A k \in DOMAIN Arm : Hear(t, Arm[k]) # {}  BY <1>6, <2>1 DEF Plans
    <3> HIDE DEF q
    <3>4. Sound(q)  BY <3>1 DEF PlanWell
    <3> QED  BY <1>8, <3>1, <3>2, <3>3, <3>4
  <2>2. CASE Finds(t)
    <3>1. PICK i \in {servo[s].id : s \in DOMAIN servo} :
            Goes(t, IF i = tool[t].new /\ tool[t].speed = tool[t].to THEN Close
                    ELSE SetUp(i, tool[t].new, tool[t].speed, tool[t].to))
      BY <2>2 DEF Finds
    <3>2. tool[t].name = "setup" /\ tool[t].new \in Ids /\ i \in Ids  BY <1>5, <1>6, <2>2, <3>1 DEF Finds
    <3> DEFINE q == SetUp(i, tool[t].new, tool[t].speed, tool[t].to)
    <3>3. Renamer(q, tool[t].new, tool[t].speed, tool[t].to)  BY <1>5, <3>2, SetUpRenames
    <3>4. Goes(t, Close) \/ Goes(t, q)  BY <3>1
    <3> HIDE DEF q
    <3>5. Sound(q)  BY <3>3 DEF Renamer
    <3> QED  BY <1>8, <3>2, <3>3, <3>4, <3>5
  <2> QED  BY <2>1, <2>2
<1>10. PICK q : /\ Goes(t, q) /\ Sound(q)
                /\ \/ q = Close
                   \/ /\ tool[t].name = "persist" /\ PlanWell(q, AllChanges(t))
                      /\ \A k \in DOMAIN Arm : Hear(t, Arm[k]) # {}
                   \/ tool[t].name = "setup" /\ tool[t].new \in Ids /\ Renamer(q, tool[t].new, tool[t].speed, tool[t].to)
  BY <1>9
<1>11. OnlyTool(t) /\ Left(t, q, tool[t].speed) /\ IsTool(tool'[t])
  <2> HIDE DEF p
  <2> QED  BY <1>1, <1>2, <1>5, <1>10, LeftIs
<1>12. p # <<>> /\ p[1].do \in {"plan", "scan"}  BY <1>2, <1>3
<1>13. Anew(t, q)  BY <1>4, <1>7, <1>10, <1>11, <1>12 DEF Anew
<1>14. Apart(t)  BY <1>7, <1>11 DEF Apart, OnlyTool
<1>15. holder' \in Terminals \cup {None} /\ starts' \in 0 .. Starts /\ hurt' \in BOOLEAN
  BY <1>1, <1>7 DEF Shaped, TypeOK
<1>16. /\ DOMAIN servo' = DOMAIN servo /\ servo' = [s \in DOMAIN servo' |-> servo'[s]]
       /\ \A s \in DOMAIN servo' : servo'[s] \in Registers
  BY <1>1, <1>7, NoneWrote
<1>17. Shaped'  BY <1>1, <1>11, <1>15, <1>16, ShapedNext
<1> QED  BY <1>10, <1>13, <1>14, <1>17

LEMMA BasedAnew ==
  ASSUME Base, NEW t \in Terminals, NEW q, Sound(q), Anew(t, q)
  PROVE  Based(t)'
<1>1. tool'[t].todo = q /\ holder' = t  BY DEF Anew, Left
<1>2. \A k \in Places(q) : q[k].do \notin {"plan", "scan"}
  <2>1. CASE q = Close  BY <2>1, CloseFalls, FailSound
  <2>2. CASE PlanWell(q, AllChanges(t))  BY <2>2 DEF PlanWell, Part, PartAt
  <2>3. CASE Renamer(q, tool[t].new, tool[t].speed, tool[t].to)  BY <2>3 DEF Renamer
  <2> QED  BY <2>1, <2>2, <2>3 DEF Anew
<1> QED  BY <1>1, <1>2 DEF Based

\* A tool was started.
Started(t, q, name, new, to) ==
  /\ Tooled(q, name, new, to)
  /\ tool[t].name = "none" /\ tool[t].todo = <<>>
  /\ tool'[t].name = name /\ tool'[t].todo = q /\ tool'[t].new = new /\ tool'[t].to = to
  /\ tool'[t].speed = Speed
  /\ servo' = servo /\ holder' = holder /\ hurt' = hurt

LEMMA Starting1 ==
  ASSUME Base, NEW t \in Terminals, Begins(t)
  PROVE  Shaped' /\ Apart(t) /\ \E q, name, new, to : Started(t, q, name, new, to)
<1>1. Shaped  BY DEF Base
<1>2. /\ servo' = servo /\ holder' = holder /\ hurt' = hurt
      /\ starts' = starts + 1 /\ starts < Starts /\ tool[t].name = "none"
  BY DEF Begins, Free
<1>3. PICK q, name, new, to : Run(t, name, q, new, to) /\ Tooled(q, name, new, to)
  BY BeginsIs
<1> DEFINE r == [name |-> name, todo |-> q, new |-> new, to |-> to, speed |-> Speed]
<1>4. OnlyTool(t) /\ tool'[t] = r
  <2>1. tool = [u \in Terminals |-> tool[u]]  BY <1>1 DEF Shaped
  <2>2. tool' = [tool EXCEPT ![t] = r]  BY <1>3 DEF Run
  <2> HIDE DEF r
  <2> QED  BY <2>1, <2>2 DEF OnlyTool
<1>5. /\ r.name = name /\ r.todo = q /\ r.new = new /\ r.to = to /\ r.speed = Speed
      /\ r = [name |-> r.name, todo |-> r.todo, new |-> r.new, to |-> r.to, speed |-> r.speed]
  OBVIOUS
<1> HIDE DEF r
<1>6. IsTool(r)  BY <1>3, <1>5, SpeedAssumption DEF IsTool, Tooled
<1>7. IsTool(tool[t])  BY <1>1 DEF Shaped
<1>8. tool[t].todo = <<>>  BY <1>2, <1>7 DEF IsTool
<1>9. Started(t, q, name, new, to)  BY <1>2, <1>3, <1>4, <1>5, <1>8 DEF Started
<1>10. holder' \in Terminals \cup {None} /\ starts' \in 0 .. Starts /\ hurt' \in BOOLEAN
  BY <1>1, <1>2, StartsAssumption DEF Shaped, TypeOK
<1>11. /\ DOMAIN servo' = DOMAIN servo /\ servo' = [s \in DOMAIN servo' |-> servo'[s]]
       /\ \A s \in DOMAIN servo' : servo'[s] \in Registers
  BY <1>1, <1>2, NoneWrote
<1>12. IsTool(tool'[t])  BY <1>4, <1>6
<1>13. Shaped'  BY <1>1, <1>4, <1>10, <1>11, <1>12, ShapedNext
<1>14. Apart(t)  BY <1>2, <1>4 DEF Apart, OnlyTool
<1> QED  BY <1>9, <1>13, <1>14

LEMMA BasedStarted ==
  ASSUME Base, NEW t \in Terminals, NEW q, NEW name, NEW new, NEW to, Started(t, q, name, new, to)
  PROVE  Based(t)'
<1>1. tool'[t].todo = q /\ tool'[t].name = name /\ Tooled(q, name, new, to)  BY DEF Started
<1>2. Sound(q) /\ q[1].do = "open"  BY <1>1 DEF Tooled, Starting
<1>3. \A k \in Places(q) : (q[k].do = "plan" => name = "persist") /\ (q[k].do = "scan" => name = "setup")
  BY <1>1 DEF Tooled, Plain, Renamer, Kinds
<1> QED  BY <1>1, <1>2, <1>3 DEF Based

----------------------------------------------------------------------------
(* The four ways a step goes.                                              *)

\* One operation, an error, the end of a tool, a look at the bus, or a start.
Goes1(t) ==
  \/ Opens(t) \/ Closes(t) \/ Writes(t) \/ Pings(t) \/ Works(t) \/ TurnsOff(t)

LEMMA Steps ==
  ASSUME Base, [Next]_vars, ~UNCHANGED vars
  PROVE  \E t \in Terminals :
           /\ Apart(t)
           /\ \/ Goes1(t) /\ Forth(t)
              \/ Raises(t) /\ Back(t)
              \/ (Exits(t) \/ Killed(t)) /\ Gone(t)
              \/ \E q : Sound(q) /\ Anew(t, q)
              \/ \E q, name, new, to : Started(t, q, name, new, to)
<1>1. PICK t \in Terminals :
        \/ Begins(t) \/ Opens(t) \/ Closes(t) \/ Writes(t) \/ Pings(t) \/ Works(t)
        \/ Plans(t) \/ Finds(t) \/ TurnsOff(t) \/ Raises(t) \/ Exits(t) \/ Killed(t)
  BY DEF Next
<1>2. CASE Goes1(t)  BY <1>2, Onward DEF Goes1
<1>3. CASE Raises(t)  BY <1>3, Backward
<1>4. CASE Exits(t) \/ Killed(t)  BY <1>4, Ending0
<1>5. CASE Plans(t) \/ Finds(t)  BY <1>5, Looks
<1>6. CASE Begins(t)  BY <1>6, Starting1
<1> QED  BY <1>1, <1>2, <1>3, <1>4, <1>5, <1>6 DEF Goes1

LEMMA BaseInit ==
  ASSUME Init
  PROVE  Base
<1>1. PICK S \in SUBSET Servos : servo = [s \in S |-> New(s)]  BY DEF Init
<1>2. \A s \in S : New(s) \in Registers
  BY IdsAssumption, SpeedAssumption DEF New, Registers
<1>3. DOMAIN servo \subseteq Servos /\ servo = [s \in DOMAIN servo |-> servo[s]]  BY <1>1
<1>4. \A s \in DOMAIN servo : servo[s] \in Registers  BY <1>1, <1>2
<1>5. IsTool(Idle) /\ Idle.todo = <<>>  BY SpeedAssumption DEF Idle, IsTool
<1>6. /\ DOMAIN tool = Terminals /\ tool = [t \in Terminals |-> tool[t]]
      /\ \A t \in Terminals : tool[t] = Idle
  BY DEF Init
<1>7. holder \in Terminals \cup {None} /\ starts \in 0 .. Starts /\ hurt \in BOOLEAN
  <2>1. holder = None /\ starts = 0  BY DEF Init
  <2>2. hurt = FALSE  BY Zenon DEF Init
  <2>3. starts \in 0 .. Starts  BY <2>1, StartsAssumption
  <2>4. hurt \in BOOLEAN  BY <2>2, Zenon
  <2> QED  BY <2>1, <2>3, <2>4, Zenon
<1>8. TypeOK  BY <1>3, <1>4, <1>6, <1>7 DEF TypeOK
<1>9. Shaped  BY <1>3, <1>5, <1>6, <1>8 DEF Shaped
<1>10. Sound(<<>>)  BY NoneToDo DEF Sound
<1>11. \A t \in Terminals : tool[t].todo = <<>>  BY <1>5, <1>6
<1>12. \A t \in Terminals : Based(t)  BY <1>10, <1>11, NoneToDo DEF Based
<1> QED  BY <1>9, <1>12 DEF Base

LEMMA BaseNext ==
  ASSUME Base, [Next]_vars
  PROVE  Base'
<1>1. CASE UNCHANGED vars
  BY <1>1 DEF vars, Base, Shaped, TypeOK, Based
<1>2. CASE ~UNCHANGED vars
  <2>1. PICK t \in Terminals :
          \/ Begins(t) \/ Opens(t) \/ Closes(t) \/ Writes(t) \/ Pings(t) \/ Works(t)
          \/ Plans(t) \/ Finds(t) \/ TurnsOff(t) \/ Raises(t) \/ Exits(t) \/ Killed(t)
    BY <1>2 DEF Next
  <2>2. Shaped' /\ Apart(t) /\ Based(t)'
    <3>1. CASE Goes1(t)  BY <3>1, Onward, BasedForth DEF Goes1
    <3>2. CASE Raises(t)  BY <3>2, Backward, BasedBack
    <3>3. CASE Exits(t) \/ Killed(t)  BY <3>3, Ending0
    <3>4. CASE Plans(t) \/ Finds(t)
      <4>1. Shaped' /\ Apart(t) /\ \E q : Sound(q) /\ Anew(t, q)  BY <3>4, Looks
      <4>2. PICK q : Sound(q) /\ Anew(t, q)  BY <4>1
      <4> QED  BY <4>1, <4>2, BasedAnew
    <3>5. CASE Begins(t)
      <4>1. Shaped' /\ Apart(t) /\ \E q, name, new, to : Started(t, q, name, new, to)  BY <3>5, Starting1
      <4>2. PICK q, name, new, to : Started(t, q, name, new, to)  BY <4>1
      <4> QED  BY <4>1, <4>2, BasedStarted
    <3> QED  BY <2>1, <3>1, <3>2, <3>3, <3>4, <3>5 DEF Goes1
  <2>3. \A u \in Terminals : Based(u)'  BY <2>2, BasedApart
  <2> QED  BY <2>2, <2>3 DEF Base
<1> QED  BY <1>1, <1>2

\* The registers, the lock file and the tools keep their types under every mix
\* of operations, errors and kills: in particular every tool's program is one
\* whose operations write what the register they name can hold.
THEOREM TypeCorrect == Spec => []TypeOK
<1>1. Base => TypeOK  BY DEF Base, Shaped
<1> QED  BY <1>1, BaseInit, BaseNext, PTL DEF Spec

----------------------------------------------------------------------------
(* One place further.                                                      *)

IsTail(p, q) ==
  /\ IsProg(p) /\ IsProg(q)
  /\ Len(p) \in Nat \ {0} /\ Len(q) = Len(p) - 1
  /\ \A k \in Places(q) : k + 1 \in Places(p) /\ q[k] = p[k + 1]
  /\ \A k \in Places(p) : k # 1 => k - 1 \in Places(q) /\ q[k - 1] = p[k]

LEMMA Shifted ==
  ASSUME NEW p, IsProg(p), p # <<>>, NEW q, q = Tail(p)
  PROVE  IsTail(p, q) /\ 1 \in Places(p)
<1>1. /\ IsProg(q) /\ Len(p) \in Nat \ {0} /\ Len(q) = Len(p) - 1
      /\ \A k \in Places(q) : k + 1 \in Places(p) /\ q[k] = p[k + 1]
  BY Tails
<1>2. ASSUME NEW k \in Places(p), k # 1 PROVE k - 1 \in Places(q) /\ q[k - 1] = p[k]
  <2>1. k - 1 \in Places(q) /\ (k - 1) + 1 = k  BY <1>1, <1>2 DEF Places
  <2> QED  BY <1>1, <2>1
<1> QED  BY <1>1, <1>2 DEF IsTail, Places

LEMMA WriteBack ==
  ASSUME NEW p, NEW q, IsTail(p, q), NEW k, NEW i, NEW reg, NEW val, IsWrite(q, k, i, reg, val)
  PROVE  IsWrite(p, k + 1, i, reg, val)
BY DEF IsTail, IsWrite

LEMMA WriteForth ==
  ASSUME NEW p, NEW q, IsTail(p, q), NEW k, k # 1, NEW i, NEW reg, NEW val, IsWrite(p, k, i, reg, val)
  PROVE  IsWrite(q, k - 1, i, reg, val)
BY DEF IsTail, IsWrite

LEMMA PlacesAre ==
  ASSUME NEW p, NEW q, IsTail(p, q)
  PROVE  /\ Places(p) \subseteq Nat \ {0} /\ Places(q) \subseteq Nat \ {0}
         /\ Places(p) = 1 .. Len(p) /\ Places(q) = 1 .. Len(q)
BY DEF IsTail, Places

----------------------------------------------------------------------------
(* What an operation changes.                                              *)

\* The first operation o of the tool in the terminal t is carried out.
Effect(t, o) ==
  /\ o.do = "write" => /\ Wrote(o, Hear(t, o.id)) /\ Hear(t, o.id) # {}
                       /\ Fits(o.reg, o.val)
  /\ o.do \notin {"write", "off"} => servo' = servo
  /\ o.do = "off" => Released(t)
  /\ o.do # "off" => hurt' = hurt
  /\ o.do = "open" => holder = None
  /\ o.do \notin {"open", "close"} => holder = t
  /\ o.do = "ping" /\ o.val = TRUE => Hear(t, o.id) # {}

LEMMA EffectIs ==
  ASSUME Base, NEW t \in Terminals, Goes1(t)
  PROVE  Effect(t, tool[t].todo[1])
<1> DEFINE p == tool[t].todo
           o == p[1]
<1>1. Shaped /\ Based(t)  BY DEF Base
<1>2. Running(t)  BY DEF Goes1, Opens, Closes, Writes, Pings, Works, TurnsOff, Does
<1>3. p # <<>> /\ Now(t) = o /\ 1 \in Places(p) /\ \A what : Does(t, what) <=> o.do = what
  BY <1>1, <1>2, OpIs DEF Based
<1>4. o.do \notin {"open", "close"} => holder = t  BY <1>1, <1>3 DEF Based
<1> HIDE DEF p
<1>5. ASSUME Writes(t) PROVE Effect(t, o)
  <2>1. Does(t, "write") /\ Put2(Hear(t, Now(t).id), Now(t).reg, Now(t).val) /\ Hear(t, Now(t).id) # {}
    BY <1>5 DEF Writes
  <2>2. Wrote(o, Hear(t, o.id)) /\ Fits(o.reg, o.val)  BY <2>1, WriteIs DEF p
  <2>3. hurt' = hurt  BY <1>5 DEF Writes
  <2> HIDE DEF o
  <2> QED  BY <1>3, <1>4, <2>1, <2>2, <2>3 DEF Effect
<1>6. ASSUME TurnsOff(t) PROVE Effect(t, o)
  <2>1. Released(t)  BY <1>1, <1>6, ReleasedIs
  <2>2. o.do = "off"  BY <1>3, <1>6 DEF TurnsOff
  <2> HIDE DEF o
  <2> QED  BY <1>4, <2>1, <2>2 DEF Effect
<1>7. ASSUME Opens(t) PROVE Effect(t, o)
  <2>1. o.do = "open" /\ holder = None /\ servo' = servo /\ hurt' = hurt  BY <1>3, <1>7 DEF Opens
  <2> HIDE DEF o
  <2> QED  BY <2>1 DEF Effect
<1>8. ASSUME Closes(t) PROVE Effect(t, o)
  <2>1. o.do = "close" /\ servo' = servo /\ hurt' = hurt  BY <1>3, <1>8 DEF Closes
  <2> HIDE DEF o
  <2> QED  BY <2>1 DEF Effect
<1>9. ASSUME Pings(t) PROVE Effect(t, o)
  <2>1. o.do = "ping" /\ servo' = servo /\ hurt' = hurt /\ (o.val = TRUE => Hear(t, o.id) # {})
    BY <1>3, <1>9 DEF Pings
  <2> HIDE DEF o
  <2> QED  BY <1>4, <2>1 DEF Effect
<1>10. ASSUME Works(t) PROVE Effect(t, o)
  <2>1. o.do \in {"work", "done"} /\ servo' = servo /\ hurt' = hurt  BY <1>3, <1>10 DEF Works
  <2> HIDE DEF o
  <2> QED  BY <1>4, <2>1 DEF Effect
<1>11. Effect(t, o)  BY <1>5, <1>6, <1>7, <1>8, <1>9, <1>10 DEF Goes1
<1> QED  BY <1>11 DEF p

\* A write that leaves the ids and speeds as they are.
Writing(t, o) ==
  /\ Wrote(o, Hear(t, o.id)) /\ o.reg \notin {"id", "baud"} /\ Fits(o.reg, o.val)
  /\ holder = t /\ holder' = t /\ tool'[t].speed = tool[t].speed

LEMMA HearsOn ==
  ASSUME NEW t, NEW o, Writing(t, o), NEW i
  PROVE  Hear(t, i)' = Hear(t, i)
<1>1. DOMAIN servo' = DOMAIN servo /\ tool'[t].speed = tool[t].speed  BY DEF Writing, Wrote
<1>2. ASSUME NEW s \in DOMAIN servo PROVE servo'[s].id = servo[s].id /\ servo'[s].baud = servo[s].baud
  BY DEF Writing, Wrote, Written, IsPut
<1> QED  BY <1>1, <1>2 DEF Hear

LEMMA HasOn ==
  ASSUME NEW t, NEW o, Writing(t, o), NEW i, NEW reg \in {"lock", "torque", "prot", "cap", "low", "high"}
  PROVE  /\ Has(t, i, reg) /\ ~(o.id = i /\ o.reg = reg /\ o.val = FALSE) => Has(t, i, reg)'
         /\ Lacks(t, i, reg) /\ ~(o.id = i /\ o.reg = reg /\ o.val = TRUE) => Lacks(t, i, reg)'
<1>1. Hear(t, i)' = Hear(t, i)  BY HearsOn
<1>2. /\ DOMAIN servo' = DOMAIN servo /\ holder' = t
      /\ \A s \in DOMAIN servo : Written(s, o, Hear(t, o.id))
      /\ o.val = TRUE \/ o.val = FALSE
  BY DEF Writing, Wrote, Fits
<1>3. \A s \in Hear(t, i) : s \in DOMAIN servo /\ servo[s].id = i  BY DEF Hear
<1>4. \A s \in Hear(t, o.id) : servo[s].id = o.id  BY DEF Hear
<1>5. ASSUME NEW s \in Hear(t, i)
      PROVE  /\ servo[s][reg] /\ ~(o.id = i /\ o.reg = reg /\ o.val = FALSE) => servo'[s][reg]
             /\ ~servo[s][reg] /\ ~(o.id = i /\ o.reg = reg /\ o.val = TRUE) => ~servo'[s][reg]
  BY <1>2, <1>3, <1>4 DEF Written, IsPut
<1> QED  BY <1>1, <1>2, <1>5 DEF Has, Lacks

LEMMA HasNow ==
  ASSUME NEW t, NEW o, Writing(t, o), NEW i, o.id = i, NEW reg, o.reg = reg,
         reg \in Eprom => Lacks(t, i, "lock")
  PROVE  /\ o.val = TRUE => Has(t, i, reg)'
         /\ o.val = FALSE => Lacks(t, i, reg)'
<1>1. Hear(t, i)' = Hear(t, i)  BY HearsOn
<1>2. DOMAIN servo' = DOMAIN servo /\ holder' = t /\ \A s \in DOMAIN servo : Written(s, o, Hear(t, i))
  BY DEF Writing, Wrote
<1>3. reg \in {"lock", "torque", "prot", "cap", "low", "high"}  BY DEF Writing, Fits, Settings
<1>4. \A s \in Hear(t, i) : s \in DOMAIN servo /\ (reg \in Eprom => ~servo[s].lock)
  BY DEF Hear, Lacks
<1>5. ASSUME NEW s \in Hear(t, i) PROVE servo'[s][reg] = o.val
  BY <1>2, <1>3, <1>4 DEF Written, IsPut
<1> QED  BY <1>1, <1>2, <1>5 DEF Has, Lacks

----------------------------------------------------------------------------
(* A motor is only powered with its protection.                            *)

\* The first operation of p leaves everyone's id alone, and the bus with t.
Stepping(t, p) ==
  /\ p[1].do = "write" => Writing(t, p[1])
  /\ p[1].do # "write" => servo' = servo
  /\ IF p[1].do = "open" THEN holder # t ELSE holder = t
  /\ holder' = t /\ tool'[t].speed = tool[t].speed

LEMMA SameHas ==
  ASSUME NEW t, servo' = servo, holder' = holder, tool'[t].speed = tool[t].speed, NEW i, NEW reg
  PROVE  Has(t, i, reg)' = Has(t, i, reg) /\ Lacks(t, i, reg)' = Lacks(t, i, reg)
<1>1. Hear(t, i)' = Hear(t, i)  BY DEF Hear
<1> QED  BY <1>1 DEF Has, Lacks

LEMMA HasStep ==
  ASSUME NEW t, NEW p, Stepping(t, p), NEW i, NEW reg \in {"lock", "torque", "prot", "cap", "low", "high"}
  PROVE  /\ Has(t, i, reg) /\ ~(p[1].do = "write" /\ p[1].id = i /\ p[1].reg = reg /\ p[1].val = FALSE)
              => Has(t, i, reg)'
         /\ Lacks(t, i, reg) /\ ~(p[1].do = "write" /\ p[1].id = i /\ p[1].reg = reg /\ p[1].val = TRUE)
              => Lacks(t, i, reg)'
<1>1. CASE p[1].do = "write"
  <2>1. Writing(t, p[1])  BY <1>1 DEF Stepping
  <2> QED  BY <1>1, <2>1, HasOn
<1>2. CASE p[1].do # "write"
  <2>1. CASE p[1].do = "open"
    <3>1. holder # t  BY <2>1 DEF Stepping
    <3> QED  BY <3>1 DEF Has, Lacks
  <2>2. CASE p[1].do # "open"
    <3>1. servo' = servo /\ holder' = holder /\ tool'[t].speed = tool[t].speed  BY <1>2, <2>2 DEF Stepping
    <3>2. Has(t, i, reg)' = Has(t, i, reg) /\ Lacks(t, i, reg)' = Lacks(t, i, reg)  BY <3>1, SameHas
    <3> QED  BY <3>2
  <2> QED  BY <2>1, <2>2
<1> QED  BY <1>1, <1>2

LEMMA SetsStep ==
  ASSUME NEW t, NEW p, NEW q, IsTail(p, q), 1 \in Places(p), Stepping(t, p),
         NEW j \in Int, j # 1, NEW i, NEW reg, Sets(t, p, j, i, reg)
  PROVE  Sets(t, q, j - 1, i, reg)'
<1>1. IsWrite(p, j, i, reg, TRUE)  BY DEF Sets
<1>2. PICK m \in 0 .. j - 1 :
        /\ \A l \in m + 1 .. j - 1 : IsSetting(p, l)
        /\ IF m = 0 THEN Lacks(t, i, "lock") ELSE LocksOff(p, m, i)
  BY DEF Sets
<1>3. j \in Places(p) /\ j \in 2 .. Len(p) /\ Len(p) \in Nat
  <2>1. j \in Places(p)  BY <1>1 DEF IsWrite
  <2>2. Len(p) \in Nat  BY DEF IsTail
  <2>3. j \in 1 .. Len(p)  BY <2>1 DEF Places
  <2> QED  BY <2>1, <2>2, <2>3
<1>4. IsWrite(q, j - 1, i, reg, TRUE)  BY <1>1, WriteForth
<1>5. ASSUME NEW n \in 0 .. j - 1, NEW l \in n + 1 .. (j - 1) - 1, l + 1 >= m + 1
      PROVE  IsSetting(q, l)
  <2>1. l + 1 \in m + 1 .. j - 1 /\ l + 1 # 1 /\ (l + 1) - 1 = l /\ l + 1 \in 1 .. Len(p)
    BY <1>2, <1>3, <1>5
  <2>2. IsSetting(p, l + 1)  BY <1>2, <2>1
  <2>3. l + 1 \in Places(p)  BY <2>1 DEF Places
  <2>4. q[l] = p[l + 1]  BY <2>1, <2>3 DEF IsTail
  <2> QED  BY <2>2, <2>4 DEF IsSetting
<1> DEFINE Found(n) ==
             /\ \A l \in n + 1 .. (j - 1) - 1 : IsSetting(q, l)
             /\ IF n = 0 THEN Lacks(t, i, "lock")' ELSE LocksOff(q, n, i)
<1>6. \E n \in 0 .. (j - 1) - 1 : Found(n)
  <2>1. CASE m = 0
    <3>1. 1 \in m + 1 .. j - 1  BY <1>3, <2>1
    <3>2. IsSetting(p, 1)  BY <1>2, <3>1
    <3>3. Lacks(t, i, "lock")  BY <1>2, <2>1
    <3>4. Lacks(t, i, "lock")'
      <4>1. p[1].reg # "lock"  BY <3>2 DEF IsSetting, Settings
      <4> QED  BY <3>3, <4>1, HasStep
    <3>5. \A l \in 0 + 1 .. (j - 1) - 1 : IsSetting(q, l)
      <4>1. 0 \in 0 .. j - 1  BY <1>3
      <4>2. \A l \in 0 + 1 .. (j - 1) - 1 : l + 1 >= m + 1  BY <2>1
      <4> QED  BY <1>5, <4>1, <4>2
    <3>6. 0 \in 0 .. (j - 1) - 1  BY <1>3
    <3> QED  BY <3>4, <3>5, <3>6
  <2>2. CASE m = 1
    <3>1. LocksOff(p, 1, i)  BY <1>2, <2>2
    <3>2. p[1].do = "write" /\ p[1].id = i /\ p[1].reg = "lock" /\ p[1].val = FALSE
      BY <3>1 DEF LocksOff, IsWrite
    <3>3. Lacks(t, i, "lock")'
      <4>1. Writing(t, p[1])  BY <3>2 DEF Stepping
      <4>2. "lock" \notin Eprom  BY DEF Eprom
      <4> QED  BY <3>2, <4>1, <4>2, HasNow
    <3>4. \A l \in 0 + 1 .. (j - 1) - 1 : IsSetting(q, l)
      <4>1. 0 \in 0 .. j - 1  BY <1>3
      <4>2. \A l \in 0 + 1 .. (j - 1) - 1 : l + 1 >= m + 1  BY <2>2
      <4> QED  BY <1>5, <4>1, <4>2
    <3>5. 0 \in 0 .. (j - 1) - 1  BY <1>3
    <3> QED  BY <3>3, <3>4, <3>5
  <2>3. CASE m \notin {0, 1}
    <3>1. LocksOff(p, m, i)  BY <1>2, <2>3
    <3>2. LocksOff(q, m - 1, i)  BY <2>3, <3>1, WriteForth DEF LocksOff
    <3>3. m - 1 \in 0 .. (j - 1) - 1 /\ m - 1 # 0 /\ m - 1 \in 0 .. j - 1
          /\ \A l \in (m - 1) + 1 .. (j - 1) - 1 : l + 1 >= m + 1
      BY <1>2, <1>3, <2>3
    <3>4. \A l \in (m - 1) + 1 .. (j - 1) - 1 : IsSetting(q, l)  BY <1>5, <3>3
    <3> QED  BY <3>2, <3>3, <3>4
  <2> QED  BY <2>1, <2>2, <2>3
<1> QED  BY <1>4, <1>6 DEF Sets

LEMMA DueStep ==
  ASSUME NEW t, NEW p, NEW q, IsTail(p, q), 1 \in Places(p), Stepping(t, p),
         NEW k \in Nat \ {0, 1}, NEW i, NEW reg \in Settings, Due(t, p, k, i, reg)
  PROVE  Due(t, q, k - 1, i, reg)'
<1>1. reg \in {"lock", "torque", "prot", "cap", "low", "high"} /\ reg # "lock"  BY DEF Settings
<1>2. p[1].do = "write" /\ p[1].reg = reg => p[1].val = TRUE
  BY <1>1 DEF Stepping, Writing, Fits, Settings
<1>3. CASE Has(t, i, reg)
  <2>1. Has(t, i, reg)'  BY <1>1, <1>2, <1>3, HasStep
  <2> QED  BY <2>1 DEF Due
<1>4. CASE \E j \in 1 .. k - 1 : Sets(t, p, j, i, reg)
  <2>1. PICK j \in 1 .. k - 1 : Sets(t, p, j, i, reg)  BY <1>4
  <2>2. CASE j = 1
    <3>1. IsWrite(p, 1, i, reg, TRUE)  BY <2>1, <2>2 DEF Sets
    <3>2. Lacks(t, i, "lock")
      <4>1. PICK m \in 0 .. 1 - 1 : IF m = 0 THEN Lacks(t, i, "lock") ELSE LocksOff(p, m, i)
        BY <2>1, <2>2 DEF Sets
      <4> QED  BY <4>1
    <3>3. Has(t, i, reg)'
      <4>1. p[1].do = "write" /\ p[1].id = i /\ p[1].reg = reg /\ p[1].val = TRUE  BY <3>1 DEF IsWrite
      <4>2. Writing(t, p[1])  BY <4>1 DEF Stepping
      <4> QED  BY <3>2, <4>1, <4>2, HasNow
    <3> QED  BY <3>3 DEF Due
  <2>3. CASE j # 1
    <3>1. Sets(t, q, j - 1, i, reg)'  BY <2>1, <2>3, SetsStep
    <3>2. j - 1 \in 1 .. (k - 1) - 1  BY <2>1, <2>3
    <3> QED  BY <3>1, <3>2 DEF Due
  <2> QED  BY <2>2, <2>3
<1> QED  BY <1>3, <1>4 DEF Due

LEMMA LockedStep ==
  ASSUME NEW t, NEW p, NEW q, IsTail(p, q), 1 \in Places(p), Stepping(t, p),
         NEW k \in Nat \ {0, 1}, NEW i, LockedAt(t, p, k, i)
  PROVE  LockedAt(t, q, k - 1, i)'
<1>1. ASSUME NEW j \in 1 .. k - 1, j # 1 PROVE j - 1 \in 1 .. (k - 1) - 1
  BY <1>1
<1>2. \/ Has(t, i, "lock")'
      \/ \E j \in 1 .. (k - 1) - 1 : LocksOn(q, j, i)
  <2>1. CASE \E j \in 1 .. k - 1 : j # 1 /\ LocksOn(p, j, i)
    <3>1. PICK j \in 1 .. k - 1 : j # 1 /\ LocksOn(p, j, i)  BY <2>1
    <3>2. LocksOn(q, j - 1, i)  BY <3>1, WriteForth DEF LocksOn
    <3> QED  BY <1>1, <3>1, <3>2
  <2>2. CASE LocksOn(p, 1, i)
    <3>1. p[1].do = "write" /\ p[1].id = i /\ p[1].reg = "lock" /\ p[1].val = TRUE
      BY <2>2 DEF LocksOn, IsWrite
    <3>2. Writing(t, p[1]) /\ "lock" \notin Eprom  BY <3>1 DEF Stepping, Eprom
    <3> QED  BY <3>1, <3>2, HasNow
  <2>3. CASE Has(t, i, "lock")
    <3>1. CASE p[1].do = "write" /\ p[1].id = i /\ p[1].reg = "lock" /\ p[1].val = FALSE
      <4>1. LocksOff(p, 1, i)  BY <3>1 DEF LocksOff, IsWrite
      <4>2. 1 \in 1 .. k - 1  OBVIOUS
      <4>3. PICK m \in 1 + 1 .. k - 1 : LocksOn(p, m, i)  BY <4>1, <4>2 DEF LockedAt
      <4>4. m \in 1 .. k - 1 /\ m # 1  BY <4>3
      <4> QED  BY <2>1, <4>3, <4>4
    <3>2. CASE ~(p[1].do = "write" /\ p[1].id = i /\ p[1].reg = "lock" /\ p[1].val = FALSE)
      BY <2>3, <3>2, HasStep
    <3> QED  BY <3>1, <3>2
  <2>4. Has(t, i, "lock") \/ \E j \in 1 .. k - 1 : LocksOn(p, j, i)  BY DEF LockedAt
  <2> QED  BY <2>1, <2>2, <2>3, <2>4
<1>3. ASSUME NEW j \in 1 .. (k - 1) - 1, LocksOff(q, j, i)
      PROVE  \E m \in j + 1 .. (k - 1) - 1 : LocksOn(q, m, i)
  <2>1. LocksOff(p, j + 1, i)  BY <1>3, WriteBack DEF LocksOff
  <2>2. j + 1 \in 1 .. k - 1  OBVIOUS
  <2>3. PICK m \in (j + 1) + 1 .. k - 1 : LocksOn(p, m, i)  BY <2>1, <2>2 DEF LockedAt
  <2>4. m - 1 \in j + 1 .. (k - 1) - 1 /\ m # 1  BY <2>3
  <2>5. LocksOn(q, m - 1, i)  BY <2>3, <2>4, WriteForth DEF LocksOn
  <2> QED  BY <2>4, <2>5
<1> QED  BY <1>2, <1>3 DEF LockedAt

LEMMA SteppingIs ==
  ASSUME NEW t, NEW p, p = tool[t].todo, Forth(t), Effect(t, p[1]),
         \/ p[1].do = "write" /\ p[1].reg \notin {"id", "baud"}
         \/ p[1].do = "work"
         \/ p[1].do = "open" /\ p[1].val = tool[t].speed /\ holder # t
  PROVE  Stepping(t, p)
<1>1. /\ tool'[t].speed = IF p[1].do = "open" THEN p[1].val ELSE tool[t].speed
      /\ p[1].do # "close" => holder' = t
  BY DEF Forth
<1>2. tool'[t].speed = tool[t].speed /\ holder' = t  BY <1>1
<1>3. /\ p[1].do = "write" => Wrote(p[1], Hear(t, p[1].id)) /\ Fits(p[1].reg, p[1].val)
      /\ p[1].do # "write" => servo' = servo
      /\ IF p[1].do = "open" THEN holder # t ELSE holder = t
  BY DEF Effect
<1> QED  BY <1>2, <1>3 DEF Stepping, Writing

LEMMA GuardedForth ==
  ASSUME Base, NEW t \in Terminals, Forth(t), Effect(t, tool[t].todo[1]), Guarded(t, tool[t].todo),
         NEW q, q = tool'[t].todo
  PROVE  Guarded(t, q)'
<1> DEFINE p == tool[t].todo
<1>1. Sound(p) /\ p # <<>> /\ q = Tail(p) /\ Effect(t, p[1])  BY DEF Base, Based, Forth
<1>2. Guarded(t, p)  OBVIOUS
<1>3. p = tool[t].todo  OBVIOUS
<1> HIDE DEF p
<1>4. IsTail(p, q) /\ 1 \in Places(p)  BY <1>1, Shifted DEF Sound
<1>5. ASSUME NEW k \in Places(q), PowersOn(q, k, q[k].id)
      PROVE  /\ Straight(t, q, k)' /\ Due(t, q, k, q[k].id, "prot")' /\ LockedAt(t, q, k, q[k].id)'
  <2> DEFINE i == q[k].id
             n == k + 1
  <2>1. n \in Places(p) /\ q[k] = p[n] /\ n \in Nat \ {0, 1} /\ n - 1 = k /\ k \in Nat \ {0}
    <3>1. k \in Nat \ {0}  BY <1>4, PlacesAre
    <3>2. n \in Places(p) /\ q[k] = p[n]  BY <1>4 DEF IsTail
    <3> QED  BY <3>1, <3>2
  <2>2. PowersOn(p, n, p[n].id)  BY <1>4, <1>5, <2>1, WriteBack DEF PowersOn
  <2>3. Straight(t, p, n) /\ Due(t, p, n, i, "prot") /\ LockedAt(t, p, n, i)
    BY <1>2, <2>1, <2>2 DEF Guarded
  <2> HIDE DEF i, n
  <2>4. 1 \in 1 .. n - 1  BY <2>1
  <2>5. \/ p[1].do = "write" /\ p[1].reg \notin {"id", "baud"}
        \/ p[1].do = "work"
        \/ p[1].do = "open" /\ p[1].val = tool[t].speed
    BY <2>3, <2>4 DEF Straight
  <2>6. p[1].do = "open" => holder # t  BY <1>1, NoneAssumption DEF Effect
  <2>7. Stepping(t, p)  BY <1>1, <1>3, <2>5, <2>6, SteppingIs
  <2>8. Due(t, q, n - 1, i, "prot")'
    <3>1. "prot" \in Settings  BY DEF Settings
    <3> QED  BY <1>4, <2>1, <2>3, <2>7, <3>1, DueStep
  <2>9. LockedAt(t, q, n - 1, i)'  BY <1>4, <2>1, <2>3, <2>7, LockedStep
  <2>10. Straight(t, q, k)'
    <3>1. ASSUME NEW j \in 1 .. k - 1
          PROVE  \/ q[j].do = "write" /\ q[j].reg \notin {"id", "baud"}
                 \/ q[j].do = "work"
      <4>1. j + 1 \in 1 .. n - 1 /\ j + 1 # 1 /\ j \in Places(q)  BY <2>1, PlacesAre, <1>4, <1>5
      <4>2. q[j] = p[j + 1]  BY <1>4, <4>1 DEF IsTail
      <4> QED  BY <2>3, <4>1, <4>2 DEF Straight
    <3> QED  BY <3>1 DEF Straight
  <2> QED  BY <2>1, <2>8, <2>9, <2>10 DEF i
<1> QED  BY <1>5 DEF Guarded

\* Whoever else has a tool is not concerned.
LEMMA HasApart ==
  ASSUME NEW t, Apart(t), NEW u \in Terminals \ {t}, NEW i, NEW reg
  PROVE  (Has(u, i, reg) => Has(u, i, reg)') /\ (Lacks(u, i, reg) => Lacks(u, i, reg)')
<1>1. ASSUME holder = u PROVE Hear(u, i)' = Hear(u, i) /\ holder' = u /\ servo' = servo
  BY <1>1 DEF Apart, Hear
<1> QED  BY <1>1 DEF Has, Lacks

LEMMA GuardedApart ==
  ASSUME NEW t, Apart(t), NEW u \in Terminals \ {t}, NEW p, Guarded(u, p)
  PROVE  Guarded(u, p)'
<1>1. ASSUME NEW k \in Places(p), PowersOn(p, k, p[k].id)
      PROVE  Straight(u, p, k)' /\ Due(u, p, k, p[k].id, "prot")' /\ LockedAt(u, p, k, p[k].id)'
  <2> DEFINE i == p[k].id
  <2>1. Straight(u, p, k) /\ Due(u, p, k, i, "prot") /\ LockedAt(u, p, k, i)  BY <1>1 DEF Guarded
  <2> HIDE DEF i
  <2>2. Straight(u, p, k)'
    <3>1. tool'[u] = tool[u]  BY DEF Apart
    <3> QED  BY <2>1, <3>1 DEF Straight
  <2>3. ASSUME NEW j, Sets(u, p, j, i, "prot") PROVE Sets(u, p, j, i, "prot")'
    BY <2>3, HasApart DEF Sets
  <2>4. Due(u, p, k, i, "prot")'  BY <2>1, <2>3, HasApart DEF Due
  <2>5. LockedAt(u, p, k, i)'  BY <2>1, HasApart DEF LockedAt
  <2> QED  BY <2>2, <2>4, <2>5 DEF i
<1> QED  BY <1>1 DEF Guarded

\* A program that powers nothing.
LEMMA GuardedNone ==
  ASSUME NEW t, NEW q, \A k \in Places(q) : ~PowersOn(q, k, q[k].id)
  PROVE  Guarded(t, q) /\ Guarded(t, q)'
BY DEF Guarded

\* What holds of a program by itself holds of it when it is started.
LEMMA GuardedStarted ==
  ASSUME NEW t, NEW q, Guards(q), tool'[t].speed = Speed
  PROVE  Guarded(t, q)'
<1>1. ASSUME NEW k \in Places(q), PowersOn(q, k, q[k].id)
      PROVE  Straight(t, q, k)' /\ Due(t, q, k, q[k].id, "prot")' /\ LockedAt(t, q, k, q[k].id)'
  <2> DEFINE i == q[k].id
  <2>1. Ready(q, k, i) /\ \A j \in 1 .. k - 1 : Along(q, j)  BY <1>1 DEF Guards
  <2> HIDE DEF i
  <2>2. Straight(t, q, k)'  BY <2>1 DEF Straight, Along
  <2>3. PICK j \in 1 .. k - 1 : SetsIn(q, j, i, "prot")  BY <2>1 DEF Ready
  <2>4. Sets(t, q, j, i, "prot")'
    <3>1. PICK m \in 1 .. j - 1 : LocksOff(q, m, i) /\ \A l \in m + 1 .. j - 1 : IsSetting(q, l)
      BY <2>3 DEF SetsIn
    <3>2. m \in 0 .. j - 1 /\ m # 0  OBVIOUS
    <3>3. IsWrite(q, j, i, "prot", TRUE)  BY <2>3 DEF SetsIn
    <3> QED  BY <3>1, <3>2, <3>3 DEF Sets
  <2>5. Due(t, q, k, i, "prot")'  BY <2>4 DEF Due
  <2>6. LockedAt(t, q, k, i)'  BY <2>1 DEF Ready, Locked, LockedAt
  <2> QED  BY <2>2, <2>5, <2>6 DEF i
<1> QED  BY <1>1 DEF Guarded

LEMMA QuietOff ==
  ASSUME NEW q, Quiet(q), NEW k \in Places(q)
  PROVE  ~PowersOn(q, k, q[k].id)
BY DEF Quiet, PowersOn, IsWrite

LEMMA GuardedAnew ==
  ASSUME NEW t, NEW q, Anew(t, q)
  PROVE  Guarded(t, q)'
<1>1. CASE q = Close
  BY <1>1, CloseFalls, FailSound, QuietOff, GuardedNone
<1>2. CASE PlanWell(q, AllChanges(t))
  BY <1>2, GuardedNone DEF PlanWell, Part, PartAt
<1>3. CASE Renamer(q, tool[t].new, tool[t].speed, tool[t].to)
  BY <1>3, GuardedNone DEF Renamer, PowersOn, IsWrite
<1> QED  BY <1>1, <1>2, <1>3 DEF Anew

LEMMA GuardedBegun ==
  ASSUME NEW t, NEW q, NEW name, NEW new, NEW to, Started(t, q, name, new, to)
  PROVE  Guarded(t, q)'
<1>1. tool'[t].speed = Speed /\ Tooled(q, name, new, to)  BY DEF Started
<1>2. CASE Plain(q, Kinds) \/ Plain(q, {"open", "plan", "close"})
  BY <1>1, <1>2, GuardedStarted DEF Plain
<1>3. CASE Renamer(q, new, Speed, Speed)
  BY <1>3, GuardedNone DEF Renamer, PowersOn, IsWrite
<1>4. CASE \A k \in Places(q) : q[k].do \in {"open", "scan"}
  BY <1>4, GuardedNone DEF PowersOn, IsWrite
<1> QED  BY <1>1, <1>2, <1>3, <1>4 DEF Tooled

----------------------------------------------------------------------------
(* The protection of what is powered.                                      *)

LEMMA PoweredProtected ==
  ASSUME Base, OnInv, NEW t \in Terminals, NEW o, o = tool[t].todo[1], tool[t].todo # <<>>,
         o.do = "write", Fits(o.reg, o.val), Wrote(o, Hear(t, o.id))
  PROVE  ProtectedWhenOn'
<1> DEFINE p == tool[t].todo
<1>1. Guarded(t, p) /\ ProtectedWhenOn /\ Sound(p) /\ p # <<>> /\ o = p[1]
  BY DEF Base, Based, OnInv
<1> HIDE DEF p
<1>2. 1 \in Places(p)  BY <1>1, Tails DEF Sound, Places
<1>3. ASSUME o.reg = "torque", o.val = TRUE PROVE \A s \in Hear(t, o.id) : servo[s].prot
  <2>1. PowersOn(p, 1, p[1].id)  BY <1>1, <1>2, <1>3 DEF PowersOn, IsWrite
  <2>2. Due(t, p, 1, p[1].id, "prot")  BY <1>1, <1>2, <2>1 DEF Guarded
  <2>3. Has(t, p[1].id, "prot")  BY <2>2 DEF Due
  <2> QED  BY <1>1, <2>3 DEF Has
<1>4. ASSUME NEW s \in DOMAIN servo, servo'[s].torque PROVE servo'[s].prot
  <2>1. Written(s, o, Hear(t, o.id)) /\ servo[s] \in Registers /\ (servo[s].torque => servo[s].prot)
    BY <1>1 DEF Wrote, ProtectedWhenOn, Base, Shaped, TypeOK
  <2>2. CASE s \notin Hear(t, o.id)  BY <1>4, <2>1, <2>2 DEF Written
  <2>3. CASE s \in Hear(t, o.id)
    <3>1. IsPut(servo'[s], servo[s], o.reg, o.val)  BY <2>1, <2>3 DEF Written
    <3>2. servo'[s].torque = (IF "torque" = o.reg THEN o.val ELSE servo[s].torque)
      BY <3>1 DEF IsPut, Eprom
    <3>3. servo'[s].prot = servo[s].prot \/ servo'[s].prot = TRUE
      BY <3>1 DEF IsPut, Fits, Settings
    <3>4. o.reg = "torque" => o.val = TRUE \/ o.val = FALSE  BY DEF Fits, Settings
    <3>5. servo[s].prot  BY <1>3, <1>4, <2>1, <2>3, <3>2, <3>4
    <3> QED  BY <3>3, <3>5
  <2> QED  BY <2>2, <2>3
<1>5. DOMAIN servo' = DOMAIN servo  BY DEF Wrote
<1> QED  BY <1>4, <1>5 DEF ProtectedWhenOn

LEMMA StillApart ==
  ASSUME UNCHANGED vars
  PROVE  Apart(None) /\ \A u \in Terminals : u \in Terminals \ {None}
BY NoneAssumption DEF vars, Apart

LEMMA OnInvNext ==
  ASSUME Base, OnInv, [Next]_vars
  PROVE  OnInv'
<1>1. CASE UNCHANGED vars
  <2>1. ASSUME NEW u \in Terminals PROVE Guarded(u, tool[u].todo)'
    <3>1. PICK p : p = tool[u].todo  OBVIOUS
    <3>2. Guarded(u, p)  BY <3>1 DEF OnInv
    <3>3. Guarded(u, p)'  BY <1>1, <3>2, StillApart, GuardedApart
    <3>4. p = tool'[u].todo  BY <1>1, <3>1 DEF vars
    <3> QED  BY <3>3, <3>4
  <2>2. ProtectedWhenOn'  BY <1>1 DEF vars, OnInv, ProtectedWhenOn
  <2> QED  BY <2>1, <2>2 DEF OnInv
<1>2. CASE ~UNCHANGED vars
  <2>1. PICK t \in Terminals :
           /\ Apart(t)
           /\ \/ Goes1(t) /\ Forth(t)
              \/ Raises(t) /\ Back(t)
              \/ (Exits(t) \/ Killed(t)) /\ Gone(t)
              \/ \E q : Sound(q) /\ Anew(t, q)
              \/ \E q, name, new, to : Started(t, q, name, new, to)
    BY <1>2, Steps
  <2>2. /\ ProtectedWhenOn /\ \A u \in Terminals : Guarded(u, tool[u].todo)
        /\ \A s \in DOMAIN servo : servo[s] \in Registers
    BY DEF OnInv, Base, Shaped, TypeOK
  <2>3. ASSUME NEW u \in Terminals \ {t} PROVE Guarded(u, tool[u].todo)'
    <3>1. Guarded(u, tool[u].todo) /\ tool'[u] = tool[u]  BY <2>1, <2>2 DEF Apart
    <3>2. PICK p : p = tool[u].todo  OBVIOUS
    <3>3. p = tool'[u].todo /\ Guarded(u, p)  BY <3>1, <3>2
    <3>4. Guarded(u, p)'  BY <2>1, <3>3, GuardedApart
    <3> QED  BY <3>3, <3>4
  <2>4. PICK q : q = tool'[t].todo  OBVIOUS
  <2>5. ProtectedWhenOn' /\ Guarded(t, q)'
    <3>1. CASE Goes1(t) /\ Forth(t)
      <4>1. Effect(t, tool[t].todo[1])  BY <3>1, EffectIs
      <4>2. Guarded(t, q)'  BY <2>2, <2>4, <3>1, <4>1, GuardedForth
      <4>3. ProtectedWhenOn'
        <5> DEFINE o == tool[t].todo[1]
        <5>1. CASE o.do = "write"
          <6>1. Wrote(o, Hear(t, o.id)) /\ Fits(o.reg, o.val)  BY <4>1, <5>1 DEF Effect
          <6>2. tool[t].todo # <<>>  BY <3>1 DEF Forth
          <6> QED  BY <5>1, <6>1, <6>2, PoweredProtected
        <5>2. CASE o.do = "off"
          <6>1. Released(t)  BY <4>1, <5>2 DEF Effect
          <6> QED  BY <2>2, <6>1 DEF Released, ProtectedWhenOn
        <5>3. CASE o.do \notin {"write", "off"}
          <6>1. servo' = servo  BY <4>1, <5>3 DEF Effect
          <6> QED  BY <2>2, <6>1 DEF ProtectedWhenOn
        <5> QED  BY <5>1, <5>2, <5>3
      <4> QED  BY <4>2, <4>3
    <3>2. CASE Raises(t) /\ Back(t)
      <4> DEFINE p == tool[t].todo
      <4>1. Sound(p) /\ p # <<>> /\ q = p[1].fail  BY <2>4, <3>2 DEF Base, Based, Back, Left
      <4>2. 1 \in Places(p) /\ Running(t) /\ Now(t) = p[1]
        BY <4>1, OpIs DEF Running
      <4>3. Guarded(t, q)'
        <5> HIDE DEF p
        <5>1. Falls3(q)  BY <4>1, <4>2 DEF Sound
        <5> QED  BY <5>1, FailSound, QuietOff, GuardedNone
      <4>4. ProtectedWhenOn'
        <5>1. CASE servo' = servo  BY <2>2, <5>1 DEF ProtectedWhenOn
        <5>2. CASE servo' # servo
          <6>1. Does(t, "write") /\ Put2(Hear(t, Now(t).id), Now(t).reg, Now(t).val)  BY <3>2, <5>2 DEF Raises
          <6>2. Wrote(p[1], Hear(t, p[1].id)) /\ Fits(p[1].reg, p[1].val)  BY <6>1, WriteIs
          <6>3. p[1].do = "write"  BY <4>2, <6>1 DEF Does
          <6> QED  BY <4>1, <6>2, <6>3, PoweredProtected
        <5> QED  BY <5>1, <5>2
      <4> QED  BY <4>3, <4>4
    <3>3. CASE Gone(t)
      <4>1. servo' = servo /\ q = <<>>  BY <2>4, <3>3 DEF Gone, Idle
      <4>2. ProtectedWhenOn'  BY <2>2, <4>1 DEF ProtectedWhenOn
      <4>3. Guarded(t, q)'  BY <4>1, NoneToDo, GuardedNone
      <4> QED  BY <4>2, <4>3
    <3>4. CASE \E n : Sound(n) /\ Anew(t, n)
      <4>1. PICK n : Anew(t, n)  BY <3>4
      <4>2. servo' = servo /\ q = n  BY <2>4, <4>1 DEF Anew, Left
      <4>3. Guarded(t, n)'  BY <4>1, GuardedAnew
      <4> QED  BY <2>2, <4>2, <4>3 DEF ProtectedWhenOn
    <3>5. CASE \E n, name, new, to : Started(t, n, name, new, to)
      <4>1. PICK n, name, new, to : Started(t, n, name, new, to)  BY <3>5
      <4>2. servo' = servo /\ q = n  BY <2>4, <4>1 DEF Started
      <4>3. Guarded(t, n)'  BY <4>1, GuardedBegun
      <4> QED  BY <2>2, <4>2, <4>3 DEF ProtectedWhenOn
    <3> QED  BY <2>1, <3>1, <3>2, <3>3, <3>4, <3>5
  <2>6. \A u \in Terminals : Guarded(u, tool[u].todo)'
    <3>1. Guarded(t, tool[t].todo)'  BY <2>5, <2>4
    <3> QED  BY <2>3, <3>1
  <2> QED  BY <2>5, <2>6 DEF OnInv
<1> QED  BY <1>1, <1>2

LEMMA OnInvInit ==
  ASSUME Init
  PROVE  OnInv
<1>1. Base  BY BaseInit
<1>2. \A t \in Terminals : tool[t].todo = <<>>  BY DEF Init, Idle
<1>3. \A t \in Terminals : Guarded(t, tool[t].todo)  BY <1>2, NoneToDo, GuardedNone
<1>4. ProtectedWhenOn  BY DEF Init, New, ProtectedWhenOn
<1> QED  BY <1>3, <1>4 DEF OnInv

\* A motor is never powered without the overload protection of the limits,
\* however many tools run, and wherever they are interrupted.
THEOREM AlwaysProtected == Spec => []ProtectedWhenOn
<1>1. Base /\ OnInv => ProtectedWhenOn  BY DEF OnInv
<1>2. Init => Base /\ OnInv  BY BaseInit, OnInvInit
<1>3. Base /\ OnInv /\ [Next]_vars => Base' /\ OnInv'  BY BaseNext, OnInvNext
<1> QED  BY <1>1, <1>2, <1>3, PTL DEF Spec

----------------------------------------------------------------------------
(* A motor that is powered is locked, or will be.                          *)

LEMMA MendsForth ==
  ASSUME NEW p, NEW q, IsTail(p, q), NEW k \in Nat \ {0}, NEW i, Mends(p, k, i)
  PROVE  Mends(q, k - 1, i)
<1>1. PICK m \in Places(p) :
        /\ m > k
        /\ LocksOn(p, m, i)
        /\ \A j \in k + 1 .. m - 1 : IsSetting(p, j) /\ LocksOn(p[j].fail, 1, i)
  BY DEF Mends
<1>2. m \in 1 .. Len(p) /\ Len(p) \in Nat /\ m # 1 /\ Len(q) = Len(p) - 1
  BY <1>1, PlacesAre DEF IsTail
<1>3. LocksOn(q, m - 1, i)  BY <1>1, <1>2, WriteForth DEF LocksOn
<1>4. m - 1 \in Places(q) /\ m - 1 > k - 1  BY <1>1, <1>2 DEF Places
<1>5. ASSUME NEW j \in (k - 1) + 1 .. (m - 1) - 1 PROVE IsSetting(q, j) /\ LocksOn(q[j].fail, 1, i)
  <2>1. j + 1 \in k + 1 .. m - 1 /\ j \in Places(q)  BY <1>1, <1>2 DEF Places
  <2>2. q[j] = p[j + 1]  BY <2>1 DEF IsTail
  <2> QED  BY <1>1, <2>1, <2>2 DEF IsSetting
<1> QED  BY <1>3, <1>4, <1>5 DEF Mends

\* The same where the first operation is one of those in between.
LEMMA MendsOn ==
  ASSUME NEW p, NEW q, IsTail(p, q), NEW i, Mends(p, 0, i)
  PROVE  \/ LocksOn(p, 1, i)
         \/ IsSetting(p, 1) /\ LocksOn(p[1].fail, 1, i) /\ Mends(q, 0, i)
<1>1. PICK m \in Places(p) :
        /\ m > 0
        /\ LocksOn(p, m, i)
        /\ \A j \in 0 + 1 .. m - 1 : IsSetting(p, j) /\ LocksOn(p[j].fail, 1, i)
  BY DEF Mends
<1>2. m \in Nat \ {0}  BY <1>1, PlacesAre
<1>3. CASE m = 1  BY <1>1, <1>3
<1>4. CASE m # 1
  <2>1. 1 \in 0 + 1 .. m - 1  BY <1>2, <1>4
  <2>2. m > 1 /\ \A j \in 1 + 1 .. m - 1 : j \in 0 + 1 .. m - 1  BY <1>2, <1>4
  <2>3. Mends(p, 1, i)  BY <1>1, <2>2 DEF Mends
  <2>4. 1 \in Nat \ {0} /\ 1 - 1 = 0  OBVIOUS
  <2>5. Mends(q, 1 - 1, i)  BY <2>3, <2>4, MendsForth
  <2> QED  BY <1>1, <2>1, <2>4, <2>5
<1> QED  BY <1>3, <1>4

LEMMA RenamesForth ==
  ASSUME NEW p, NEW q, IsTail(p, q), NEW k \in Nat, k > 1, NEW i, Renames(p, k, i)
  PROVE  Renames(q, k - 1, i)
<1>1. CASE LocksOn(p, k, i)
  <2>1. k # 1  OBVIOUS
  <2>2. LocksOn(q, k - 1, i)  BY <1>1, <2>1, WriteForth DEF LocksOn
  <2> QED  BY <2>2 DEF Renames
<1>2. CASE \E n \in Ids : IsWrite(p, k, i, "id", n) /\ LocksOn(p, k + 1, n)
  <2>1. PICK n \in Ids : IsWrite(p, k, i, "id", n) /\ LocksOn(p, k + 1, n)  BY <1>2
  <2>2. IsWrite(q, k - 1, i, "id", n)  BY <2>1, WriteForth
  <2>3. k + 1 # 1 /\ (k + 1) - 1 = (k - 1) + 1  OBVIOUS
  <2>4. LocksOn(q, (k + 1) - 1, n)  BY <2>1, <2>3, WriteForth DEF LocksOn
  <2> QED  BY <2>2, <2>3, <2>4 DEF Renames
<1> QED  BY <1>1, <1>2 DEF Renames

LEMMA DoForth ==
  ASSUME NEW p, NEW q, IsTail(p, q), NEW k \in Nat, k > 1, NEW what, NEW b
  PROVE  /\ IsDo(p, k, what) => IsDo(q, k - 1, what)
         /\ Reopens(p, k, b) => Reopens(q, k - 1, b)
BY DEF IsDo, Reopens, IsTail

LEMMA MovesForth ==
  ASSUME NEW p, NEW q, IsTail(p, q), NEW k \in Nat, k > 1, NEW i, Moves(p, k, i)
  PROVE  Moves(q, k - 1, i)
<1>1. PICK b \in Speeds : /\ IsWrite(p, k, i, "baud", b) /\ IsDo(p, k + 1, "close")
                          /\ Reopens(p, k + 2, b) /\ Renames(p, k + 3, i)
  BY DEF Moves
<1>2. IsWrite(q, k - 1, i, "baud", b)  BY <1>1, WriteForth
<1>3. /\ k + 1 \in Nat /\ k + 1 > 1 /\ (k + 1) - 1 = (k - 1) + 1
      /\ k + 2 \in Nat /\ k + 2 > 1 /\ (k + 2) - 1 = (k - 1) + 2
      /\ k + 3 \in Nat /\ k + 3 > 1 /\ (k + 3) - 1 = (k - 1) + 3
  OBVIOUS
<1>4. IsDo(q, (k + 1) - 1, "close") /\ Reopens(q, (k + 2) - 1, b)  BY <1>1, <1>3, DoForth
<1>5. Renames(q, (k + 3) - 1, i)  BY <1>1, <1>3, RenamesForth
<1> QED  BY <1>2, <1>3, <1>4, <1>5 DEF Moves

LEMMA RelocksForth ==
  ASSUME Base, NEW t \in Terminals, Forth(t), Effect(t, tool[t].todo[1]), Relocks(t, tool[t].todo),
         NEW q, q = tool'[t].todo
  PROVE  Relocks(t, q)'
<1> DEFINE p == tool[t].todo
<1>1. Sound(p) /\ p # <<>> /\ q = Tail(p) /\ Effect(t, p[1]) /\ Relocks(t, p)
  BY DEF Base, Based, Forth
<1>2. p = tool[t].todo  OBVIOUS
<1> HIDE DEF p
<1>3. IsTail(p, q) /\ 1 \in Places(p)  BY <1>1, Shifted DEF Sound
<1>4. Renaming(t)' = Renaming(t)  BY DEF Forth, Renaming
<1>5. ASSUME NEW k \in Places(q)
      PROVE  /\ LocksOff(q, k, q[k].id) =>
                  \/ PowersOff(q, k - 1, q[k].id)
                  \/ k = 1 /\ Lacks(t, q[k].id, "torque")'
                  \/ Mends(q, k, q[k].id)
                  \/ Renaming(t)' /\ (Renames(q, k + 1, q[k].id) \/ Moves(q, k + 1, q[k].id))
             /\ q[k].do = "write" /\ q[k].reg = "id" => Renaming(t)' /\ Renames(q, k, q[k].id)
             /\ q[k].do = "write" /\ q[k].reg = "baud" => Renaming(t)' /\ Moves(q, k, q[k].id)
  <2> DEFINE i == q[k].id
             n == k + 1
  <2>1. n \in Places(p) /\ q[k] = p[n] /\ n \in Nat /\ n > 1 /\ n - 1 = k /\ k \in Nat \ {0} /\ p[n].id = i
    BY <1>3, PlacesAre DEF IsTail
  <2> HIDE DEF i, n
  <2>2. q[k].do = "write" /\ q[k].reg = "id" => Renaming(t)' /\ Renames(q, k, i)
    <3>1. ASSUME q[k].do = "write" /\ q[k].reg = "id" PROVE Renaming(t) /\ Renames(p, n, i)
      BY <1>1, <2>1, <3>1 DEF Relocks
    <3>2. Renames(p, n, i) => Renames(q, n - 1, i)  BY <1>3, <2>1, RenamesForth
    <3> QED  BY <1>4, <2>1, <3>1, <3>2
  <2>3. q[k].do = "write" /\ q[k].reg = "baud" => Renaming(t)' /\ Moves(q, k, i)
    <3>1. ASSUME q[k].do = "write" /\ q[k].reg = "baud" PROVE Renaming(t) /\ Moves(p, n, i)
      BY <1>1, <2>1, <3>1 DEF Relocks
    <3>2. Moves(p, n, i) => Moves(q, n - 1, i)  BY <1>3, <2>1, MovesForth
    <3> QED  BY <1>4, <2>1, <3>1, <3>2
  <2>4. ASSUME LocksOff(q, k, i)
        PROVE  \/ PowersOff(q, k - 1, i)
               \/ k = 1 /\ Lacks(t, i, "torque")'
               \/ Mends(q, k, i)
               \/ Renaming(t)' /\ (Renames(q, k + 1, i) \/ Moves(q, k + 1, i))
    <3>1. LocksOff(p, n, i)
      <4>1. LocksOff(p, k + 1, i)  BY <1>3, <2>4, WriteBack DEF LocksOff
      <4> QED  BY <4>1 DEF n
    <3>2. \/ PowersOff(p, n - 1, i)
          \/ Mends(p, n, i)
          \/ Renaming(t) /\ (Renames(p, n + 1, i) \/ Moves(p, n + 1, i))
      BY <1>1, <2>1, <3>1 DEF Relocks
    <3>3. CASE PowersOff(p, n - 1, i)
      <4>1. CASE k = 1
        <5>1. p[1].do = "write" /\ p[1].id = i /\ p[1].reg = "torque" /\ p[1].val = FALSE
          BY <2>1, <3>3, <4>1 DEF PowersOff, IsWrite
        <5>2. Stepping(t, p)
          BY <1>1, <1>2, <5>1, SteppingIs
        <5>3. Writing(t, p[1]) /\ "torque" \notin Eprom  BY <5>1, <5>2 DEF Stepping, Eprom
        <5>4. Lacks(t, i, "torque")'  BY <5>1, <5>3, HasNow
        <5> QED  BY <4>1, <5>4
      <4>2. CASE k # 1
        <5>1. PowersOff(p, k, i)  BY <2>1, <3>3
        <5> QED  BY <1>3, <4>2, <5>1, WriteForth DEF PowersOff
      <4> QED  BY <4>1, <4>2
    <3>4. CASE Mends(p, n, i)
      <4>1. n \in Nat \ {0}  BY <2>1
      <4>2. Mends(q, n - 1, i)  BY <1>3, <3>4, <4>1, MendsForth
      <4> QED  BY <2>1, <4>2
    <3>5. CASE Renaming(t) /\ (Renames(p, n + 1, i) \/ Moves(p, n + 1, i))
      <4>1. n + 1 \in Nat /\ n + 1 > 1 /\ (n + 1) - 1 = k + 1  BY <2>1
      <4>2. Renames(q, (n + 1) - 1, i) \/ Moves(q, (n + 1) - 1, i)
        BY <1>3, <3>5, <4>1, RenamesForth, MovesForth
      <4> QED  BY <1>4, <3>5, <4>1, <4>2
    <3> QED  BY <3>2, <3>3, <3>4, <3>5
  <2> QED  BY <2>2, <2>3, <2>4 DEF i
<1> QED  BY <1>5 DEF Relocks

LEMMA RelocksApart ==
  ASSUME NEW t, Apart(t), NEW u \in Terminals \ {t}, NEW p, Relocks(u, p)
  PROVE  Relocks(u, p)'
<1>1. Renaming(u)' = Renaming(u)  BY DEF Apart, Renaming
<1>2. \A i : Lacks(u, i, "torque") => Lacks(u, i, "torque")'  BY HasApart
<1> QED  BY <1>1, <1>2 DEF Relocks

LEMMA RelocksStatic ==
  ASSUME NEW t, NEW q,
         \A k \in Places(q) :
           /\ LocksOff(q, k, q[k].id) =>
                \/ PowersOff(q, k - 1, q[k].id)
                \/ Mends(q, k, q[k].id)
                \/ Renaming(t)' /\ (Renames(q, k + 1, q[k].id) \/ Moves(q, k + 1, q[k].id))
           /\ q[k].do = "write" /\ q[k].reg = "id" => Renaming(t)' /\ Renames(q, k, q[k].id)
           /\ q[k].do = "write" /\ q[k].reg = "baud" => Renaming(t)' /\ Moves(q, k, q[k].id)
  PROVE  Relocks(t, q)'
BY DEF Relocks

LEMMA RelocksQuiet ==
  ASSUME NEW t, NEW q, Quiet(q)
  PROVE  Relocks(t, q)'
BY RelocksStatic DEF Quiet

LEMMA RelocksAnew ==
  ASSUME NEW t, NEW q, Anew(t, q)
  PROVE  Relocks(t, q)'
<1>1. CASE q = Close
  BY <1>1, CloseFalls, FailSound, RelocksQuiet
<1>2. CASE PlanWell(q, AllChanges(t))
  BY <1>2, RelocksStatic DEF PlanWell, Part, PartAt, Settings
<1>3. CASE tool[t].name = "setup" /\ Renamer(q, tool[t].new, tool[t].speed, tool[t].to)
  <2>1. Renaming(t)'  BY <1>3 DEF Anew, Left, Renaming
  <2> QED  BY <1>3, <2>1, RelocksStatic DEF Renamer
<1> QED  BY <1>1, <1>2, <1>3 DEF Anew

LEMMA RelocksBegun ==
  ASSUME NEW t, NEW q, NEW name, NEW new, NEW to, Started(t, q, name, new, to)
  PROVE  Relocks(t, q)'
<1>1. tool'[t].name = name /\ Tooled(q, name, new, to)  BY DEF Started
<1>2. CASE Plain(q, Kinds) \/ Plain(q, {"open", "plan", "close"})
  BY <1>1, <1>2, RelocksStatic DEF Plain
<1>3. CASE name = "set_id" /\ Renamer(q, new, Speed, Speed)
  <2>1. Renaming(t)'  BY <1>1, <1>3 DEF Renaming
  <2> QED  BY <1>3, <2>1, RelocksStatic DEF Renamer
<1>4. CASE \A k \in Places(q) : q[k].do \in {"open", "scan"}
  BY <1>4, RelocksStatic DEF LocksOff, IsWrite
<1> QED  BY <1>1, <1>2, <1>3, <1>4 DEF Tooled

LEMMA PledgeBegins ==
  ASSUME NEW t, NEW p, IsProg(p), NEW i, NEW b, Pledge(t, p, i, b)
  PROVE  p # <<>> /\ 1 \in Places(p)
<1>1. \E k \in Places(p) : TRUE
  BY DEF Pledge, Mends, Renames, Moves, LocksOn, IsWrite, IsDo, Reopens
<1>2. Len(p) \in Nat /\ Len(<<>>) = 0  BY Lengths, NoneToDo
<1> QED  BY <1>1, <1>2 DEF Places

LEMMA PledgeIs ==
  ASSUME NEW t, NEW p, NEW q, IsTail(p, q), NEW i, NEW b, Pledge(t, p, i, b)
  PROVE  \/ /\ holder = t /\ tool[t].speed = b /\ p[1].do = "write"
            /\ \/ LocksOn(p, 1, i)
               \/ IsSetting(p, 1) /\ LocksOn(p[1].fail, 1, i) /\ Mends(q, 0, i)
               \/ Renaming(t) /\ (Renames(p, 1, i) \/ Moves(p, 1, i))
         \/ Renaming(t) /\ p[1].do = "close" /\ Reopens(q, 1, b) /\ Renames(q, 2, i)
         \/ Renaming(t) /\ p[1].do = "open" /\ p[1].val = b /\ Renames(q, 1, i)
<1>1. /\ 2 \in Nat /\ 2 > 1 /\ 2 - 1 = 1 /\ 3 \in Nat /\ 3 > 1 /\ 3 - 1 = 2
  OBVIOUS
<1>2. ASSUME holder = t /\ tool[t].speed = b, Mends(p, 0, i)
      PROVE  \/ LocksOn(p, 1, i)
             \/ IsSetting(p, 1) /\ LocksOn(p[1].fail, 1, i) /\ Mends(q, 0, i)
  BY <1>2, MendsOn
<1>3. LocksOn(p, 1, i) \/ IsSetting(p, 1) \/ Renames(p, 1, i) \/ Moves(p, 1, i) => p[1].do = "write"
  BY DEF LocksOn, IsSetting, Renames, Moves, IsWrite
<1>4. ASSUME IsDo(p, 1, "close"), Reopens(p, 2, b), Renames(p, 3, i)
      PROVE  p[1].do = "close" /\ Reopens(q, 1, b) /\ Renames(q, 2, i)
  <2>1. Reopens(q, 2 - 1, b)  BY <1>1, <1>4, DoForth
  <2>2. Renames(q, 3 - 1, i)  BY <1>1, <1>4, RenamesForth
  <2> QED  BY <1>1, <1>4, <2>1, <2>2 DEF IsDo
<1>5. ASSUME Reopens(p, 1, b), Renames(p, 2, i)
      PROVE  p[1].do = "open" /\ p[1].val = b /\ Renames(q, 1, i)
  <2>1. Renames(q, 2 - 1, i)  BY <1>1, <1>5, RenamesForth
  <2> QED  BY <1>1, <1>5, <2>1 DEF Reopens, IsDo
<1> QED  BY <1>2, <1>3, <1>4, <1>5 DEF Pledge

LEMMA PledgeApart ==
  ASSUME NEW t, Apart(t), NEW u \in Terminals \ {t}, NEW p, NEW i, NEW b, Pledge(u, p, i, b)
  PROVE  Pledge(u, p, i, b)'
<1>1. tool'[u] = tool[u] /\ (holder' = u <=> holder = u)  BY DEF Apart
<1> QED  BY <1>1 DEF Pledge, Renaming

\* The motor s keeps its id and its speed, and whoever promised to lock it is at it still.
LEMMA PromiseApart ==
  ASSUME NEW t, Apart(t), NEW u \in Terminals \ {t}, NEW s,
         servo'[s].id = servo[s].id, servo'[s].baud = servo[s].baud, Promises(u, s)
  PROVE  Promises(u, s)'
<1>1. PICK p, i, b : p = tool[u].todo /\ i = servo[s].id /\ b = servo[s].baud  OBVIOUS
<1>2. Pledge(u, p, i, b)  BY <1>1 DEF Promises
<1>3. Pledge(u, p, i, b)'  BY <1>2, PledgeApart
<1>4. tool'[u] = tool[u]  BY DEF Apart
<1> QED  BY <1>1, <1>3, <1>4 DEF Promises

\* What the terminal t does once it has the bus at the motor's speed.
LEMMA PledgeNow ==
  ASSUME NEW t, NEW q, q = tool'[t].todo, NEW s, holder' = t, tool'[t].speed = servo'[s].baud,
         \/ Mends(q, 0, servo'[s].id)
         \/ Renaming(t)' /\ (Renames(q, 1, servo'[s].id) \/ Moves(q, 1, servo'[s].id))
  PROVE  Promises(t, s)'
<1>1. Pledge(t, tool[t].todo, servo[s].id, servo[s].baud)'  BY DEF Pledge, Renaming
<1> QED  BY <1>1 DEF Promises

LEMMA MindedWrite ==
  ASSUME Base, OnInv, LockInv, NEW t \in Terminals, Forth(t), Apart(t), ~hurt,
         Effect(t, tool[t].todo[1]), tool[t].todo[1].do = "write",
         NEW s \in DOMAIN servo, servo'[s].torque, ~servo'[s].lock
  PROVE  \E u \in Terminals : Promises(u, s)'
<1> DEFINE p == tool[t].todo
           o == p[1]
<1>1. PICK q : q = tool'[t].todo  OBVIOUS
<1>2. /\ Sound(p) /\ p # <<>> /\ q = Tail(p) /\ Relocks(t, p) /\ Guarded(t, p)
      /\ holder' = t /\ tool'[t].speed = tool[t].speed /\ Renaming(t)' = Renaming(t)
      /\ Wrote(o, Hear(t, o.id)) /\ Fits(o.reg, o.val) /\ o.do = "write" /\ p[1] = o
      /\ servo[s].torque /\ ~servo[s].lock => \E u \in Terminals : Promises(u, s)
      /\ \A u : Promises(u, s) <=> Pledge(u, tool[u].todo, servo[s].id, servo[s].baud)
  <2>1. Sound(p)  BY DEF Base, Based
  <2>2. Relocks(t, p) /\ Guarded(t, p) /\ (servo[s].torque /\ ~servo[s].lock => \E u \in Terminals : Promises(u, s))
    BY DEF LockInv, OnInv, Minded
  <2>3. p # <<>> /\ q = Tail(p) /\ holder' = t /\ tool'[t].speed = tool[t].speed /\ Renaming(t)' = Renaming(t)
    BY <1>1 DEF Forth, Renaming
  <2>4. Wrote(o, Hear(t, o.id)) /\ Fits(o.reg, o.val)  BY DEF Effect
  <2>5. \A u : Promises(u, s) <=> Pledge(u, tool[u].todo, servo[s].id, servo[s].baud)  BY DEF Promises
  <2> QED  BY <2>1, <2>2, <2>3, <2>4, <2>5
<1>3. p = tool[t].todo  OBVIOUS
<1> HIDE DEF o, p
<1>4. IsTail(p, q) /\ 1 \in Places(p)  BY <1>2, Shifted DEF Sound
<1>5. /\ Written(s, o, Hear(t, o.id)) /\ 1 \in Nat \ {0} /\ 1 - 1 = 0
      /\ 2 \in Nat /\ 2 > 1 /\ 2 - 1 = 1 /\ 1 + 1 = 2
  BY <1>2 DEF Wrote
<1>6. \A x \in Ids : LocksOn(p, 2, x) => LocksOn(q, 1, x)
  <2>1. ASSUME NEW x, LocksOn(p, 2, x) PROVE LocksOn(q, 2 - 1, x)
    BY <1>4, <1>5, <2>1, WriteForth DEF LocksOn
  <2> QED  BY <1>5, <2>1
\* What was promised before, of a motor that is as it was.
<1>7. ASSUME servo'[s].id = servo[s].id, servo'[s].baud = servo[s].baud, servo[s].torque, ~servo[s].lock,
             (o.id = servo[s].id /\ tool[t].speed = servo[s].baud) => o.reg \notin {"lock", "id", "baud"}
      PROVE  \E u \in Terminals : Promises(u, s)'
  <2>1. PICK u \in Terminals : Promises(u, s)  BY <1>2, <1>7
  <2>2. CASE u # t  BY <1>7, <2>1, <2>2, PromiseApart
  <2>3. CASE u = t
    <3>1. Pledge(t, p, servo[s].id, servo[s].baud)  BY <1>2, <1>3, <2>1, <2>3
    <3>2. PICK i : i = servo[s].id  OBVIOUS
    <3>3. Pledge(t, p, i, servo[s].baud)  BY <3>1, <3>2
    <3>4. /\ holder = t /\ tool[t].speed = servo[s].baud
          /\ \/ LocksOn(p, 1, i)
             \/ IsSetting(p, 1) /\ LocksOn(p[1].fail, 1, i) /\ Mends(q, 0, i)
             \/ Renaming(t) /\ (Renames(p, 1, i) \/ Moves(p, 1, i))
      BY <1>2, <1>4, <3>3, PledgeIs
    <3>5. o.id = i => o.reg \notin {"lock", "id", "baud"}  BY <1>7, <3>2, <3>4
    <3>6. ~LocksOn(p, 1, i)  BY <1>2, <3>5 DEF LocksOn, IsWrite
    <3>7. ~Renames(p, 1, i)  BY <1>2, <3>5, <3>6 DEF Renames, IsWrite
    <3>8. ~Moves(p, 1, i)  BY <1>2, <3>5 DEF Moves, IsWrite
    <3>9. tool[t].speed = servo[s].baud /\ Mends(q, 0, servo[s].id)
      BY <3>2, <3>4, <3>6, <3>7, <3>8
    <3>10. Promises(t, s)'  BY <1>1, <1>2, <1>7, <3>9, PledgeNow
    <3> QED  BY <3>10
  <2> QED  BY <2>2, <2>3
<1>8. CASE s \notin Hear(t, o.id)
  <2>1. servo'[s] = servo[s]  BY <1>5, <1>8 DEF Written
  <2>2. servo[s].id # o.id \/ servo[s].baud # tool[t].speed  BY <1>8 DEF Hear
  <2> QED  BY <1>2, <1>7, <2>1, <2>2 DEF IsWrite
<1>9. CASE s \in Hear(t, o.id)
  <2>1. IsPut(servo'[s], servo[s], o.reg, o.val) /\ servo[s].id = o.id /\ servo[s].baud = tool[t].speed
    BY <1>5, <1>9 DEF Written, Hear
  <2> DEFINE i == o.id
  <2>2. CASE o.reg = "lock"
    <3>1. /\ servo'[s].lock = o.val /\ servo'[s].torque = servo[s].torque
          /\ servo'[s].id = i /\ servo'[s].baud = tool[t].speed
      BY <2>1, <2>2 DEF IsPut, Eprom
    <3>2. o.val = FALSE  BY <1>2, <2>2, <3>1 DEF Fits, Settings
    <3>3. LocksOff(p, 1, i)  BY <1>2, <1>4, <2>2, <3>2 DEF LocksOff, IsWrite
    <3>4. ~PowersOff(p, 1 - 1, i)
      <4>1. 1 - 1 \notin Places(p)  BY DEF Places
      <4> QED  BY <4>1 DEF PowersOff, IsWrite
    <3>5. ~Lacks(t, i, "torque")  BY <1>9, <3>1 DEF Lacks
    <3>6. Mends(p, 1, i) \/ (Renaming(t) /\ (Renames(p, 1 + 1, i) \/ Moves(p, 1 + 1, i)))
      BY <1>2, <1>4, <3>3, <3>4, <3>5 DEF Relocks
    <3>7. Mends(p, 1, i) => Mends(q, 1 - 1, i)  BY <1>4, <1>5, MendsForth
    <3>8. /\ Renames(p, 2, i) => Renames(q, 2 - 1, i)
          /\ Moves(p, 2, i) => Moves(q, 2 - 1, i)
      BY <1>4, <1>5, RenamesForth, MovesForth
    <3>9. Mends(q, 0, i) \/ (Renaming(t)' /\ (Renames(q, 1, i) \/ Moves(q, 1, i)))
      BY <1>2, <1>5, <3>6, <3>7, <3>8
    <3>10. Promises(t, s)'  BY <1>1, <1>2, <3>1, <3>9, PledgeNow
    <3> QED  BY <3>10
  <2>3. CASE o.reg = "torque"
    <3>1. servo'[s].torque = o.val /\ servo'[s].lock = servo[s].lock
      BY <2>1, <2>3 DEF IsPut, Eprom
    <3>2. o.val = TRUE  BY <1>2, <2>3, <3>1 DEF Fits, Settings
    <3>3. PowersOn(p, 1, i)  BY <1>2, <1>4, <2>3, <3>2 DEF PowersOn, IsWrite
    <3>4. LockedAt(t, p, 1, i)  BY <1>2, <1>4, <3>3 DEF Guarded
    <3>5. Has(t, i, "lock")  BY <3>4 DEF LockedAt
    <3> QED  BY <1>9, <3>1, <3>5 DEF Has
  <2>4. CASE o.reg \in Settings
    <3>1. /\ servo'[s].lock = servo[s].lock /\ servo'[s].torque = servo[s].torque
          /\ servo'[s].id = servo[s].id /\ servo'[s].baud = servo[s].baud
      BY <2>1, <2>4 DEF IsPut, Settings
    <3> QED  BY <1>2, <1>7, <2>4, <3>1 DEF IsWrite, Settings
  <2>5. CASE o.reg = "id"
    <3>1. /\ servo'[s].lock = servo[s].lock /\ servo'[s].torque = servo[s].torque
          /\ servo'[s].baud = tool[t].speed
      BY <2>1, <2>5 DEF IsPut
    <3>2. servo'[s].id = o.val  BY <2>1, <2>5, <3>1 DEF IsPut
    <3>3. Renaming(t) /\ Renames(p, 1, i)  BY <1>2, <1>4, <2>5 DEF Relocks
    <3>4. PICK n \in Ids : IsWrite(p, 1, i, "id", n) /\ LocksOn(p, 1 + 1, n)
      BY <1>2, <2>5, <3>3 DEF Renames, LocksOn, IsWrite
    <3>5. n = o.val /\ LocksOn(q, 1, n)  BY <1>2, <1>5, <1>6, <3>4 DEF IsWrite
    <3>6. Renames(q, 1, servo'[s].id)  BY <3>2, <3>5 DEF Renames
    <3>7. Promises(t, s)'  BY <1>1, <1>2, <3>1, <3>3, <3>6, PledgeNow
    <3> QED  BY <3>7
  <2>6. CASE o.reg = "baud"
    <3>1. /\ servo'[s].lock = servo[s].lock /\ servo'[s].torque = servo[s].torque
          /\ servo'[s].id = i
      BY <2>1, <2>6 DEF IsPut
    <3>2. servo'[s].baud = o.val  BY <2>1, <2>6, <3>1 DEF IsPut, Eprom
    <3>3. Renaming(t) /\ Moves(p, 1, i)  BY <1>2, <1>4, <2>6 DEF Relocks
    <3>4. PICK b \in Speeds : /\ IsWrite(p, 1, i, "baud", b) /\ IsDo(p, 1 + 1, "close")
                              /\ Reopens(p, 1 + 2, b) /\ Renames(p, 1 + 3, i)
      BY <3>3 DEF Moves
    <3>5. b = o.val  BY <1>2, <3>4 DEF IsWrite
    <3>6. /\ 1 + 2 = 3 /\ 1 + 3 = 4 /\ 3 \in Nat /\ 3 > 1 /\ 3 - 1 = 2 /\ 4 \in Nat /\ 4 > 1 /\ 4 - 1 = 3
      OBVIOUS
    <3>7. IsDo(q, 2 - 1, "close") /\ Reopens(q, 3 - 1, b)  BY <1>4, <1>5, <3>4, <3>6, DoForth
    <3>8. Renames(q, 4 - 1, i)  BY <1>4, <3>4, <3>6, RenamesForth
    <3>9. Renaming(t)' /\ IsDo(q, 1, "close") /\ Reopens(q, 2, servo'[s].baud) /\ Renames(q, 3, servo'[s].id)
      BY <1>2, <1>5, <3>1, <3>2, <3>3, <3>5, <3>6, <3>7, <3>8
    <3>10. Pledge(t, tool[t].todo, servo[s].id, servo[s].baud)'  BY <1>1, <3>9 DEF Pledge, Renaming
    <3>11. Promises(t, s)'  BY <3>10 DEF Promises
    <3> QED  BY <3>11
  <2> QED  BY <1>2, <2>2, <2>3, <2>4, <2>5, <2>6 DEF Fits
<1> QED  BY <1>8, <1>9

LEMMA MindedForth ==
  ASSUME Base, OnInv, LockInv, NEW t \in Terminals, Forth(t), Apart(t), ~hurt', Effect(t, tool[t].todo[1])
  PROVE  Minded'
<1> DEFINE p == tool[t].todo
           o == p[1]
<1>1. /\ DOMAIN servo' = DOMAIN servo /\ Effect(t, o) /\ p # <<>> /\ Sound(p) /\ tool'[t].todo = Tail(p)
      /\ tool'[t].speed = IF o.do = "open" THEN o.val ELSE tool[t].speed
      /\ o.do # "close" => holder' = t
      /\ Renaming(t)' = Renaming(t)
  BY DEF Apart, Base, Based, Forth, Renaming
<1>2. ~hurt
  <2>1. CASE o.do = "off"  BY <1>1, <2>1 DEF Effect, Released
  <2>2. CASE o.do # "off"  BY <1>1, <2>2 DEF Effect
  <2> QED  BY <2>1, <2>2
<1>3. \A s \in DOMAIN servo : servo[s].torque /\ ~servo[s].lock => \E u \in Terminals : Promises(u, s)
  BY <1>2 DEF LockInv, Minded
<1>4. \A u, s : Promises(u, s) <=> Pledge(u, tool[u].todo, servo[s].id, servo[s].baud)  BY DEF Promises
<1>5. PICK q : q = tool'[t].todo  OBVIOUS
<1>6. p = tool[t].todo /\ o = p[1]  OBVIOUS
<1> HIDE DEF o, p
<1>7. IsTail(p, q) /\ q = Tail(p)  BY <1>1, <1>5, Shifted DEF Sound
<1>8. ASSUME NEW s \in DOMAIN servo, servo'[s].torque, ~servo'[s].lock
      PROVE  \E u \in Terminals : Promises(u, s)'
  <2>1. CASE o.do = "write"  BY <1>1, <1>2, <1>6, <1>8, <2>1, MindedWrite
  <2>2. CASE o.do = "off"
    <3>1. Released(t) /\ holder = t  BY <1>1, <2>2 DEF Effect
    <3>2. servo'[s] = servo[s]  BY <1>8, <3>1 DEF Released
    <3>3. PICK u \in Terminals : Promises(u, s)  BY <1>3, <1>8, <3>2
    <3>4. u # t
      <4>1. SUFFICES ASSUME u = t PROVE FALSE  OBVIOUS
      <4>2. PICK i, b : i = servo[s].id /\ b = servo[s].baud  OBVIOUS
      <4>3. Pledge(t, p, i, b)  BY <1>4, <1>6, <3>3, <4>1, <4>2
      <4> QED  BY <1>6, <1>7, <2>2, <4>3, PledgeIs
    <3> QED  BY <3>2, <3>3, <3>4, PromiseApart
  <2>3. CASE o.do \notin {"write", "off"}
    <3>1. servo' = servo  BY <1>1, <2>3 DEF Effect
    <3>2. PICK u \in Terminals : Promises(u, s)  BY <1>3, <1>8, <3>1
    <3>3. CASE u # t  BY <3>1, <3>2, <3>3, PromiseApart
    <3>4. CASE u = t
      <4>1. PICK i, b : i = servo[s].id /\ b = servo[s].baud  OBVIOUS
      <4>2. Pledge(t, p, i, b)  BY <1>4, <1>6, <3>2, <3>4, <4>1
      <4>3. \/ Renaming(t) /\ o.do = "close" /\ Reopens(q, 1, b) /\ Renames(q, 2, i)
            \/ Renaming(t) /\ o.do = "open" /\ o.val = b /\ Renames(q, 1, i)
        <5>1. \/ p[1].do = "write"
              \/ Renaming(t) /\ p[1].do = "close" /\ Reopens(q, 1, b) /\ Renames(q, 2, i)
              \/ Renaming(t) /\ p[1].do = "open" /\ p[1].val = b /\ Renames(q, 1, i)
          BY <1>7, <4>2, PledgeIs
        <5> QED  BY <1>6, <2>3, <5>1
      <4>4. CASE Renaming(t) /\ o.do = "close" /\ Reopens(q, 1, b) /\ Renames(q, 2, i)
        <5>1. Renaming(t)' /\ Reopens(q, 1, b) /\ Renames(q, 2, i)  BY <1>1, <4>4
        <5>2. Pledge(t, q, i, b)'  BY <5>1 DEF Pledge, Renaming
        <5>3. i = servo'[s].id /\ b = servo'[s].baud  BY <3>1, <4>1
        <5>4. Promises(t, s)'  BY <1>5, <5>2, <5>3 DEF Promises
        <5> QED  BY <5>4
      <4>5. CASE Renaming(t) /\ o.do = "open" /\ o.val = b /\ Renames(q, 1, i)
        <5>1. holder' = t /\ tool'[t].speed = servo'[s].baud /\ Renaming(t)' /\ i = servo'[s].id
          BY <1>1, <3>1, <4>1, <4>5
        <5>2. Promises(t, s)'  BY <1>5, <4>5, <5>1, PledgeNow
        <5> QED  BY <5>2
      <4> QED  BY <4>3, <4>4, <4>5
    <3> QED  BY <3>3, <3>4
  <2> QED  BY <2>1, <2>2, <2>3
<1> QED  BY <1>1, <1>8 DEF Minded

LEMMA MindedBack ==
  ASSUME Base, OnInv, LockInv, NEW t \in Terminals, Raises(t), Back(t), Apart(t), ~hurt'
  PROVE  Minded'
<1> DEFINE p == tool[t].todo
           o == p[1]
           f == o.fail
<1>1. /\ DOMAIN servo' = DOMAIN servo /\ Sound(p) /\ p # <<>> /\ Running(t)
      /\ tool'[t].todo = f /\ tool'[t].speed = tool[t].speed
      /\ o.do \notin {"close", "done", "off"}
      /\ o.do # "open" => holder = t /\ holder' = t
      /\ Relocks(t, p) /\ Guarded(t, p)
  <2>1. DOMAIN servo' = DOMAIN servo /\ Sound(p) /\ Running(t)  BY DEF Apart, Base, Based, Raises
  <2>2. Relocks(t, p) /\ Guarded(t, p)  BY DEF OnInv, LockInv
  <2>3. /\ p # <<>> /\ tool'[t].todo = f /\ tool'[t].speed = tool[t].speed
        /\ o.do \notin {"close", "done", "off"}
        /\ o.do # "open" => holder = t /\ holder' = t
    BY DEF Back, Left
  <2> QED  BY <2>1, <2>2, <2>3
<1>2. Now(t) = o /\ 1 \in Places(p) /\ \A what : Does(t, what) <=> o.do = what  BY <1>1, OpIs
<1>3. ~hurt /\ o.reg # "lock" /\ ~Renaming(t)  BY <1>2 DEF Raises, Renaming
<1>4. \A s \in DOMAIN servo : servo[s].torque /\ ~servo[s].lock => \E u \in Terminals : Promises(u, s)
  BY <1>3 DEF LockInv, Minded
<1>5. \A u, s : Promises(u, s) <=> Pledge(u, tool[u].todo, servo[s].id, servo[s].baud)  BY DEF Promises
<1>6. servo' = servo \/ (o.do = "write" /\ Wrote(o, Hear(t, o.id)) /\ Fits(o.reg, o.val))
  <2>1. CASE servo' # servo
    <3>1. Does(t, "write") /\ Put2(Hear(t, Now(t).id), Now(t).reg, Now(t).val)  BY <2>1 DEF Raises
    <3>2. Wrote(o, Hear(t, o.id)) /\ Fits(o.reg, o.val)  BY <3>1, WriteIs
    <3> QED  BY <1>2, <3>1, <3>2
  <2> QED  BY <2>1
<1>7. p = tool[t].todo /\ o = p[1] /\ f = o.fail  OBVIOUS
<1> HIDE DEF o, p, f
<1>8. IsTail(p, Tail(p))  BY <1>1, Shifted DEF Sound
<1>9. ASSUME NEW s \in DOMAIN servo, servo'[s].torque, ~servo'[s].lock
      PROVE  /\ servo[s].torque /\ ~servo[s].lock
             /\ servo'[s].id = servo[s].id /\ servo'[s].baud = servo[s].baud
  <2>1. CASE servo' = servo  BY <1>9, <2>1
  <2>2. CASE o.do = "write" /\ Wrote(o, Hear(t, o.id)) /\ Fits(o.reg, o.val)
    <3>1. Written(s, o, Hear(t, o.id))  BY <2>2 DEF Wrote
    <3>2. CASE s \notin Hear(t, o.id)  BY <1>9, <3>1, <3>2 DEF Written
    <3>3. CASE s \in Hear(t, o.id)
      <4>1. IsPut(servo'[s], servo[s], o.reg, o.val)  BY <3>1, <3>3 DEF Written
      <4>2. o.reg \notin {"id", "baud", "lock"}  BY <1>1, <1>2, <1>3, <1>7, <2>2 DEF Relocks
      <4>3. /\ servo'[s].id = servo[s].id /\ servo'[s].baud = servo[s].baud /\ servo'[s].lock = servo[s].lock
            /\ servo'[s].torque = (IF "torque" = o.reg THEN o.val ELSE servo[s].torque)
        BY <4>1, <4>2 DEF IsPut, Eprom
      <4>4. ASSUME o.reg = "torque" PROVE FALSE
        <5>1. o.val = TRUE  BY <1>9, <2>2, <4>3, <4>4 DEF Fits, Settings
        <5>2. PowersOn(p, 1, o.id)  BY <1>2, <1>7, <2>2, <4>4, <5>1 DEF PowersOn, IsWrite
        <5>3. LockedAt(t, p, 1, o.id)  BY <1>1, <1>2, <1>7, <5>2 DEF Guarded
        <5>4. Has(t, o.id, "lock")  BY <5>3 DEF LockedAt
        <5> QED  BY <1>9, <3>3, <4>3, <5>4 DEF Has
      <4> QED  BY <1>9, <4>3, <4>4
    <3> QED  BY <3>2, <3>3
  <2> QED  BY <1>6, <2>1, <2>2
<1>10. ASSUME NEW s \in DOMAIN servo, servo'[s].torque, ~servo'[s].lock
       PROVE  \E u \in Terminals : Promises(u, s)'
  <2>1. PICK u \in Terminals : Promises(u, s)  BY <1>4, <1>9, <1>10
  <2>2. CASE u # t  BY <1>9, <1>10, <2>1, <2>2, PromiseApart
  <2>3. CASE u = t
    <3>1. PICK i, b : i = servo[s].id /\ b = servo[s].baud  OBVIOUS
    <3>2. Pledge(t, p, i, b)  BY <1>5, <1>7, <2>1, <2>3, <3>1
    <3>3. /\ holder = t /\ tool[t].speed = b /\ o.do = "write"
          /\ LocksOn(p, 1, i) \/ LocksOn(f, 1, i)
      BY <1>3, <1>7, <1>8, <3>2, PledgeIs
    <3>4. LocksOn(f, 1, i)  BY <1>3, <1>7, <3>3 DEF LocksOn, IsWrite
    <3>5. Mends(f, 0, i)
      <4>1. 1 \in Places(f) /\ 1 > 0 /\ 0 + 1 .. 1 - 1 = {}  BY <3>4 DEF LocksOn, IsWrite
      <4> QED  BY <3>4, <4>1 DEF Mends
    <3>6. holder' = t /\ tool'[t].speed = servo'[s].baud /\ i = servo'[s].id
      BY <1>1, <1>9, <1>10, <3>1, <3>3
    <3>7. f = tool'[t].todo /\ Mends(f, 0, servo'[s].id)  BY <1>1, <3>5, <3>6
    <3>8. Promises(t, s)'  BY <3>6, <3>7, PledgeNow
    <3> QED  BY <3>8
  <2> QED  BY <2>2, <2>3
<1> QED  BY <1>1, <1>10 DEF Minded

\* A step that leaves the servos alone, of a tool that promised nothing.
LEMMA MindedElse ==
  ASSUME LockInv, NEW t, Apart(t), servo' = servo, ~hurt' => ~hurt,
         \A i, b : ~Pledge(t, tool[t].todo, i, b)
  PROVE  Minded'
<1>1. ASSUME NEW s \in DOMAIN servo', servo'[s].torque, ~servo'[s].lock, ~hurt'
      PROVE  \E u \in Terminals : Promises(u, s)'
  <2>1. PICK u \in Terminals : Promises(u, s)  BY <1>1 DEF LockInv, Minded
  <2>2. u # t  BY <2>1 DEF Promises
  <2> QED  BY <2>1, <2>2, PromiseApart
<1> QED  BY <1>1 DEF Minded

LEMMA NoPledge ==
  ASSUME NEW t, NEW p, Sound(p), p = <<>> \/ p[1].do \notin {"write", "open", "close"}
  PROVE  \A i, b : ~Pledge(t, p, i, b)
<1>1. ASSUME NEW i, NEW b, Pledge(t, p, i, b) PROVE FALSE
  <2>1. p # <<>>  BY <1>1, PledgeBegins DEF Sound
  <2>2. IsTail(p, Tail(p))  BY <2>1, Shifted DEF Sound
  <2>3. p[1].do \notin {"write", "open", "close"}  BY <2>1
  <2> QED  BY <1>1, <2>2, <2>3, PledgeIs
<1> QED  BY <1>1

LEMMA LockInvNext ==
  ASSUME Base, OnInv, LockInv, [Next]_vars
  PROVE  LockInv'
<1>1. CASE UNCHANGED vars
  <2>1. ASSUME NEW u \in Terminals PROVE Relocks(u, tool[u].todo)'
    <3>1. PICK p : p = tool[u].todo  OBVIOUS
    <3>2. Relocks(u, p)  BY <3>1 DEF LockInv
    <3>3. Relocks(u, p)'  BY <1>1, <3>2, StillApart, RelocksApart
    <3>4. p = tool'[u].todo  BY <1>1, <3>1 DEF vars
    <3> QED  BY <3>3, <3>4
  <2>2. Minded'
    <3>1. servo' = servo /\ hurt' = hurt  BY <1>1 DEF vars
    <3>2. ASSUME NEW s \in DOMAIN servo', servo'[s].torque, ~servo'[s].lock, ~hurt'
          PROVE  \E u \in Terminals : Promises(u, s)'
      <4>1. PICK u \in Terminals : Promises(u, s)  BY <3>1, <3>2 DEF LockInv, Minded
      <4>2. Promises(u, s)'  BY <1>1, <3>1, <4>1, StillApart, PromiseApart
      <4> QED  BY <4>2
    <3> QED  BY <3>2 DEF Minded
  <2> QED  BY <2>1, <2>2 DEF LockInv
<1>2. CASE ~UNCHANGED vars
  <2>1. PICK t \in Terminals :
           /\ Apart(t)
           /\ \/ Goes1(t) /\ Forth(t)
              \/ Raises(t) /\ Back(t)
              \/ (Exits(t) \/ Killed(t)) /\ Gone(t)
              \/ \E q : Sound(q) /\ Anew(t, q)
              \/ \E q, name, new, to : Started(t, q, name, new, to)
    BY <1>2, Steps
  <2>2. \A u \in Terminals : Relocks(u, tool[u].todo)  BY DEF LockInv
  <2>3. ASSUME NEW u \in Terminals \ {t} PROVE Relocks(u, tool[u].todo)'
    <3>1. Relocks(u, tool[u].todo) /\ tool'[u] = tool[u]  BY <2>1, <2>2 DEF Apart
    <3>2. PICK p : p = tool[u].todo  OBVIOUS
    <3>3. p = tool'[u].todo /\ Relocks(u, p)  BY <3>1, <3>2
    <3>4. Relocks(u, p)'  BY <2>1, <3>3, RelocksApart
    <3> QED  BY <3>3, <3>4
  <2>4. PICK q : q = tool'[t].todo  OBVIOUS
  <2>5. Sound(tool[t].todo)  BY DEF Base, Based
  <2>6. Minded' /\ Relocks(t, q)'
    <3>1. CASE Goes1(t) /\ Forth(t)
      <4>1. Effect(t, tool[t].todo[1])  BY <3>1, EffectIs
      <4>2. Relocks(t, q)'  BY <2>2, <2>4, <3>1, <4>1, RelocksForth
      <4>3. CASE hurt'  BY <4>2, <4>3 DEF Minded
      <4>4. CASE ~hurt'  BY <2>1, <3>1, <4>1, <4>2, <4>4, MindedForth
      <4> QED  BY <4>3, <4>4
    <3>2. CASE Raises(t) /\ Back(t)
      <4>1. Relocks(t, q)'
        <5> DEFINE p == tool[t].todo
        <5>1. Sound(p) /\ p # <<>> /\ q = p[1].fail /\ Running(t)
          BY <2>4, <3>2 DEF Base, Based, Back, Left, Raises
        <5>2. 1 \in Places(p)  BY <5>1, OpIs
        <5> HIDE DEF p
        <5>3. Falls3(q)  BY <5>1, <5>2 DEF Sound
        <5> QED  BY <5>3, FailSound, RelocksQuiet
      <4>2. CASE hurt'  BY <4>1, <4>2 DEF Minded
      <4>3. CASE ~hurt'  BY <2>1, <3>2, <4>1, <4>3, MindedBack
      <4> QED  BY <4>2, <4>3
    <3>3. CASE (Exits(t) \/ Killed(t)) /\ Gone(t)
      <4>1. servo' = servo /\ q = <<>>  BY <2>4, <3>3 DEF Gone, Idle
      <4>2. Relocks(t, q)'  BY <4>1, NoneToDo DEF Relocks
      <4>3. CASE Killed(t)
        <5>1. hurt' = TRUE  BY <4>3 DEF Killed
        <5> QED  BY <4>2, <5>1 DEF Minded
      <4>4. CASE Exits(t)
        <5>1. tool[t].todo = <<>> /\ hurt' = hurt  BY <4>4 DEF Exits, Running
        <5>2. \A i, b : ~Pledge(t, tool[t].todo, i, b)  BY <2>5, <5>1, NoPledge
        <5>3. Minded'  BY <2>1, <4>1, <5>1, <5>2, MindedElse
        <5> QED  BY <4>2, <5>3
      <4> QED  BY <3>3, <4>3, <4>4
    <3>4. CASE \E n : Sound(n) /\ Anew(t, n)
      <4>1. PICK n : Anew(t, n)  BY <3>4
      <4>2. servo' = servo /\ hurt' = hurt /\ q = n /\ tool[t].todo[1].do \in {"plan", "scan"}
        BY <2>4, <4>1 DEF Anew, Left
      <4>3. Relocks(t, n)'  BY <4>1, RelocksAnew
      <4>4. \A i, b : ~Pledge(t, tool[t].todo, i, b)  BY <2>5, <4>2, NoPledge
      <4>5. Minded'  BY <2>1, <4>2, <4>4, MindedElse
      <4> QED  BY <4>2, <4>3, <4>5
    <3>5. CASE \E n, name, new, to : Started(t, n, name, new, to)
      <4>1. PICK n, name, new, to : Started(t, n, name, new, to)  BY <3>5
      <4>2. servo' = servo /\ hurt' = hurt /\ q = n /\ tool[t].todo = <<>>  BY <2>4, <4>1 DEF Started
      <4>3. Relocks(t, n)'  BY <4>1, RelocksBegun
      <4>4. \A i, b : ~Pledge(t, tool[t].todo, i, b)  BY <2>5, <4>2, NoPledge
      <4>5. Minded'  BY <2>1, <4>2, <4>4, MindedElse
      <4> QED  BY <4>2, <4>3, <4>5
    <3> QED  BY <2>1, <3>1, <3>2, <3>3, <3>4, <3>5
  <2>7. \A u \in Terminals : Relocks(u, tool[u].todo)'
    <3>1. Relocks(t, tool[t].todo)'  BY <2>4, <2>6
    <3> QED  BY <2>3, <3>1
  <2> QED  BY <2>6, <2>7 DEF LockInv
<1> QED  BY <1>1, <1>2

LEMMA LockInvInit ==
  ASSUME Init
  PROVE  LockInv
<1>1. \A t \in Terminals : tool[t].todo = <<>>  BY DEF Init, Idle
<1>2. \A t \in Terminals : Relocks(t, tool[t].todo)  BY <1>1, NoneToDo DEF Relocks
<1>3. Minded  BY DEF Init, New, Minded
<1> QED  BY <1>2, <1>3 DEF LockInv

LEMMA LeftLockedHolds ==
  ASSUME Base, LockInv
  PROVE  LeftLocked
<1>1. ASSUME ~hurt, \A t \in Terminals : Free(t), NEW s \in DOMAIN servo, servo[s].torque, ~servo[s].lock
      PROVE  FALSE
  <2>1. PICK t \in Terminals : Promises(t, s)  BY <1>1 DEF LockInv, Minded
  <2>2. IsTool(tool[t]) /\ tool[t].name = "none"  BY <1>1 DEF Base, Shaped, Free
  <2>3. tool[t].todo = <<>> /\ Sound(tool[t].todo)  BY <2>2 DEF IsTool, Base, Based
  <2> QED  BY <2>1, <2>3, NoPledge DEF Promises
<1> QED  BY <1>1 DEF LeftLocked

\* A motor that is powered while no tool runs has its configuration locked,
\* as long as nothing was killed, cut short or lost on the lock itself: what is
\* unlocked is off, or some tool's program still has the lock ahead of it.
THEOREM AlwaysLeftLocked == Spec => []LeftLocked
<1>1. Base /\ LockInv => LeftLocked  BY LeftLockedHolds
<1>2. Init => Base /\ OnInv /\ LockInv  BY BaseInit, OnInvInit, LockInvInit
<1>3. Base /\ OnInv /\ LockInv /\ [Next]_vars => Base' /\ OnInv' /\ LockInv'
  BY BaseNext, OnInvNext, LockInvNext
<1> QED  BY <1>1, <1>2, <1>3, PTL DEF Spec

----------------------------------------------------------------------------
(* A tool that says it is done has done it.                                *)

\* What 320 wants of a motor are settings.
LEMMA WantedIs ==
  ASSUME NEW i, NEW reg \in Wanted(i)
  PROVE  reg \in {"cap", "low", "high"} /\ reg \in Settings
BY DEF Wanted, Settings

\* 320 writes what differs, and nothing else has to be written.
LEMMA ChangesSet ==
  ASSUME NEW t, NEW i \in Ids, NEW reg \in Wanted(i)
  PROVE  (\A s \in Hear(t, i) : servo[s][reg]) \/ \E j \in Int : SetsIn(Changes(t, i), j, i, reg)
<1> DEFINE C == <<"cap">>
           L == <<"low", "high">>
           f == Close
           a == IF Differs(t, i, "cap") THEN Unlocked(i, C, f) ELSE <<>>
           b == IF Differs(t, i, "low") \/ Differs(t, i, "high") THEN Unlocked(i, L, f) ELSE <<>>
           c == Changes(t, i)
<1>1. c = a \o b  BY DEF Changes
<1>2. /\ IsProg(C) /\ Len(C) = 1 /\ C[1] = "cap" /\ \A k \in 1 .. Len(C) : C[k] \in Settings
      /\ IsProg(L) /\ Len(L) = 2 /\ L[1] = "low" /\ L[2] = "high" /\ \A k \in 1 .. Len(L) : L[k] \in Settings
  BY SettingSeqs
<1> HIDE DEF C, L, f, c
<1>3. UnlockedWell(Unlocked(i, C, f), i, C, f) /\ UnlockedWell(Unlocked(i, L, f), i, L, f)
  BY <1>2, UnlockedIs
<1>4. IsProg(Unlocked(i, C, f)) /\ IsProg(Unlocked(i, L, f)) /\ IsProg(<<>>)
  BY <1>3, NoneToDo DEF UnlockedWell
<1>5. IsProg(a) /\ IsProg(b)  BY <1>4
<1>6. Differs(t, i, "cap") => UnlockedWell(a, i, C, f)  BY <1>3
<1>7. Differs(t, i, "low") \/ Differs(t, i, "high") => UnlockedWell(b, i, L, f)  BY <1>3
<1> HIDE DEF a, b
<1>8. Block(c, 0, a) /\ Block(c, Len(a), b) /\ Len(a) \in Nat /\ 0 \in Nat
  BY <1>1, <1>5, Joined, Lengths
<1>9. (\A s \in Hear(t, i) : servo[s][reg]) \/ Differs(t, i, reg)  BY DEF Differs
<1>10. reg \in {"cap", "low", "high"}  BY WantedIs
<1>11. CASE reg = "cap" /\ Differs(t, i, "cap")
  <2>1. \A k \in 1 .. Len(C) : SetsIn(c, 0 + (k + 1), i, C[k])  BY <1>2, <1>6, <1>8, <1>11, UnlockedSets
  <2>2. 1 \in 1 .. Len(C) /\ 0 + (1 + 1) \in Int  BY <1>2
  <2>3. SetsIn(c, 0 + (1 + 1), i, C[1])  BY <2>1, <2>2
  <2> QED  BY <1>2, <1>11, <2>2, <2>3 DEF c
<1>12. CASE reg # "cap" /\ Differs(t, i, reg)
  <2>1. UnlockedWell(b, i, L, f)  BY <1>7, <1>10, <1>12
  <2>2. \A k \in 1 .. Len(L) : SetsIn(c, Len(a) + (k + 1), i, L[k])  BY <1>2, <1>8, <2>1, UnlockedSets
  <2>3. \E k \in 1 .. Len(L) : L[k] = reg /\ Len(a) + (k + 1) \in Int  BY <1>2, <1>8, <1>10, <1>12
  <2> QED  BY <2>2, <2>3 DEF c
<1> QED  BY <1>9, <1>10, <1>11, <1>12

LEMMA AllChangesSet ==
  ASSUME NEW t, NEW x \in DOMAIN Arm, NEW reg \in Wanted(Arm[x])
  PROVE  \/ \A s \in Hear(t, Arm[x]) : servo[s][reg]
         \/ \E j \in Int : SetsIn(AllChanges(t), j, Arm[x], reg)
<1> DEFINE s == [k \in DOMAIN Arm |-> Changes(t, Arm[k])]
           f == AllChanges(t)
<1>1. f = FlattenSeq(s)  BY AllChangesPart
<1>2. /\ \A k \in DOMAIN Arm : s[k] = Changes(t, Arm[k])
      /\ s = [k \in DOMAIN Arm |-> s[k]]
  OBVIOUS
<1> HIDE DEF s, f
<1>3. /\ IsProg(s) /\ s # <<>> /\ Places(s) = DOMAIN Arm
      /\ \A k \in DOMAIN Arm : Arm[k] \in Ids
  BY <1>2, IdsAre, EachIs
<1>4. \A k \in Places(s) : IsProg(s[k])  BY <1>2, <1>3, ChangesPart DEF Part
<1>5. PICK o \in Nat : Block(f, o, s[x])  BY <1>1, <1>3, <1>4, Flattened
<1>6. ASSUME NEW j \in Int, SetsIn(s[x], j, Arm[x], reg) PROVE SetsIn(f, o + j, Arm[x], reg) /\ o + j \in Int
  BY <1>3, <1>4, <1>5, <1>6, SetsInBlock
<1>7. \/ \A m \in Hear(t, Arm[x]) : servo[m][reg]
      \/ \E j \in Int : SetsIn(s[x], j, Arm[x], reg)
  BY <1>2, <1>3, ChangesSet
<1> QED  BY <1>6, <1>7 DEF f

LEMMA TruthfulNone ==
  ASSUME NEW t, NEW q, \A k \in Places(q) : q[k].do # "done"
  PROVE  Truthful(t, q) /\ Truthful(t, q)'
BY DEF Truthful

LEMMA PersistsAnew ==
  ASSUME NEW t, NEW q, Anew(t, q), PlanWell(q, AllChanges(t)), \A k \in DOMAIN Arm : Hear(t, Arm[k]) # {},
         NEW d \in Places(q), q[d].do = "done"
  PROVE  Persists(t, q, d)'
<1>1. PICK f : f = AllChanges(t)  OBVIOUS
<1>2. /\ PlanWell(q, f) /\ Part(f, {"set"}, Fails(Close)) /\ Block(q, 0, f)
      /\ IsProg(f) /\ Len(f) \in Nat /\ Places(f) = 1 .. Len(f)
  BY <1>1, Lengths DEF PlanWell, Part, Places
<1>3. d = Len(f) + 1 /\ 1 .. d - 1 = Places(f)
  <2>1. d = Len(f) + 1  BY <1>2 DEF PlanWell, Part, PartAt
  <2> QED  BY <1>2, <2>1
<1>4. /\ holder' = holder /\ holder = t /\ servo' = servo /\ tool'[t].speed = tool[t].speed
      /\ \A i : Hear(t, i)' = Hear(t, i)
  BY DEF Anew, Left, Hear
<1>5. \A j \in Places(f) : q[j] = f[j] /\ j \in Places(q)
  <2>1. ASSUME NEW j \in Places(f) PROVE 0 + j = j  BY <1>2
  <2> QED  BY <1>2, <2>1 DEF Block
<1>6. ASSUME NEW j \in 1 .. d - 1 PROVE q[j].do = "write" /\ q[j].reg \notin {"id", "baud"}
  <2>1. j \in Places(f) /\ q[j] = f[j]  BY <1>3, <1>5
  <2>2. PartAt(f, j, {"set"}, Fails(Close))  BY <1>2, <2>1 DEF Part
  <2> QED  BY <2>1, <2>2 DEF PartAt, Settings
<1>7. ASSUME NEW x \in DOMAIN Arm, NEW reg \in Wanted(Arm[x]) PROVE Due(t, q, d, Arm[x], reg)'
  <2>1. CASE \A s \in Hear(t, Arm[x]) : servo[s][reg]
    <3>1. Has(t, Arm[x], reg)'  BY <1>4, <2>1 DEF Has
    <3> QED  BY <3>1 DEF Due
  <2>2. CASE \E j \in Int : SetsIn(f, j, Arm[x], reg)
    <3>1. PICK j \in Int : SetsIn(f, j, Arm[x], reg)  BY <2>2
    <3>2. SetsIn(q, 0 + j, Arm[x], reg) /\ 0 + j = j  BY <1>2, <3>1, SetsInBlock
    <3>3. SetsIn(q, j, Arm[x], reg)  BY <3>2
    <3>4. j \in 1 .. d - 1  BY <1>3, <3>1 DEF SetsIn, IsWrite
    <3>5. Sets(t, q, j, Arm[x], reg)'
      <4>1. PICK m \in 1 .. j - 1 : LocksOff(q, m, Arm[x]) /\ \A l \in m + 1 .. j - 1 : IsSetting(q, l)
        BY <3>3 DEF SetsIn
      <4>2. m \in 0 .. j - 1 /\ m # 0  OBVIOUS
      <4>3. IsWrite(q, j, Arm[x], reg, TRUE)  BY <3>3 DEF SetsIn
      <4> QED  BY <4>1, <4>2, <4>3 DEF Sets
    <3> QED  BY <3>4, <3>5 DEF Due
  <2> QED  BY <1>1, <2>1, <2>2, AllChangesSet
<1>8. \A i : Wanted(i)' = Wanted(i)  BY DEF Wanted
<1> QED  BY <1>4, <1>6, <1>7, <1>8 DEF Persists

\* What holds of a program by itself.
LEMMA ArrivesStatic ==
  ASSUME NEW t, NEW q, NEW new, NEW at, NEW to, Renamer(q, new, at, to),
         tool'[t].new = new, tool'[t].to = to, tool'[t].speed = at, NEW d \in Places(q), q[d].do = "done"
  PROVE  Arrives(t, q, d)'
<1>1. /\ \A j \in 1 .. d - 1 : q[j].do = "open" => q[j].val = to
      /\ at = to \/ \E j \in 1 .. d - 3 : IsDo(q, j, "open")
      /\ d > 3 /\ IsDo(q, d - 1, "ping") /\ q[d - 1].id = new /\ q[d - 1].val = TRUE
      /\ LocksOn(q, d - 2, new)
  BY DEF Renamer
<1>2. d # 1 /\ ~(d < 3)  BY <1>1 DEF Places
<1> QED  BY <1>1, <1>2 DEF Arrives

LEMMA TruthfulAnew ==
  ASSUME NEW t, NEW q, Anew(t, q)
  PROVE  Truthful(t, q)'
<1>1. CASE q = Close
  BY <1>1, CloseFalls, FailSound, TruthfulNone
<1>2. CASE /\ tool[t].name = "persist" /\ PlanWell(q, AllChanges(t))
           /\ \A k \in DOMAIN Arm : Hear(t, Arm[k]) # {}
  <2>1. tool'[t].name = "persist"  BY <1>2 DEF Anew, Left
  <2> QED  BY <1>2, <2>1, PersistsAnew DEF Truthful
<1>3. CASE tool[t].name = "setup" /\ Renamer(q, tool[t].new, tool[t].speed, tool[t].to)
  <2>1. /\ Renaming(t)'
        /\ tool'[t].new = tool[t].new /\ tool'[t].to = tool[t].to /\ tool'[t].speed = tool[t].speed
    BY <1>3 DEF Anew, Left, Renaming
  <2>2. \A d \in Places(q) : q[d].do = "done" => Arrives(t, q, d)'  BY <1>3, <2>1, ArrivesStatic
  <2> QED  BY <2>1, <2>2 DEF Truthful
<1> QED  BY <1>1, <1>2, <1>3 DEF Anew

LEMMA TruthfulBegun ==
  ASSUME NEW t, NEW q, NEW name, NEW new, NEW to, Started(t, q, name, new, to)
  PROVE  Truthful(t, q)'
<1>1. /\ tool'[t].name = name /\ tool'[t].new = new /\ tool'[t].to = to /\ tool'[t].speed = Speed
      /\ Tooled(q, name, new, to)
  BY DEF Started
<1>2. CASE Plain(q, Kinds) \/ Plain(q, {"open", "plan", "close"})
  BY <1>2, TruthfulNone DEF Plain, Kinds
<1>3. CASE name = "set_id" /\ to = Speed /\ Renamer(q, new, Speed, Speed)
  <2>1. Renaming(t)'  BY <1>1, <1>3 DEF Renaming
  <2>2. \A d \in Places(q) : q[d].do = "done" => Arrives(t, q, d)'  BY <1>1, <1>3, ArrivesStatic
  <2> QED  BY <2>1, <2>2 DEF Truthful
<1>4. CASE \A k \in Places(q) : q[k].do \in {"open", "scan"}
  BY <1>4, TruthfulNone
<1> QED  BY <1>1, <1>2, <1>3, <1>4 DEF Tooled

LEMMA DueApart ==
  ASSUME NEW t, Apart(t), NEW u \in Terminals \ {t}, NEW p, NEW d, NEW i, NEW reg, Due(u, p, d, i, reg)
  PROVE  Due(u, p, d, i, reg)'
<1>1. ASSUME NEW j, Sets(u, p, j, i, reg) PROVE Sets(u, p, j, i, reg)'
  BY <1>1, HasApart DEF Sets
<1> QED  BY <1>1, HasApart DEF Due

LEMMA TruthfulApart ==
  ASSUME NEW t, Apart(t), NEW u \in Terminals \ {t}, NEW p, Truthful(u, p)
  PROVE  Truthful(u, p)'
<1>1. tool'[u] = tool[u]  BY DEF Apart
<1>2. ASSUME holder = u PROVE holder' = u /\ \A i : Hear(u, i)' = Hear(u, i)
  BY <1>2 DEF Apart, Hear
<1>3. ASSUME NEW d \in Places(p), p[d].do = "done"
      PROVE  \/ tool'[u].name = "persist" /\ Persists(u, p, d)'
             \/ Renaming(u)' /\ Arrives(u, p, d)'
  <2>1. CASE tool[u].name = "persist" /\ Persists(u, p, d)
    <3>1. Persists(u, p, d)'  BY <1>2, <2>1, DueApart DEF Persists
    <3> QED  BY <1>1, <2>1, <3>1
  <2>2. CASE Renaming(u) /\ Arrives(u, p, d)
    <3>1. Arrives(u, p, d)'  BY <1>1, <1>2, <2>2, HasApart DEF Arrives
    <3>2. Renaming(u)'  BY <1>1, <2>2 DEF Renaming
    <3> QED  BY <3>1, <3>2
  <2> QED  BY <1>3, <2>1, <2>2 DEF Truthful
<1> QED  BY <1>3 DEF Truthful

LEMMA PersistsForth ==
  ASSUME NEW t, NEW p, NEW q, p = tool[t].todo, IsTail(p, q), 1 \in Places(p), Forth(t), Effect(t, p[1]),
         NEW n \in Places(p), n # 1, Persists(t, p, n)
  PROVE  Persists(t, q, n - 1)'
<1>1. n \in Nat \ {0, 1} /\ n \in 1 .. Len(p) /\ Places(p) = 1 .. Len(p)  BY PlacesAre
<1>2. 1 \in 1 .. n - 1  BY <1>1
<1>3. p[1].do = "write" /\ p[1].reg \notin {"id", "baud"}  BY <1>2 DEF Persists
<1>4. Stepping(t, p)  BY <1>3, SteppingIs
<1>5. Writing(t, p[1])  BY <1>3, <1>4 DEF Stepping
<1>6. holder' = t  BY <1>5 DEF Writing
<1>7. ASSUME NEW j \in 1 .. (n - 1) - 1 PROVE q[j].do = "write" /\ q[j].reg \notin {"id", "baud"}
  <2>1. j + 1 \in 1 .. n - 1 /\ j + 1 # 1 /\ (j + 1) - 1 = j /\ j + 1 \in Places(p)  BY <1>1
  <2>2. p[j + 1].do = "write" /\ p[j + 1].reg \notin {"id", "baud"}  BY <2>1 DEF Persists
  <2>3. q[j] = p[j + 1]  BY <2>1 DEF IsTail
  <2> QED  BY <2>2, <2>3
<1>8. ASSUME NEW k \in DOMAIN Arm
      PROVE  Hear(t, Arm[k])' # {} /\ \A reg \in Wanted(Arm[k]) : Due(t, q, n - 1, Arm[k], reg)'
  <2>1. Hear(t, Arm[k])' = Hear(t, Arm[k])  BY <1>5, HearsOn
  <2>2. ASSUME NEW reg \in Wanted(Arm[k]) PROVE Due(t, q, n - 1, Arm[k], reg)'
    <3>1. reg \in Settings  BY WantedIs
    <3>2. Due(t, p, n, Arm[k], reg)  BY DEF Persists
    <3>3. PICK i : i = Arm[k]  OBVIOUS
    <3>4. Due(t, q, n - 1, i, reg)'  BY <1>4, <1>1, <3>1, <3>2, <3>3, DueStep
    <3> QED  BY <3>3, <3>4
  <2> QED  BY <2>1, <2>2 DEF Persists
<1>9. \A i : Wanted(i)' = Wanted(i)  BY DEF Wanted
<1> QED  BY <1>6, <1>7, <1>8, <1>9 DEF Persists

LEMMA ArrivesForth ==
  ASSUME NEW t, NEW p, NEW q, p = tool[t].todo, IsTail(p, q), 1 \in Places(p), Forth(t), Effect(t, p[1]),
         NEW n \in Places(p), n # 1, Arrives(t, p, n)
  PROVE  Arrives(t, q, n - 1)'
<1> DEFINE new == tool[t].new
           to == tool[t].to
<1>1. /\ tool'[t].new = new /\ tool'[t].to = to
      /\ tool'[t].speed = IF p[1].do = "open" THEN p[1].val ELSE tool[t].speed
      /\ p[1].do # "close" => holder' = t
  BY DEF Forth
<1>2. n \in Nat /\ n > 1 /\ n - 1 \in Nat  BY PlacesAre
<1>3. n \in 1 .. Len(p) /\ Len(q) = Len(p) - 1 /\ Places(q) = 1 .. Len(q) /\ Len(p) \in Nat
  BY PlacesAre DEF IsTail
<1>4. /\ \A j \in 1 .. n - 1 : p[j].do = "open" => p[j].val = to
      /\ tool[t].speed = to \/ \E j \in 1 .. n - 3 : IsDo(p, j, "open")
      /\ IsDo(p, n - 1, "ping") /\ p[n - 1].id = new /\ p[n - 1].val = TRUE
      /\ IF n < 3 THEN Has(t, new, "lock") ELSE LocksOn(p, n - 2, new)
  BY <1>2 DEF Arrives
<1> HIDE DEF new, to
<1>5. ASSUME NEW j \in 1 .. (n - 1) - 1, q[j].do = "open" PROVE q[j].val = to
  <2>1. j + 1 \in 1 .. n - 1 /\ j \in Places(q)  BY <1>2, <1>3
  <2>2. q[j] = p[j + 1]  BY <2>1 DEF IsTail
  <2> QED  BY <1>4, <1>5, <2>1, <2>2
<1>6. tool'[t].speed = to \/ \E j \in 1 .. (n - 1) - 3 : IsDo(q, j, "open")
  <2>1. CASE p[1].do = "open"
    <3>1. 1 \in 1 .. n - 1  BY <1>2
    <3> QED  BY <1>1, <1>4, <2>1, <3>1
  <2>2. CASE p[1].do # "open" /\ tool[t].speed = to  BY <1>1, <2>2
  <2>3. CASE p[1].do # "open" /\ \E j \in 1 .. n - 3 : IsDo(p, j, "open")
    <3>1. PICK j \in 1 .. n - 3 : IsDo(p, j, "open")  BY <2>3
    <3>2. j # 1  BY <2>3, <3>1 DEF IsDo
    <3>3. j \in Nat /\ j > 1 /\ j - 1 \in 1 .. (n - 1) - 3  BY <1>2, <3>2
    <3>4. IsDo(q, j - 1, "open")  BY <3>1, <3>3, DoForth
    <3> QED  BY <3>3, <3>4
  <2> QED  BY <1>4, <2>1, <2>2, <2>3
<1>7. IF n - 1 = 1 THEN holder' = t /\ Hear(t, new)' # {}
      ELSE IsDo(q, (n - 1) - 1, "ping") /\ q[(n - 1) - 1].id = new /\ q[(n - 1) - 1].val = TRUE
  <2>1. CASE n - 1 = 1
    <3>1. p[1].do = "ping" /\ p[1].id = new /\ p[1].val = TRUE  BY <1>4, <2>1 DEF IsDo
    <3>2. servo' = servo /\ Hear(t, new) # {}  BY <3>1 DEF Effect
    <3>3. tool'[t].speed = tool[t].speed /\ holder' = t  BY <1>1, <3>1
    <3>4. Hear(t, new)' = Hear(t, new)  BY <1>1, <3>2, <3>3 DEF Hear, new
    <3> QED  BY <2>1, <3>2, <3>3, <3>4
  <2>2. CASE n - 1 # 1
    <3>1. n - 1 > 1 /\ n - 1 \in Places(p)  BY <1>2, <1>4, <2>2 DEF IsDo
    <3>2. IsDo(q, (n - 1) - 1, "ping")  BY <1>2, <1>4, <3>1, DoForth
    <3>3. q[(n - 1) - 1] = p[n - 1]  BY <3>1 DEF IsTail
    <3> QED  BY <1>4, <2>2, <3>2, <3>3
  <2> QED  BY <2>1, <2>2
<1>8. IF n - 1 < 3 THEN Has(t, new, "lock")' ELSE LocksOn(q, (n - 1) - 2, new)
  <2>1. CASE n < 3
    <3>1. n - 1 = 1  BY <1>2, <2>1
    <3>2. p[1].do = "ping" /\ Has(t, new, "lock")  BY <1>4, <2>1, <3>1 DEF IsDo
    <3>3. servo' = servo /\ holder = t /\ holder' = t /\ tool'[t].speed = tool[t].speed
      BY <1>1, <3>2 DEF Effect
    <3>4. PICK i : i = new  OBVIOUS
    <3>5. Has(t, i, "lock")  BY <3>2, <3>4
    <3>6. Has(t, i, "lock")' = Has(t, i, "lock")  BY <3>3, SameHas
    <3>7. i = tool'[t].new  BY <1>1, <3>4 DEF new
    <3>8. Has(t, new, "lock")'  BY <3>5, <3>6, <3>7 DEF new
    <3> QED  BY <3>1, <3>8
  <2>2. CASE n = 3
    <3>1. LocksOn(p, 1, new)  BY <1>4, <2>2
    <3>2. PICK i : i = new  OBVIOUS
    <3>3. p[1].do = "write" /\ p[1].id = i /\ p[1].reg = "lock" /\ p[1].val = TRUE
      BY <3>1, <3>2 DEF LocksOn, IsWrite
    <3>4. Stepping(t, p)  BY <3>3, SteppingIs
    <3>5. Writing(t, p[1]) /\ "lock" \notin Eprom  BY <3>3, <3>4 DEF Stepping, Eprom
    <3>6. Has(t, i, "lock")'  BY <3>3, <3>5, HasNow
    <3>7. i = tool'[t].new  BY <1>1, <3>2 DEF new
    <3>8. Has(t, new, "lock")'  BY <3>6, <3>7 DEF new
    <3> QED  BY <2>2, <3>8
  <2>3. CASE n > 3
    <3>1. LocksOn(p, n - 2, new) /\ n - 2 # 1 /\ (n - 1) - 2 = (n - 2) - 1 /\ ~(n - 1 < 3)  BY <1>2, <1>4, <2>3
    <3>2. LocksOn(q, (n - 2) - 1, new)  BY <3>1, WriteForth DEF LocksOn
    <3> QED  BY <3>1, <3>2
  <2> QED  BY <1>2, <2>1, <2>2, <2>3
<1>9. new = tool'[t].new /\ to = tool'[t].to  BY <1>1
<1> QED  BY <1>5, <1>6, <1>7, <1>8, <1>9 DEF Arrives, new, to

LEMMA TruthfulForth ==
  ASSUME Base, NEW t \in Terminals, Forth(t), Effect(t, tool[t].todo[1]), Truthful(t, tool[t].todo),
         NEW q, q = tool'[t].todo
  PROVE  Truthful(t, q)'
<1> DEFINE p == tool[t].todo
<1>1. /\ Sound(p) /\ p # <<>> /\ q = Tail(p) /\ Effect(t, p[1]) /\ Truthful(t, p)
      /\ tool'[t].name = tool[t].name /\ Renaming(t)' = Renaming(t)
  BY DEF Base, Based, Forth, Renaming
<1>2. p = tool[t].todo  OBVIOUS
<1> HIDE DEF p
<1>3. IsTail(p, q) /\ 1 \in Places(p)  BY <1>1, Shifted DEF Sound
<1>4. ASSUME NEW k \in Places(q), q[k].do = "done"
      PROVE  \/ tool'[t].name = "persist" /\ Persists(t, q, k)'
             \/ Renaming(t)' /\ Arrives(t, q, k)'
  <2>1. PICK n : n = k + 1  OBVIOUS
  <2>2. n \in Places(p) /\ q[k] = p[n] /\ n \in Nat \ {0, 1} /\ n - 1 = k /\ n # 1
    BY <1>3, <2>1, PlacesAre DEF IsTail
  <2>3. CASE tool[t].name = "persist" /\ Persists(t, p, n)
    <3>1. Persists(t, q, n - 1)'  BY <1>1, <1>2, <1>3, <2>2, <2>3, PersistsForth
    <3> QED  BY <1>1, <2>2, <2>3, <3>1
  <2>4. CASE Renaming(t) /\ Arrives(t, p, n)
    <3>1. Arrives(t, q, n - 1)'  BY <1>1, <1>2, <1>3, <2>2, <2>4, ArrivesForth
    <3> QED  BY <1>1, <2>2, <2>4, <3>1
  <2> QED  BY <1>1, <1>4, <2>2, <2>3, <2>4 DEF Truthful
<1> QED  BY <1>4 DEF Truthful

LEMMA DoneInvNext ==
  ASSUME Base, DoneInv, [Next]_vars
  PROVE  DoneInv'
<1>1. CASE UNCHANGED vars
  <2>1. ASSUME NEW u \in Terminals PROVE Truthful(u, tool[u].todo)'
    <3>1. PICK p : p = tool[u].todo  OBVIOUS
    <3>2. Truthful(u, p)  BY <3>1 DEF DoneInv
    <3>3. Truthful(u, p)'  BY <1>1, <3>2, StillApart, TruthfulApart
    <3>4. p = tool'[u].todo  BY <1>1, <3>1 DEF vars
    <3> QED  BY <3>3, <3>4
  <2> QED  BY <2>1 DEF DoneInv
<1>2. CASE ~UNCHANGED vars
  <2>1. PICK t \in Terminals :
           /\ Apart(t)
           /\ \/ Goes1(t) /\ Forth(t)
              \/ Raises(t) /\ Back(t)
              \/ (Exits(t) \/ Killed(t)) /\ Gone(t)
              \/ \E q : Sound(q) /\ Anew(t, q)
              \/ \E q, name, new, to : Started(t, q, name, new, to)
    BY <1>2, Steps
  <2>2. \A u \in Terminals : Truthful(u, tool[u].todo)  BY DEF DoneInv
  <2>3. ASSUME NEW u \in Terminals \ {t} PROVE Truthful(u, tool[u].todo)'
    <3>1. Truthful(u, tool[u].todo) /\ tool'[u] = tool[u]  BY <2>1, <2>2 DEF Apart
    <3>2. PICK p : p = tool[u].todo  OBVIOUS
    <3>3. p = tool'[u].todo /\ Truthful(u, p)  BY <3>1, <3>2
    <3>4. Truthful(u, p)'  BY <2>1, <3>3, TruthfulApart
    <3> QED  BY <3>3, <3>4
  <2>4. PICK q : q = tool'[t].todo  OBVIOUS
  <2>5. Truthful(t, q)'
    <3>1. CASE Goes1(t) /\ Forth(t)
      <4>1. Effect(t, tool[t].todo[1])  BY <3>1, EffectIs
      <4> QED  BY <2>2, <2>4, <3>1, <4>1, TruthfulForth
    <3>2. CASE Raises(t) /\ Back(t)
      <4> DEFINE p == tool[t].todo
      <4>1. Sound(p) /\ p # <<>> /\ q = p[1].fail /\ Running(t)
        BY <2>4, <3>2 DEF Base, Based, Back, Left, Raises
      <4>2. 1 \in Places(p)  BY <4>1, OpIs
      <4> HIDE DEF p
      <4>3. Falls3(q)  BY <4>1, <4>2 DEF Sound
      <4> QED  BY <4>3, FailSound, TruthfulNone
    <3>3. CASE Gone(t)
      <4>1. q = <<>>  BY <2>4, <3>3 DEF Gone, Idle
      <4> QED  BY <4>1, NoneToDo, TruthfulNone
    <3>4. CASE \E n : Sound(n) /\ Anew(t, n)
      <4>1. PICK n : Anew(t, n)  BY <3>4
      <4>2. q = n  BY <2>4, <4>1 DEF Anew, Left
      <4> QED  BY <4>1, <4>2, TruthfulAnew
    <3>5. CASE \E n, name, new, to : Started(t, n, name, new, to)
      <4>1. PICK n, name, new, to : Started(t, n, name, new, to)  BY <3>5
      <4>2. q = n  BY <2>4, <4>1 DEF Started
      <4> QED  BY <4>1, <4>2, TruthfulBegun
    <3> QED  BY <2>1, <3>1, <3>2, <3>3, <3>4, <3>5
  <2>6. \A u \in Terminals : Truthful(u, tool[u].todo)'
    <3>1. Truthful(t, tool[t].todo)'  BY <2>4, <2>5
    <3> QED  BY <2>3, <3>1
  <2> QED  BY <2>6 DEF DoneInv
<1> QED  BY <1>1, <1>2

LEMMA DoneInvInit ==
  ASSUME Init
  PROVE  DoneInv
<1>1. \A t \in Terminals : tool[t].todo = <<>>  BY DEF Init, Idle
<1> QED  BY <1>1, NoneToDo, TruthfulNone DEF DoneInv

\* What a tool that says it is done is about to leave behind.
LEMMA DoneIs ==
  ASSUME Base, DoneInv, NEW t \in Terminals, Does(t, "done")
  PROVE  IF tool[t].name = "persist"
         THEN \A k \in DOMAIN Arm : \E s \in Hear(t, Arm[k]) : \A reg \in Wanted(Arm[k]) : servo[s][reg]
         ELSE \E s \in Hear(t, tool[t].new) : servo[s].baud = tool[t].to /\ servo[s].lock
<1> DEFINE p == tool[t].todo
<1>1. Running(t) /\ Sound(p) /\ Truthful(t, p)  BY DEF Does, Base, Based, DoneInv
<1>2. 1 \in Places(p) /\ p[1].do = "done"  BY <1>1, OpIs
<1> HIDE DEF p
<1>3. \/ tool[t].name = "persist" /\ Persists(t, p, 1)
      \/ Renaming(t) /\ Arrives(t, p, 1)
  BY <1>1, <1>2 DEF Truthful
<1>4. CASE tool[t].name = "persist" /\ Persists(t, p, 1)
  <2>1. ASSUME NEW k \in DOMAIN Arm, NEW reg \in Wanted(Arm[k])
        PROVE  \A s \in Hear(t, Arm[k]) : servo[s][reg]
    <3>1. Due(t, p, 1, Arm[k], reg)  BY <1>4 DEF Persists
    <3>2. Has(t, Arm[k], reg)  BY <3>1 DEF Due
    <3> QED  BY <3>2 DEF Has
  <2>2. ASSUME NEW k \in DOMAIN Arm, NEW s \in Hear(t, Arm[k])
        PROVE  \A reg \in Wanted(Arm[k]) : servo[s][reg]
    BY <2>1
  <2>3. \A k \in DOMAIN Arm : Hear(t, Arm[k]) # {}  BY <1>4 DEF Persists
  <2> QED  BY <1>4, <2>2, <2>3
<1>5. CASE Renaming(t) /\ Arrives(t, p, 1)
  <2>1. tool[t].name # "persist"  BY <1>5 DEF Renaming
  <2>2. 1 .. 1 - 3 = {} /\ 1 < 3  OBVIOUS
  <2>3. tool[t].speed = tool[t].to /\ Hear(t, tool[t].new) # {} /\ Has(t, tool[t].new, "lock")
    BY <1>5, <2>2 DEF Arrives
  <2>4. PICK s : s \in Hear(t, tool[t].new)  BY <2>3
  <2>5. servo[s].baud = tool[t].to /\ servo[s].lock  BY <2>3, <2>4 DEF Hear, Has
  <2> QED  BY <2>1, <2>4, <2>5
<1> QED  BY <1>3, <1>4, <1>5

\* What a tool says when it is done is true: when 320 is through, every motor
\* of the arm has its cap and, if it is bounded, both limits, and when 120 or 121 is, there is a
\* motor with the new id, at the new baud rate, and locked.
THEOREM SuccessIsSet == Spec => SuccessMeansSet
<1> DEFINE Then(t) == IF tool[t].name = "persist"
                      THEN \A k \in DOMAIN Arm : \E s \in Hear(t, Arm[k]) : \A reg \in Wanted(Arm[k]) : servo[s][reg]
                      ELSE \E s \in Hear(t, tool[t].new) : servo[s].baud = tool[t].to /\ servo[s].lock
<1>1. ASSUME Base, DoneInv PROVE \A t \in Terminals : (Does(t, "done") /\ Works(t)) => Then(t)
  BY <1>1, DoneIs
<1>2. Init => Base /\ DoneInv  BY BaseInit, DoneInvInit
<1>3. Base /\ DoneInv /\ [Next]_vars => Base' /\ DoneInv'  BY BaseNext, DoneInvNext
<1>4. Base /\ DoneInv => [\A t \in Terminals : (Does(t, "done") /\ Works(t)) => Then(t)]_vars  BY <1>1
<1> QED  BY <1>2, <1>3, <1>4, PTL DEF Spec, SuccessMeansSet

----------------------------------------------------------------------------
(* The end of the demo.                                                    *)

LEMMA EachOne ==
  ASSUME NEW i \in Ids, NEW s, s = [k \in DOMAIN <<i>> |-> s[k]], IsProg(s[1])
  PROVE  FlattenSeq(s) = s[1]
<1>1. <<i>> \in Seq(Ids) /\ <<i>> # <<>> /\ DOMAIN <<i>> = {1}  BY IdsAre
<1>2. IsProg(s) /\ s # <<>> /\ Places(s) = {1}  BY <1>1, EachIs
<1>3. Len(s) = 1
  <2>1. Len(s) \in Nat /\ 1 .. Len(s) = {1}  BY <1>2, Lengths DEF Places
  <2>2. 1 \in 1 .. Len(s) /\ Len(s) \in 1 .. Len(s)  BY <2>1
  <2> QED  BY <2>1, <2>2
<1>4. PICK f : IsFlat(f, s, 1) /\ FlattenSeq(s) = f[1]  BY <1>2, <1>3, FlattenIs
<1> QED  BY <1>4 DEF IsFlat

\* What the demo does in the end, and behind an error.
LEMMA DisableOne ==
  ASSUME NEW i \in Ids, NEW d, d = Disable(<<i>>)
  PROVE  Len(d) = 3 /\ EndsOff(d, i)
<1> DEFINE s == [k \in DOMAIN <<i>> |-> Torque(<<i>>[k], FALSE, Close)]
           b == Torque(i, FALSE, Close)
           c == Op("close", None, None, None, <<>>)
<1>1. d = FlattenSeq(s) \o Close  BY DEF Disable, Each
<1>2. s[1] = b
  <2>1. 1 \in DOMAIN <<i>> /\ <<i>>[1] = i  OBVIOUS
  <2>2. s[1] = Torque(<<i>>[1], FALSE, Close)  BY <2>1
  <2> QED  BY <2>1, <2>2
<1>3. s = [k \in DOMAIN <<i>> |-> s[k]]  OBVIOUS
<1>4. /\ IsProg(b) /\ Len(b) = 2
      /\ b[1] = Write(i, "torque", FALSE, Close)
      /\ b[2] = Write(i, "lock", FALSE, Close)
  <2> DEFINE off == Write(i, "torque", FALSE, Close)
             lock == Write(i, "lock", FALSE, Close)
  <2>1. b = <<off>> \o <<lock>>  BY DEF Torque, Locks
  <2> HIDE DEF b, off, lock
  <2>2. IsProg(b) /\ Len(b) = 2 /\ b[1] = off /\ b[2] = lock  BY <2>1, Two
  <2> QED  BY <2>2 DEF off, lock
<1>5. Close = <<c>> /\ c.do = "close"  BY DEF Close, Step, Op
<1> HIDE DEF s, b, c
<1>6. FlattenSeq(s) = b  BY <1>2, <1>3, <1>4, EachOne
<1>7. Extends(d, b, 2, c)  BY <1>1, <1>4, <1>5, <1>6, Longer
<1>8. IsProg(d) /\ Len(d) = 3 /\ d[1] = b[1] /\ d[2] = b[2] /\ d[3] = c
  BY <1>7 DEF Extends
<1>9. d[1].do = "write" /\ d[1].id = i /\ d[1].reg = "torque" /\ d[1].val = FALSE /\ d[1].fail = Close
  BY <1>4, <1>8 DEF Write, Op
<1>10. d[2].do = "write" /\ d[2].id = i /\ d[2].reg = "lock" /\ d[2].val = FALSE /\ d[2].fail = Close
  BY <1>4, <1>8 DEF Write, Op
<1>11. Places(d) = 1 .. 3  BY <1>8 DEF Places
<1>12. PowersOff(d, 1, i) /\ LocksOff(d, 2, i) /\ IsDo(d, 3, "close")
  BY <1>5, <1>8, <1>9, <1>10, <1>11 DEF PowersOff, LocksOff, IsWrite, IsDo
<1>13. Len(d) - 2 = 1 /\ Len(d) - 1 = 2  BY <1>8
<1>14. PowersOff(d, Len(d) - 2, i) /\ LocksOff(d, Len(d) - 1, i) /\ IsDo(d, Len(d), "close")
  BY <1>8, <1>12, <1>13
<1>15. d[Len(d) - 2].fail = Close /\ d[Len(d) - 1].fail = Close /\ Len(d) > 2
  <2>1. \A n : (n = 1 \/ n = 2) => d[n].fail = Close  BY <1>9, <1>10
  <2>2. Len(d) > 2  BY <1>8
  <2> QED  BY <1>13, <2>1, <2>2
<1> QED  BY <1>8, <1>14, <1>15 DEF EndsOff

\* A program ends the way the one does that stands at its end.
LEMMA EndsBehind ==
  ASSUME NEW p, NEW a, NEW d, NEW i, IsProg(a), p = a \o d, Len(d) = 3, EndsOff(d, i)
  PROVE  EndsOff(p, i) /\ Len(p) - 3 = Len(a) /\ Block(p, 0, a)
<1>1. /\ IsProg(d) /\ PowersOff(d, 1, i) /\ LocksOff(d, 2, i) /\ IsDo(d, 3, "close")
      /\ d[1].fail = Close /\ d[2].fail = Close
  <2>1. Len(d) - 2 = 1 /\ Len(d) - 1 = 2  OBVIOUS
  <2> QED  BY <2>1 DEF EndsOff
<1>2. /\ IsProg(p) /\ Len(p) = Len(a) + 3 /\ Len(a) \in Nat
      /\ Block(p, 0, a) /\ Block(p, Len(a), d)
  BY <1>1, Joined, Lengths
<1>3. /\ Len(p) - 2 = Len(a) + 1 /\ Len(p) - 1 = Len(a) + 2 /\ Len(p) = Len(a) + 3
      /\ Len(p) > 2 /\ Len(p) - 3 = Len(a)
  BY <1>2
<1>4. 1 \in Places(d) /\ 2 \in Places(d) /\ 3 \in Places(d)  BY DEF Places
<1>5. /\ p[Len(a) + 1] = d[1] /\ p[Len(a) + 2] = d[2] /\ p[Len(a) + 3] = d[3]
      /\ Len(a) + 1 \in Places(p) /\ Len(a) + 2 \in Places(p) /\ Len(a) + 3 \in Places(p)
  BY <1>2, <1>4 DEF Block
<1>6. PowersOff(p, Len(a) + 1, i) /\ LocksOff(p, Len(a) + 2, i)
  BY <1>1, <1>5 DEF PowersOff, LocksOff, IsWrite
<1>7. IsDo(p, Len(a) + 3, "close")  BY <1>1, <1>5 DEF IsDo
<1> QED  BY <1>1, <1>2, <1>3, <1>6, <1>5, <1>7 DEF EndsOff

LEMMA RelockEnds ==
  ASSUME NEW i, NEW d, Len(d) = 3, EndsOff(d, i)
  PROVE  EndsOff1(Relock(i, d), i) /\ EndsOff1(d, i)
<1> DEFINE w == Write(i, "lock", TRUE, d)
           a == <<w>>
           p == Relock(i, d)
<1>1. p = a \o d  BY DEF Relock, Locks
<1>2. IsProg(a) /\ Len(a) = 1 /\ a[1] = w /\ w.fail = d  BY One DEF Write, Op
<1> HIDE DEF w, a, p
<1>3. EndsOff(p, i) /\ Len(p) - 3 = 1 /\ Block(p, 0, a)  BY <1>1, <1>2, EndsBehind
<1>4. p[1] = w
  <2>1. 1 \in Places(a) /\ 0 + 1 = 1  BY <1>2 DEF Places
  <2>2. p[0 + 1] = a[1]  BY <1>3, <2>1 DEF Block
  <2> QED  BY <1>2, <2>1, <2>2
<1>5. \A k \in 1 .. Len(p) - 3 : k = 1
  <2>1. \A n : n = 1 => \A k \in 1 .. n : k = 1  OBVIOUS
  <2> QED  BY <1>3, <2>1
<1>6. EndsOff1(p, i)  BY <1>2, <1>3, <1>4, <1>5 DEF EndsOff1
<1>7. 1 .. Len(d) - 3 = {}  OBVIOUS
<1> QED  BY <1>6, <1>7 DEF EndsOff1, p

LEMMA UnlockedOne ==
  ASSUME NEW i \in Ids, NEW regs \in {<<"prot">>, <<"cap">>}, NEW d, IsProg(d), NEW fails,
         d \in fails, Relock(i, d) \in fails,
         NEW s, s = [k \in DOMAIN <<i>> |-> Unlocked(<<i>>[k], regs, d)]
  PROVE  Part(FlattenSeq(s), {"set"}, fails)
<1> DEFINE u == Unlocked(i, regs, d)
<1>1. s[1] = u /\ s = [k \in DOMAIN <<i>> |-> s[k]]  OBVIOUS
<1>2. Part(u, {"set"}, fails)  BY SettingSeqs, UnlockedPart
<1> HIDE DEF u
<1>3. IsProg(u)  BY <1>2 DEF Part
<1>4. FlattenSeq(s) = u  BY <1>1, <1>3, EachOne
<1> QED  BY <1>2, <1>4

\* Whatever raises in the demo behind the connection, it switches its motor off.
LEMMA DemoSwitches ==
  ASSUME NEW i \in Ids
  PROVE  Switches(Demo(<<i>>), i)
<1> DEFINE ids == <<i>>
           d == Disable(ids)
           F == {<<>>, d, Relock(i, d)}
           x == Open(Speed, <<>>)
           s == Safety(ids, d)
           e == Enable(ids, d)
           w == Step("work", d)
           c == Each(ids, LAMBDA j : Unlocked(j, <<"cap">>, d))
           p == Demo(ids)
<1>1. p = (((x \o (s \o e)) \o w) \o c) \o d  BY DEF Demo, Energize
<1>2. Len(d) = 3 /\ EndsOff(d, i)  BY DisableOne
<1>3. IsProg(d) /\ EndsOff1(d, i) /\ EndsOff1(Relock(i, d), i)  BY <1>2, RelockEnds DEF EndsOff
<1>4. ids \in Seq(Ids) /\ ids # <<>>  BY IdsAre
<1>5. s = FlattenSeq([k \in DOMAIN <<i>> |-> Unlocked(<<i>>[k], <<"prot">>, d)])  BY DEF Safety, Each
<1>6. c = FlattenSeq([k \in DOMAIN <<i>> |-> Unlocked(<<i>>[k], <<"cap">>, d)])  BY DEF Each
<1> HIDE DEF d
<1>7. Part(s, {"set"}, F) /\ Part(c, {"set"}, F)
  <2>1. d \in F /\ Relock(i, d) \in F  OBVIOUS
  <2>2. Part(FlattenSeq([k \in DOMAIN <<i>> |-> Unlocked(<<i>>[k], <<"prot">>, d)]), {"set"}, F)
    BY <1>3, <2>1, UnlockedOne
  <2>3. Part(FlattenSeq([k \in DOMAIN <<i>> |-> Unlocked(<<i>>[k], <<"cap">>, d)]), {"set"}, F)
    BY <1>3, <2>1, UnlockedOne
  <2> HIDE DEF s, c, F
  <2> QED  BY <1>5, <1>6, <2>2, <2>3
<1>8. Part(e, {"on"}, F)
  <2>1. d \in F  OBVIOUS
  <2> HIDE DEF F, ids
  <2> QED  BY <1>4, <2>1, EnableIs
<1>9. Part(x, {"open"}, F) /\ Part(w, {"work"}, F)
  <2>1. d \in F /\ <<>> \in F  OBVIOUS
  <2> HIDE DEF F
  <2> QED  BY <2>1, OpenPart, StepPart
<1> HIDE DEF ids, s, e, w, c, x, p
<1> DEFINE a == ((x \o (s \o e)) \o w) \o c
<1>10. Part(a, {"open", "set", "work", "on"}, F)
  <2> HIDE DEF F
  <2>1. Part(s \o e, {"set", "on"}, F)  BY <1>7, <1>8, PartJoin
  <2>2. Part(x \o (s \o e), {"open", "set", "on"}, F)  BY <1>9, <2>1, PartJoin
  <2>3. Part((x \o (s \o e)) \o w, {"open", "set", "work", "on"}, F)  BY <1>9, <2>2, PartJoin
  <2> QED  BY <1>7, <2>3, PartJoin
<1>11. p = a \o d  BY <1>1
<1> HIDE DEF a
<1>12. EndsOff(p, i) /\ Len(p) - 3 = Len(a) /\ Block(p, 0, a)
  BY <1>2, <1>10, <1>11, EndsBehind DEF Part
<1>13. ASSUME NEW k \in 1 .. Len(p) - 3 PROVE p[k].fail = <<>> \/ EndsOff1(p[k].fail, i)
  <2>1. k \in Places(a) /\ 0 + k = k  BY <1>12 DEF Places
  <2>2. p[0 + k] = a[k] /\ PartAt(a, k, {"open", "set", "work", "on"}, F)
    BY <1>10, <1>12, <2>1 DEF Block, Part
  <2>3. p[k].fail \in F  BY <2>1, <2>2 DEF PartAt
  <2> QED  BY <1>3, <2>3
<1>14. Switches(p, i)  BY <1>12, <1>13 DEF Switches
<1> QED  BY <1>14 DEF p, ids

LEMMA SwitchesForth ==
  ASSUME NEW p, NEW q, IsTail(p, q), NEW i, Switches(p, i), Len(p) > 3
  PROVE  Switches(q, i)
<1> DEFINE n == Len(p)
<1>1. /\ n \in Nat /\ n > 3 /\ IsProg(q) /\ Len(q) = n - 1
      /\ Places(p) = 1 .. n /\ Places(q) = 1 .. Len(q)
      /\ \A k \in Places(p) : k # 1 => k - 1 \in Places(q) /\ q[k - 1] = p[k]
      /\ \A k \in Places(q) : k + 1 \in Places(p) /\ q[k] = p[k + 1]
  BY PlacesAre DEF IsTail
<1>2. /\ PowersOff(p, n - 2, i) /\ p[n - 2].fail = Close
      /\ LocksOff(p, n - 1, i) /\ p[n - 1].fail = Close
      /\ IsDo(p, n, "close")
      /\ \A k \in 1 .. n - 3 : p[k].fail = <<>> \/ EndsOff1(p[k].fail, i)
  BY DEF Switches, EndsOff
<1> HIDE DEF n
<1>3. /\ n - 2 # 1 /\ n - 1 # 1 /\ n > 1 /\ n - 2 \in 1 .. n /\ n - 1 \in 1 .. n
      /\ Len(q) = n - 1 /\ Len(q) > 2 /\ Len(q) - 2 = (n - 2) - 1 /\ Len(q) - 1 = (n - 1) - 1
  BY <1>1
<1>4. PowersOff(q, (n - 2) - 1, i)  BY <1>2, <1>3, WriteForth DEF PowersOff
<1>5. LocksOff(q, (n - 1) - 1, i)  BY <1>2, <1>3, WriteForth DEF LocksOff
<1>6. IsDo(q, n - 1, "close")  BY <1>1, <1>2, <1>3, DoForth
<1>7. q[(n - 2) - 1].fail = Close /\ q[(n - 1) - 1].fail = Close  BY <1>1, <1>2, <1>3
<1>8. EndsOff(q, i)  BY <1>1, <1>3, <1>4, <1>5, <1>6, <1>7 DEF EndsOff
<1>9. ASSUME NEW k \in 1 .. Len(q) - 3 PROVE q[k].fail = <<>> \/ EndsOff1(q[k].fail, i)
  <2>1. k \in Places(q) /\ k + 1 \in 1 .. n - 3  BY <1>1, <1>3
  <2> QED  BY <1>1, <1>2, <2>1
<1> QED  BY <1>8, <1>9 DEF Switches

LEMMA SwitchesNow ==
  ASSUME NEW t, NEW p, NEW q, p = tool[t].todo, IsTail(p, q), 1 \in Places(p), Forth(t), Effect(t, p[1]),
         NEW i, Switches(p, i), Len(p) = 3
  PROVE  Unlocks(t, q, i)'
<1>1. PowersOff(p, 1, i) /\ LocksOff(p, 2, i) /\ p[2].fail = Close /\ IsDo(p, 3, "close")
  <2>1. Len(p) - 2 = 1 /\ Len(p) - 1 = 2  OBVIOUS
  <2> QED  BY <2>1 DEF Switches, EndsOff
<1>2. p[1].do = "write" /\ p[1].id = i /\ p[1].reg = "torque" /\ p[1].val = FALSE
  BY <1>1 DEF PowersOff, IsWrite
<1>3. Stepping(t, p)  BY <1>2, SteppingIs
<1>4. Writing(t, p[1]) /\ "torque" \notin Eprom  BY <1>2, <1>3 DEF Stepping, Eprom
<1>5. Lacks(t, i, "torque")'  BY <1>2, <1>4, HasNow
<1>6. Len(q) = 2 /\ Places(q) = 1 .. 2 /\ q[1] = p[2] /\ q[2] = p[3]
  <2>1. Len(q) = 2  BY DEF IsTail
  <2>2. Places(q) = 1 .. 2  BY <2>1 DEF Places
  <2>3. 1 \in 1 .. 2 /\ 2 \in 1 .. 2  OBVIOUS
  <2>4. q[1] = p[1 + 1] /\ q[2] = p[2 + 1]  BY <2>3, <2>2 DEF IsTail
  <2> QED  BY <2>1, <2>4, <2>2
<1>7. LocksOff(q, 1, i) /\ q[1].fail = Close /\ IsDo(q, 2, "close")
  BY <1>1, <1>6 DEF LocksOff, IsWrite, IsDo
<1> QED  BY <1>5, <1>6, <1>7 DEF Unlocks

LEMMA ClosesThen == OnlyCloses(Close) /\ OnlyCloses(<<>>)
<1>1. Len(Close) = 1 /\ Close[1].do = "close"  BY One DEF Close, Step, Op
<1> HIDE DEF Close
<1>2. OnlyCloses(Close)  BY <1>1 DEF OnlyCloses, Places
<1> QED  BY <1>2, NoneToDo DEF OnlyCloses

LEMMA LimpForth ==
  ASSUME Base, NEW t \in Terminals, Forth(t), Effect(t, tool[t].todo[1]), LimpAtEnd(t, tool[t].todo),
         NEW q, q = tool'[t].todo
  PROVE  LimpAtEnd(t, q)'
<1>1. PICK p : p = tool[t].todo  OBVIOUS
<1>2. PICK i : i = tool[t].new  OBVIOUS
<1>3. /\ Sound(p) /\ p # <<>> /\ q = Tail(p) /\ Effect(t, p[1]) /\ LimpAtEnd(t, p)
      /\ tool'[t].name = tool[t].name /\ tool'[t].new = i
  BY <1>1, <1>2 DEF Base, Based, Forth
<1>4. IsTail(p, q) /\ 1 \in Places(p)  BY <1>3, Shifted DEF Sound
<1>5. ASSUME tool[t].name = "demo" PROVE Switches(q, i) \/ Unlocks(t, q, i)' \/ OnlyCloses(q)
  <2>1. Switches(p, i) \/ Unlocks(t, p, i) \/ OnlyCloses(p)  BY <1>2, <1>3, <1>5 DEF LimpAtEnd
  <2>2. Len(p) \in Nat /\ Len(q) = Len(p) - 1 /\ Places(q) = 1 .. Len(q)  BY <1>4, PlacesAre DEF IsTail
  <2>3. CASE Switches(p, i) /\ Len(p) > 3  BY <1>4, <2>3, SwitchesForth
  <2>4. CASE Switches(p, i) /\ Len(p) = 3  BY <1>1, <1>3, <1>4, <2>4, SwitchesNow
  <2>5. CASE Unlocks(t, p, i)
    <3>1. Len(q) = 1 /\ IsDo(p, 2, "close")  BY <2>2, <2>5 DEF Unlocks
    <3>2. IsDo(q, 2 - 1, "close")  BY <1>4, <3>1, DoForth
    <3>3. q[1].do = "close"  BY <3>2 DEF IsDo
    <3>4. \A n : n = 1 => \A k \in 1 .. n : k = 1  OBVIOUS
    <3>5. \A k \in Places(q) : k = 1  BY <2>2, <3>1, <3>4
    <3> QED  BY <3>1, <3>3, <3>5 DEF OnlyCloses
  <2>6. CASE OnlyCloses(p)
    <3>1. Len(q) < 1 /\ Len(q) < 2 /\ Places(q) = {}  BY <2>2, <2>6 DEF OnlyCloses
    <3> QED  BY <3>1 DEF OnlyCloses
  <2>7. Switches(p, i) => Len(p) > 2  BY DEF Switches, EndsOff
  <2>8. Len(p) > 2 => Len(p) = 3 \/ Len(p) > 3
    <3>1. \A n \in Nat : n > 2 => n = 3 \/ n > 3  OBVIOUS
    <3> QED  BY <2>2, <3>1
  <2>9. Switches(p, i) => Len(p) = 3 \/ Len(p) > 3  BY <2>7, <2>8
  <2> QED  BY <2>1, <2>3, <2>4, <2>5, <2>6, <2>9
<1> QED  BY <1>3, <1>5 DEF LimpAtEnd

\* Where the demo goes on behind an error.
LEMMA BackWhere ==
  ASSUME Base, NEW t \in Terminals, Back(t), LimpAtEnd(t, tool[t].todo), tool[t].name = "demo",
         NEW p, p = tool[t].todo, NEW i, i = tool[t].new, NEW q, q = tool'[t].todo
  PROVE  \/ PowersOff(p, 1, i) /\ q = Close
         \/ Unlocks(t, p, i) /\ q = Close
         \/ q = <<>>
         \/ Switches(q, i)
<1>1. Sound(p) /\ p # <<>> /\ p[1].do # "close" /\ q = p[1].fail
  BY DEF Base, Based, Back, Left
<1>2. 1 \in Places(p) /\ Len(p) \in Nat  BY <1>1, Tails DEF Sound, Places
<1>3. Switches(p, i) \/ Unlocks(t, p, i) \/ OnlyCloses(p)  BY DEF LimpAtEnd
<1>4. ~OnlyCloses(p)  BY <1>1, <1>2 DEF OnlyCloses
<1>5. CASE Unlocks(t, p, i)  BY <1>1, <1>5 DEF Unlocks
<1>6. CASE Switches(p, i) /\ Len(p) = 3
  <2>1. Len(p) - 2 = 1  BY <1>6
  <2> QED  BY <1>1, <1>6, <2>1 DEF Switches, EndsOff
<1>7. CASE Switches(p, i) /\ Len(p) > 3
  <2>1. 1 \in 1 .. Len(p) - 3  BY <1>2, <1>7
  <2>2. q = <<>> \/ EndsOff1(q, i)  BY <1>1, <1>7, <2>1 DEF Switches
  <2>3. ASSUME EndsOff1(q, i) PROVE Switches(q, i)
    <3>1. ASSUME NEW k \in 1 .. Len(q) - 3 PROVE EndsOff1(q[k].fail, i)
      <4>1. EndsOff(q[k].fail, i) /\ Len(q[k].fail) = 3  BY <2>3 DEF EndsOff1
      <4> QED  BY <4>1, RelockEnds
    <3> QED  BY <2>3, <3>1 DEF EndsOff1, Switches
  <2> QED  BY <2>2, <2>3
<1>8. Switches(p, i) => Len(p) > 2  BY DEF Switches, EndsOff
<1>9. Len(p) > 2 => Len(p) = 3 \/ Len(p) > 3
  <2>1. \A n \in Nat : n > 2 => n = 3 \/ n > 3  OBVIOUS
  <2> QED  BY <1>2, <2>1
<1>10. Switches(p, i) => Len(p) = 3 \/ Len(p) > 3  BY <1>8, <1>9
<1> QED  BY <1>3, <1>4, <1>5, <1>6, <1>7, <1>10

LEMMA LimpBack ==
  ASSUME Base, NEW t \in Terminals, Back(t), LimpAtEnd(t, tool[t].todo), NEW q, q = tool'[t].todo
  PROVE  LimpAtEnd(t, q)'
<1>1. PICK i : i = tool[t].new  OBVIOUS
<1>2. tool'[t].name = tool[t].name /\ tool'[t].new = i  BY <1>1 DEF Back, Left
<1>3. tool[t].name = "demo" => q = Close \/ q = <<>> \/ Switches(q, i)  BY <1>1, BackWhere
<1>4. tool[t].name = "demo" => OnlyCloses(q) \/ Switches(q, i)  BY <1>3, ClosesThen
<1> QED  BY <1>2, <1>4 DEF LimpAtEnd

LEMMA LimpApart ==
  ASSUME NEW t, Apart(t), NEW u \in Terminals \ {t}, NEW p, LimpAtEnd(u, p)
  PROVE  LimpAtEnd(u, p)'
<1>1. tool'[u] = tool[u]  BY DEF Apart
<1>2. PICK i : i = tool[u].new  OBVIOUS
<1>3. Unlocks(u, p, i) => Unlocks(u, p, i)'  BY HasApart DEF Unlocks
<1>4. tool'[u].name = tool[u].name /\ tool'[u].new = i  BY <1>1, <1>2
<1>5. tool[u].name = "demo" => Switches(p, i) \/ Unlocks(u, p, i) \/ OnlyCloses(p)
  BY <1>2 DEF LimpAtEnd
<1> QED  BY <1>3, <1>4, <1>5 DEF LimpAtEnd

LEMMA LimpElse ==
  ASSUME Base, NEW t \in Terminals
  PROVE  /\ Gone(t) => LimpAtEnd(t, tool[t].todo)'
         /\ \A q : Anew(t, q) => tool[t].name # "demo" /\ LimpAtEnd(t, tool[t].todo)'
         /\ \A q, name, new, to : Started(t, q, name, new, to) => LimpAtEnd(t, tool[t].todo)'
<1>1. ASSUME Gone(t) PROVE LimpAtEnd(t, tool[t].todo)'
  BY <1>1 DEF Gone, Idle, LimpAtEnd
<1>2. ASSUME NEW q, Anew(t, q) PROVE tool[t].name # "demo" /\ LimpAtEnd(t, tool[t].todo)'
  <2>1. PICK p : p = tool[t].todo  OBVIOUS
  <2>2. p[1].do \in {"plan", "scan"} /\ tool'[t].name = tool[t].name  BY <1>2, <2>1 DEF Anew, Left
  <2>3. /\ Sound(p)
        /\ \A k \in Places(p) : /\ p[k].do = "plan" => tool[t].name = "persist"
                                /\ p[k].do = "scan" => tool[t].name = "setup"
    BY <2>1 DEF Base, Based
  <2>4. p # <<>>  BY <1>2, <2>1 DEF Anew
  <2>5. 1 \in Places(p)  BY <2>3, <2>4, Tails DEF Sound, Places
  <2>6. tool[t].name # "demo"  BY <2>2, <2>3, <2>5
  <2> QED  BY <2>2, <2>6 DEF LimpAtEnd
<1>3. ASSUME NEW q, NEW name, NEW new, NEW to, Started(t, q, name, new, to) PROVE LimpAtEnd(t, tool[t].todo)'
  <2>1. tool'[t].name = name /\ tool'[t].todo = q /\ tool'[t].new = new /\ Tooled(q, name, new, to)
    BY <1>3 DEF Started
  <2>2. name = "demo" => new \in Ids /\ q = Demo(<<new>>)  BY <2>1 DEF Tooled
  <2>3. name = "demo" => Switches(q, new)  BY <2>2, DemoSwitches
  <2> QED  BY <2>1, <2>3 DEF LimpAtEnd
<1> QED  BY <1>1, <1>2, <1>3

LEMMA LimpInvNext ==
  ASSUME Base, LimpInv, [Next]_vars
  PROVE  LimpInv'
<1>1. CASE UNCHANGED vars
  <2>1. ASSUME NEW u \in Terminals PROVE LimpAtEnd(u, tool[u].todo)'
    <3>1. PICK p : p = tool[u].todo  OBVIOUS
    <3>2. LimpAtEnd(u, p)  BY <3>1 DEF LimpInv
    <3>3. LimpAtEnd(u, p)'  BY <1>1, <3>2, StillApart, LimpApart
    <3>4. p = tool'[u].todo  BY <1>1, <3>1 DEF vars
    <3> QED  BY <3>3, <3>4
  <2> QED  BY <2>1 DEF LimpInv
<1>2. CASE ~UNCHANGED vars
  <2>1. PICK t \in Terminals :
           /\ Apart(t)
           /\ \/ Goes1(t) /\ Forth(t)
              \/ Raises(t) /\ Back(t)
              \/ (Exits(t) \/ Killed(t)) /\ Gone(t)
              \/ \E q : Sound(q) /\ Anew(t, q)
              \/ \E q, name, new, to : Started(t, q, name, new, to)
    BY <1>2, Steps
  <2>2. \A u \in Terminals : LimpAtEnd(u, tool[u].todo)  BY DEF LimpInv
  <2>3. ASSUME NEW u \in Terminals \ {t} PROVE LimpAtEnd(u, tool[u].todo)'
    <3>1. LimpAtEnd(u, tool[u].todo) /\ tool'[u] = tool[u]  BY <2>1, <2>2 DEF Apart
    <3>2. PICK p : p = tool[u].todo  OBVIOUS
    <3>3. p = tool'[u].todo /\ LimpAtEnd(u, p)  BY <3>1, <3>2
    <3>4. LimpAtEnd(u, p)'  BY <2>1, <3>3, LimpApart
    <3> QED  BY <3>3, <3>4
  <2>4. PICK q : q = tool'[t].todo  OBVIOUS
  <2>5. LimpAtEnd(t, tool[t].todo)'
    <3>1. CASE Goes1(t) /\ Forth(t)
      <4>1. Effect(t, tool[t].todo[1])  BY <3>1, EffectIs
      <4>2. LimpAtEnd(t, q)'  BY <2>2, <2>4, <3>1, <4>1, LimpForth
      <4> QED  BY <2>4, <4>2
    <3>2. CASE Raises(t) /\ Back(t)
      <4>1. LimpAtEnd(t, q)'  BY <2>2, <2>4, <3>2, LimpBack
      <4> QED  BY <2>4, <4>1
    <3> QED  BY <2>1, <3>1, <3>2, LimpElse
  <2>6. \A u \in Terminals : LimpAtEnd(u, tool[u].todo)'  BY <2>3, <2>5
  <2> QED  BY <2>6 DEF LimpInv
<1> QED  BY <1>1, <1>2

LEMMA LimpInvInit ==
  ASSUME Init
  PROVE  LimpInv
<1>1. \A t \in Terminals : tool[t].name # "demo"  BY DEF Init, Idle
<1> QED  BY <1>1 DEF LimpAtEnd, LimpInv

\* A write of the lock leaves the torque as it is.
LEMMA UnlocksOff ==
  ASSUME NEW t, NEW p, NEW i, Unlocks(t, p, i), servo' = servo \/ Wrote(p[1], Hear(t, p[1].id)),
         NEW s \in Hear(t, i)
  PROVE  ~servo'[s].torque
<1>1. p[1].reg = "lock" /\ ~servo[s].torque /\ s \in DOMAIN servo
  BY DEF Unlocks, LocksOff, IsWrite, Lacks, Hear
<1>2. ASSUME Wrote(p[1], Hear(t, p[1].id)) PROVE servo'[s].torque = servo[s].torque
  BY <1>1, <1>2 DEF Wrote, Written, IsPut
<1> QED  BY <1>1, <1>2

\* What is left to the demo before the bus is closed is the lock, or a torque-off that raises.
LEMMA LimpStep ==
  ASSUME Base, LimpInv, [Next]_vars, NEW t \in Terminals,
         tool[t].name = "demo", Len(tool[t].todo) > 1, Len(tool'[t].todo) = 1,
         ~(Raises(t) /\ Now(t).reg = "torque" /\ ~Now(t).val),
         NEW s \in Hear(t, tool[t].new)
  PROVE  ~servo'[s].torque
<1>1. PICK p : p = tool[t].todo  OBVIOUS
<1>2. PICK q : q = tool'[t].todo  OBVIOUS
<1>3. PICK i : i = tool[t].new  OBVIOUS
<1>4. Len(p) > 1 /\ Len(q) = 1 /\ LimpAtEnd(t, p) /\ Sound(p) /\ Len(p) \in Nat
  <2>1. Len(p) > 1 /\ Len(q) = 1 /\ LimpAtEnd(t, p) /\ Sound(p)
    BY <1>1, <1>2 DEF LimpInv, Base, Based
  <2> QED  BY <2>1, Lengths DEF Sound
<1>5. Len(<<>>) = 0 /\ p # <<>> /\ q # <<>> /\ p # q
  <2>1. Len(<<>>) = 0  BY NoneToDo
  <2>2. \A n \in Nat : n > 1 => n # 0 /\ n # 1  OBVIOUS
  <2>3. Len(p) # 0 /\ Len(p) # 1  BY <1>4, <2>2
  <2>4. p # <<>>  BY <2>1, <2>3, Zenon
  <2>5. q # <<>>
    <3>1. ASSUME q = <<>> PROVE FALSE
      <4>1. Len(q) = 0  BY <2>1, <3>1
      <4> QED  BY <1>4, <4>1
    <3> QED  BY <3>1
  <2>6. p # q  BY <1>4, <2>3, Zenon
  <2> QED  BY <2>1, <2>4, <2>5, <2>6
<1>6. tool'[t] # tool[t]  BY <1>1, <1>2, <1>5
<1>7. ~UNCHANGED vars  BY <1>6 DEF vars
<1>8. PICK u \in Terminals :
         /\ Apart(u)
         /\ \/ Goes1(u) /\ Forth(u)
            \/ Raises(u) /\ Back(u)
            \/ (Exits(u) \/ Killed(u)) /\ Gone(u)
            \/ \E r : Sound(r) /\ Anew(u, r)
            \/ \E r, name, new, to : Started(u, r, name, new, to)
  BY <1>7, Steps
<1>9. u = t
  <2>1. ASSUME u # t PROVE FALSE
    <3>1. t \in Terminals \ {u}  BY <2>1
    <3>2. tool'[t] = tool[t]  BY <1>8, <3>1 DEF Apart
    <3> QED  BY <1>6, <3>2
  <2> QED  BY <2>1
<1>10. CASE Goes1(t) /\ Forth(t)
  <2>1. Effect(t, p[1])  BY <1>1, <1>10, EffectIs
  <2>2. IsTail(p, q)  BY <1>1, <1>2, <1>4, <1>5, <1>10, Shifted DEF Forth, Sound
  <2>3. Len(p) = 2
    <3>1. Len(q) = Len(p) - 1  BY <2>2 DEF IsTail
    <3>2. \A n \in Nat : n - 1 = 1 => n = 2  OBVIOUS
    <3> QED  BY <1>4, <3>1, <3>2
  <2>4. Switches(p, i) \/ Unlocks(t, p, i) \/ OnlyCloses(p)  BY <1>3, <1>4 DEF LimpAtEnd
  <2>5. ~Switches(p, i) /\ ~OnlyCloses(p)  BY <2>3 DEF Switches, EndsOff, OnlyCloses
  <2>6. p[1].do = "write"  BY <2>4, <2>5 DEF Unlocks, LocksOff, IsWrite
  <2>7. Wrote(p[1], Hear(t, p[1].id))  BY <2>1, <2>6 DEF Effect
  <2> QED  BY <1>3, <2>4, <2>5, <2>7, UnlocksOff
<1>11. CASE Raises(t) /\ Back(t)
  <2>1. Now(t) = p[1] /\ \A what : Does(t, what) <=> p[1].do = what
    BY <1>1, <1>4, <1>11, OpIs DEF Raises
  <2>2. \/ PowersOff(p, 1, i) /\ q = Close
        \/ Unlocks(t, p, i) /\ q = Close
        \/ q = <<>>
        \/ Switches(q, i)
    BY <1>1, <1>2, <1>3, <1>4, <1>11, BackWhere
  <2>3. ~Switches(q, i)  BY <1>4 DEF Switches, EndsOff
  <2>4. ~PowersOff(p, 1, i)
    <3>1. PowersOff(p, 1, i) => p[1].reg = "torque" /\ p[1].val = FALSE  BY DEF PowersOff, IsWrite
    <3> QED  BY <1>11, <2>1, <3>1
  <2>5. Unlocks(t, p, i)  BY <1>5, <2>2, <2>3, <2>4
  <2>6. servo' = servo \/ Wrote(p[1], Hear(t, p[1].id))
    <3>1. servo' = servo \/ (Does(t, "write") /\ Put2(Hear(t, Now(t).id), Now(t).reg, Now(t).val))
      BY <1>11 DEF Raises
    <3> QED  BY <1>1, <3>1, WriteIs
  <2> QED  BY <1>3, <2>5, <2>6, UnlocksOff
<1>12. ~Gone(t)  BY <1>2, <1>5 DEF Gone, Idle
<1>13. \A r : ~Anew(t, r)  BY LimpElse
<1>14. \A r, name, new, to : ~Started(t, r, name, new, to)  BY <1>1, <1>5 DEF Started
<1> QED  BY <1>8, <1>9, <1>10, <1>11, <1>12, <1>13, <1>14

\* The demo of the torque limits comes to its end with its motor switched off,
\* whatever operation of it raised and whatever other tools did meanwhile, unless
\* the torque-off itself is what raised: everything behind connect is within its
\* try, and its finally switches off before it closes the bus.
THEOREM DemoIsLimp == Spec => DemoEndsLimp
<1> DEFINE Ends1(t) == /\ tool[t].name = "demo" /\ Len(tool[t].todo) > 1 /\ Len(tool'[t].todo) = 1
                       /\ ~(Raises(t) /\ Now(t).reg = "torque" /\ ~Now(t).val)
           A == \A t \in Terminals : Ends1(t) => \A s \in Hear(t, tool[t].new) : ~servo'[s].torque
<1>1. ASSUME Base, LimpInv, [Next]_vars PROVE A
  BY <1>1, LimpStep
<1>2. Init => Base /\ LimpInv  BY BaseInit, LimpInvInit
<1>3. Base /\ LimpInv /\ [Next]_vars => Base' /\ LimpInv'  BY BaseNext, LimpInvNext
<1>4. Base /\ LimpInv /\ [Next]_vars => [A]_vars  BY <1>1
<1> QED  BY <1>2, <1>3, <1>4, PTL DEF Spec, DemoEndsLimp

=============================================================================
