--------------------------- MODULE CoSwitchProofs ---------------------------
(***************************************************************************)
(* Proofs about CoSwitch: whatever the number of cothreads, the depth of   *)
(* their functions and the size of the stacks, if the functions fit, every *)
(* side goes on where it left.                                             *)
(***************************************************************************)
EXTENDS CoSwitch, TLAPS

Indices == 0..StackSize - 1
Mem == [Sides -> [Indices -> Words]]
Tellings == Events \cup {0, 1, 2, Null}

LeftRecords == [rip : Words, rsp : Places, callee : Values \cup {Null}, tells : Tellings, pushed : BOOLEAN]
Contexts == [rsp : Places, callee : Values \cup {Null}, rdi : Threads \cup {Null}, rsi : Tellings]

Types ==
  /\ cpu \in [rip : Words, rsp : Places, callee : Values, rax : Tellings]
  /\ mem \in Mem
  /\ local \in [Threads -> Contexts]
  /\ finished \subseteq Threads
  /\ alive \subseteq Threads
  /\ caller \in [Threads -> Sides \cup {Null}]
  /\ left \in [Sides -> LeftRecords]

\* The sides that can still get control.
Live == {Main} \cup (alive \ finished)

\* The height a stack can have where a routine is called.
Depth(c, idx) == \E k \in 0..MaxFrames[c] : idx = Entry - 2 * k

Heights ==
  /\ Executing => Depth(Running, cpu.rsp.idx)
  /\ \A c \in Live \ {Running} : left[c].rsp.ctx = c /\ Depth(c, left[c].rsp.idx)

\* The functions of a live side have saved registers in their frames.
Top(c) == IF c = Running THEN cpu.rsp.idx ELSE left[c].rsp.idx
Frames ==
  \A c \in Live : \A k \in 1..MaxFrames[c] :
    Entry - 2 * k >= Top(c) /\ (c = Running => Executing) =>
      mem[c][Entry - 2 * k] \in [kind : {"reg"}, val : Values]

\* The sides that are under way form a chain from the program to the one that
\* runs, each run by the one below.
Chain ==
  /\ Running \in Live
  /\ Running # Main => caller[Running] # Null
  /\ \A t \in Threads : caller[t] # Running
  /\ \A t, u \in Threads : caller[t] = caller[u] /\ caller[t] # Null => t = u
  /\ \A t \in Threads : caller[t] # Null => t \in alive \ finished
  /\ \A t \in Threads : caller[t] \in Threads => caller[caller[t]] # Null

\* A side that has run a cothread will be restored from what it left.
CallersIntact ==
  \A t \in Threads : caller[t] # Null =>
    LET c == caller[t]
    IN  /\ ~left[c].pushed
        /\ local[t] = [rsp |-> [ctx |-> c, idx |-> left[c].rsp.idx - 1], callee |-> left[c].callee,
                       rdi |-> t, rsi |-> left[c].tells]
        /\ mem[c][left[c].rsp.idx - 1] = left[c].rip
        /\ left[c].callee \in Values

\* So will a cothread that is suspended, unless it left through yield_events.
Slot(t) == left[t].rsp.idx - (IF left[t].pushed THEN 2 ELSE 1)
SuspendedIntact ==
  \A t \in alive \ finished : caller[t] = Null =>
    /\ mem[t][RSP] = Addr([ctx |-> t, idx |-> Slot(t)])
    /\ mem[t][Slot(t)] = IF left[t].pushed THEN This(t) ELSE left[t].rip
    /\ mem[t][CALLEE] = Reg(left[t].callee)
    /\ left[t].callee \in Values
    /\ mem[t][RDI] = This(t)

\* What finish() will find.
Tops == \A t \in alive : mem[t][Entry] = FinishCode /\ mem[t][Entry + 1] = This(t)

SwitchInv == Types /\ Heights /\ Frames /\ Chain /\ CallersIntact /\ SuspendedIntact /\ Tops

-----------------------------------------------------------------------------
(* The words, and what the parts of the routines write.                    *)

LEMMA WordsOK ==
  /\ \A site \in Sites \cup {Null} : Code(site) \in Words
  /\ \A a \in Places : Addr(a) \in Words
  /\ \A t \in Threads : This(t) \in Words
  /\ \A v \in Values : Reg(v) \in Words
  /\ \A b \in {0, 1} : Flag(b) \in Words
  /\ Func \in Words /\ FinishCode \in Words /\ Junk \in Words /\ Word("param") \in Words
BY DEF Words, Code, Addr, This, Reg, Flag, Func, FinishCode, Junk, Word

\* m and n agree, except on the indices S of the stack of c.
AgreeOff(m, n, c, S) ==
  /\ \A d \in Sides : d # c => m[d] = n[d]
  /\ \A i \in Indices : i \notin S => m[c][i] = n[c][i]

LEMMA PoppedGives ==
  ASSUME NEW m \in Mem, NEW a \in Places
  PROVE  Popped(m, a) \in Mem /\ AgreeOff(Popped(m, a), m, a.ctx, (a.idx - 1 - ImplWords)..a.idx)
<1>1. a.ctx \in Sides /\ DOMAIN m[a.ctx] = Indices /\ Junk \in Words
  BY WordsOK DEF Mem, Places
<1> QED  BY <1>1 DEF Popped, Mem, AgreeOff

LEMMA PokeGives ==
  ASSUME NEW m \in Mem, NEW a \in Places, NEW word \in Words
  PROVE  Poke(m, a, word) \in Mem /\ AgreeOff(Poke(m, a, word), m, a.ctx, {a.idx})
         /\ Poke(m, a, word)[a.ctx][a.idx] = word
<1>1. a.ctx \in Sides /\ a.idx \in Indices
  BY DEF Places, Indices
<1> QED  BY <1>1 DEF Poke, Mem, AgreeOff

LEMMA BelowGives ==
  ASSUME NEW m \in Mem, NEW a \in Places, NEW t \in Threads, a.idx >= 1
  PROVE  /\ Below(m, a, t) \in Mem
         /\ AgreeOff(Below(m, a, t), m, a.ctx, (a.idx - 1 - ImplWords)..(a.idx - 1))
         /\ Below(m, a, t)[a.ctx][a.idx - 1] = This(t)
<1>1. /\ a.ctx \in Sides /\ DOMAIN m[a.ctx] = Indices /\ Junk \in Words /\ This(t) \in Words
      /\ a.idx - 1 \in Indices
  BY WordsOK, SizesAssumption DEF Mem, Places, Indices
<1>2. a.idx \in Int /\ ImplWords \in Nat /\ Indices \subseteq Int
  BY SizesAssumption DEF Places, Indices
<1> DEFINE stack == [i \in Indices |-> IF i = a.idx - 1 THEN This(t)
                                      ELSE IF i \in (a.idx - 1 - ImplWords)..(a.idx - 2) THEN Junk
                                      ELSE m[a.ctx][i]]
<1>3. Below(m, a, t) = [m EXCEPT ![a.ctx] = stack]
  BY <1>1 DEF Below
<1>4. stack \in [Indices -> Words]
  BY <1>1 DEF Mem
<1>5. \A i \in Indices : i \notin (a.idx - 1 - ImplWords)..(a.idx - 1) => stack[i] = m[a.ctx][i]
  BY <1>2
<1>6. stack[a.idx - 1] = This(t)
  BY <1>1
<1> HIDE DEF stack
<1> QED  BY <1>1, <1>3, <1>4, <1>5, <1>6 DEF Mem, AgreeOff

LEMMA SaveGives ==
  ASSUME NEW m \in Mem, NEW a \in Places, NEW t \in Threads, NEW rsi \in Words, cpu.callee \in Values
  PROVE  LET n == SaveCothread(m, a, t, rsi)
         IN  /\ n \in Mem
             /\ AgreeOff(n, m, t, 0..4)
             /\ n[t][RSP] = Addr(a) /\ n[t][RDI] = This(t) /\ n[t][RSI] = rsi
             /\ n[t][CALLEE] = Reg(cpu.callee)
<1>1. /\ t \in Sides /\ {0, 1, 2, 3, 4} \subseteq Indices
      /\ Addr(a) \in Words /\ This(t) \in Words /\ Reg(cpu.callee) \in Words /\ m[a.ctx][a.idx] \in Words
  BY WordsOK, SizesAssumption DEF Mem, Places, Indices, Sides
<1>2. m[t] \in [Indices -> Words]
  BY <1>1 DEF Mem
<1> QED  BY <1>1, <1>2 DEF SaveCothread, Mem, AgreeOff, At, RIP, RSP, RDI, RSI, CALLEE

-----------------------------------------------------------------------------
(* Where the stacks are, if the functions fit.                             *)

LEMMA Room ==
  ASSUME Fits, NEW c \in Sides, NEW idx, Depth(c, idx)
  PROVE  /\ idx \in Int /\ idx <= Entry /\ idx - 2 - ImplWords >= AreaSize
         /\ idx \in Indices /\ idx - 1 \in Indices /\ idx - 2 \in Indices
<1>1. PICK k \in 0..MaxFrames[c] : idx = Entry - 2 * k
  BY DEF Depth
<1>2. MaxFrames[c] \in Nat /\ StackSize \in Nat /\ ImplWords \in Nat
  BY SizesAssumption DEF Sides
<1>3. AreaSize + 2 * MaxFrames[c] + 2 + ImplWords <= Entry
  BY DEF Fits
<1> QED  BY <1>1, <1>2, <1>3 DEF Entry, RetAddrIdx, AreaSize, Indices

\* The save area lies below everything that a routine touches.
LEMMA AreaOutside ==
  ASSUME NEW low \in Int, NEW high \in Int, low >= 5
  PROVE  \A i \in {RSP, RDI, RSI, CALLEE} : i \in Indices /\ i \notin low..high
BY SizesAssumption DEF RSP, RDI, RSI, CALLEE, Indices

LEMMA DownGives ==
  ASSUME NEW a \in Places, NEW n \in Int, a.idx - n \in Indices
  PROVE  Down(a, n) \in Places /\ Down(a, n) = [ctx |-> a.ctx, idx |-> a.idx - n]
BY DEF Down, Places, Indices

LEMMA UpGives ==
  ASSUME NEW a \in Places, NEW n \in Int, a.idx + n \in Indices
  PROVE  Up(a, n) \in Places /\ Up(a, n) = [ctx |-> a.ctx, idx |-> a.idx + n]
BY DEF Up, Places, Indices

\* The side that runs.
LEMMA RunningGives ==
  ASSUME Fits, SwitchInv, Executing
  PROVE  /\ Running \in Sides /\ cpu.rsp \in Places /\ cpu.callee \in Values
         /\ Depth(Running, cpu.rsp.idx)
         /\ cpu.rsp.idx \in Int /\ cpu.rsp.idx <= Entry /\ cpu.rsp.idx - 2 - ImplWords >= AreaSize
         /\ cpu.rsp.idx \in Indices /\ cpu.rsp.idx - 1 \in Indices /\ cpu.rsp.idx - 2 \in Indices
         /\ Down(cpu.rsp, 1) \in Places /\ Down(cpu.rsp, 1) = [ctx |-> Running, idx |-> cpu.rsp.idx - 1]
         /\ Down(cpu.rsp, 2) \in Places /\ Down(cpu.rsp, 2) = [ctx |-> Running, idx |-> cpu.rsp.idx - 2]
<1>1. Running \in Sides /\ cpu.rsp \in Places /\ cpu.callee \in Values
  BY DEF SwitchInv, Types, Running, Places
<1>2. Depth(Running, cpu.rsp.idx)
  BY DEF SwitchInv, Heights
<1>3. /\ cpu.rsp.idx \in Int /\ cpu.rsp.idx <= Entry /\ cpu.rsp.idx - 2 - ImplWords >= AreaSize
      /\ cpu.rsp.idx \in Indices /\ cpu.rsp.idx - 1 \in Indices /\ cpu.rsp.idx - 2 \in Indices
  BY <1>1, <1>2, Room
<1>4. cpu.rsp.ctx = Running
  BY DEF Running
<1>5. /\ Down(cpu.rsp, 1) \in Places /\ Down(cpu.rsp, 1) = [ctx |-> Running, idx |-> cpu.rsp.idx - 1]
      /\ Down(cpu.rsp, 2) \in Places /\ Down(cpu.rsp, 2) = [ctx |-> Running, idx |-> cpu.rsp.idx - 2]
  BY <1>1, <1>3, <1>4, DownGives
<1> QED  BY <1>1, <1>2, <1>3, <1>5

LEMMA CalledGives ==
  ASSUME Fits, SwitchInv, Executing, NEW site \in Sites
  PROVE  /\ Called(site) \in Mem
         /\ AgreeOff(Called(site), mem, Running, {cpu.rsp.idx - 1})
         /\ Called(site)[Running][cpu.rsp.idx - 1] = Code(site)
<1>1. mem \in Mem /\ Code(site) \in Words
  BY WordsOK DEF SwitchInv, Types
<1>2. /\ Down(cpu.rsp, 1) \in Places
      /\ Down(cpu.rsp, 1).ctx = Running /\ Down(cpu.rsp, 1).idx = cpu.rsp.idx - 1
  BY RunningGives
<1>3. /\ Called(site) \in Mem
      /\ AgreeOff(Called(site), mem, Down(cpu.rsp, 1).ctx, {Down(cpu.rsp, 1).idx})
      /\ Called(site)[Down(cpu.rsp, 1).ctx][Down(cpu.rsp, 1).idx] = Code(site)
  BY <1>1, <1>2, PokeGives DEF Called
<1> QED  BY <1>2, <1>3

\* The caller's stack during run.
LEMMA RunCalledGives ==
  ASSUME Fits, SwitchInv, Executing, NEW site \in Sites, NEW t \in Threads
  PROVE  LET m == RunCalled(t, site)
         IN  /\ m \in Mem
             /\ AgreeOff(m, mem, Running, 0..(cpu.rsp.idx - 1))
             /\ m[Running][cpu.rsp.idx - 1] = Code(site)
             /\ \A d \in Sides : d # Running => m[d] = mem[d]
<1> DEFINE a == Down(cpu.rsp, 1)
           r == cpu.rsp.idx
           m == RunCalled(t, site)
<1>1. /\ a \in Places /\ a.ctx = Running /\ a.idx = r - 1 /\ a.idx >= 1 /\ r \in Int
      /\ r - 2 - ImplWords >= 5 /\ ImplWords \in Nat /\ r - 1 \in Indices
  BY RunningGives, SizesAssumption DEF AreaSize
<1>2. /\ Called(site) \in Mem
      /\ AgreeOff(Called(site), mem, Running, {r - 1})
      /\ Called(site)[Running][r - 1] = Code(site)
  BY CalledGives
<1>3. m \in Mem /\ AgreeOff(m, Called(site), Running, (r - 2 - ImplWords)..(r - 2))
  BY <1>1, <1>2, BelowGives DEF RunCalled
<1> HIDE DEF m, a
<1>4. \A d \in Sides : d # Running => m[d] = mem[d]
  BY <1>2, <1>3 DEF AgreeOff
<1>5. \A i \in Indices : i \notin 0..(r - 1) => m[Running][i] = mem[Running][i]
  BY <1>1, <1>2, <1>3 DEF AgreeOff, Indices
<1>6. m[Running][r - 1] = Code(site)
  BY <1>1, <1>2, <1>3 DEF AgreeOff
<1> QED  BY <1>3, <1>4, <1>5, <1>6 DEF m, AgreeOff

-----------------------------------------------------------------------------
(* What a cothread saves when it leaves.                                   *)

\* m is memory when cothread t, which runs, has saved itself.
SavedAs(m, t, site, pushed, rsi) ==
  LET slot == cpu.rsp.idx - (IF pushed THEN 2 ELSE 1)
  IN  /\ m \in Mem
      /\ AgreeOff(m, mem, t, 0..(cpu.rsp.idx - 1))
      /\ m[t][RSP] = Addr([ctx |-> t, idx |-> slot])
      /\ m[t][slot] = IF pushed THEN This(t) ELSE Code(site)
      /\ m[t][CALLEE] = Reg(cpu.callee)
      /\ m[t][RDI] = This(t)
      /\ m[t][RSI] = rsi

LEMMA SuspendedSaves ==
  ASSUME Fits, SwitchInv, Executing, NEW t \in Threads, Running = t,
         NEW site \in Sites, NEW rsi \in Words
  PROVE  SavedAs(Suspended(t, site, rsi), t, site, FALSE, rsi)
<1> DEFINE a == Down(cpu.rsp, 1)
           r == cpu.rsp.idx
           n == SaveCothread(Called(site), a, t, rsi)
           m == Suspended(t, site, rsi)
<1>1. /\ a \in Places /\ a = [ctx |-> t, idx |-> r - 1] /\ a.ctx = t /\ a.idx = r - 1 /\ a.idx >= 1
      /\ r \in Int /\ r - 2 - ImplWords >= 5 /\ ImplWords \in Nat /\ r - 1 \in Indices
      /\ t \in Sides /\ cpu.callee \in Values /\ Indices \subseteq Int
  BY RunningGives, SizesAssumption DEF AreaSize, Indices
<1>2. /\ Called(site) \in Mem
      /\ AgreeOff(Called(site), mem, t, {r - 1})
      /\ Called(site)[t][r - 1] = Code(site)
  BY CalledGives
<1>3. /\ n \in Mem /\ AgreeOff(n, Called(site), t, 0..4)
      /\ n[t][RSP] = Addr(a) /\ n[t][RDI] = This(t) /\ n[t][RSI] = rsi /\ n[t][CALLEE] = Reg(cpu.callee)
  BY <1>1, <1>2, SaveGives
<1> HIDE DEF n
<1>4. m \in Mem /\ AgreeOff(m, n, t, (r - 2 - ImplWords)..(r - 2))
  <2>1. m = Below(n, a, t)
    BY DEF Suspended, n
  <2> HIDE DEF m, a
  <2> QED  BY <1>1, <1>3, <2>1, BelowGives
<1> HIDE DEF m, a
<1>5. \A d \in Sides : d # t => m[d] = mem[d]
  BY <1>2, <1>3, <1>4 DEF AgreeOff
<1>6. \A i \in Indices : i \notin 0..(r - 1) => m[t][i] = mem[t][i]
  BY <1>1, <1>2, <1>3, <1>4 DEF AgreeOff
<1>7. m[t][r - 1] = Code(site)
  BY <1>1, <1>2, <1>3, <1>4 DEF AgreeOff
<1>8. /\ m[t][RSP] = n[t][RSP] /\ m[t][RDI] = n[t][RDI] /\ m[t][RSI] = n[t][RSI] /\ m[t][CALLEE] = n[t][CALLEE]
  <2>1. \A i \in {RSP, RDI, RSI, CALLEE} : i \in Indices /\ i \notin (r - 2 - ImplWords)..(r - 2)
    BY <1>1, AreaOutside
  <2> QED  BY <1>4, <2>1 DEF AgreeOff
<1> QED  BY <1>1, <1>3, <1>4, <1>5, <1>6, <1>7, <1>8 DEF SavedAs, AgreeOff, m

\* The memory that yield_events leaves behind.
PushedBy(t, site) ==
  LET a == Down(cpu.rsp, 1)
      pushed == Poke(Called(site), Down(a, 1), Word("param"))
  IN  Below(SaveCothread(pushed, Down(a, 1), t, Word("param")), a, t)

LEMMA PushedSaves ==
  ASSUME Fits, SwitchInv, Executing, NEW t \in Threads, Running = t, NEW site \in Sites
  PROVE  SavedAs(PushedBy(t, site), t, site, TRUE, Word("param"))
<1> DEFINE a == Down(cpu.rsp, 1)
           b == Down(a, 1)
           r == cpu.rsp.idx
           p == Poke(Called(site), b, Word("param"))
           n == SaveCothread(p, b, t, Word("param"))
           m == PushedBy(t, site)
<1>1. /\ a \in Places /\ a = [ctx |-> t, idx |-> r - 1] /\ a.ctx = t /\ a.idx = r - 1 /\ a.idx >= 1
      /\ r \in Int /\ r - 2 - ImplWords >= 5 /\ ImplWords \in Nat /\ r - 1 \in Indices /\ r - 2 \in Indices
      /\ t \in Sides /\ cpu.callee \in Values /\ Word("param") \in Words /\ Indices \subseteq Int
  BY RunningGives, SizesAssumption, WordsOK DEF AreaSize, Indices
<1>2. a.idx - 1 = r - 2
  BY <1>1
<1>3. b \in Places /\ b = [ctx |-> t, idx |-> r - 2] /\ b.ctx = t /\ b.idx = r - 2
  <2> HIDE DEF a
  <2> QED  BY <1>1, <1>2, DownGives
<1> HIDE DEF a, b
<1>4. Called(site) \in Mem /\ AgreeOff(Called(site), mem, t, {r - 1})
  BY CalledGives
<1>5. p \in Mem /\ AgreeOff(p, Called(site), t, {r - 2})
  <2>1. p \in Mem /\ AgreeOff(p, Called(site), b.ctx, {b.idx})
    BY <1>1, <1>3, <1>4, PokeGives
  <2> QED  BY <1>3, <2>1
<1> HIDE DEF p
<1>6. /\ n \in Mem /\ AgreeOff(n, p, t, 0..4)
      /\ n[t][RSP] = Addr(b) /\ n[t][RDI] = This(t) /\ n[t][RSI] = Word("param") /\ n[t][CALLEE] = Reg(cpu.callee)
  BY <1>1, <1>3, <1>5, SaveGives
<1> HIDE DEF n
<1>7. m \in Mem /\ AgreeOff(m, n, t, (r - 2 - ImplWords)..(r - 2)) /\ m[t][r - 2] = This(t)
  <2>1. m = Below(n, a, t)
    BY DEF PushedBy, n, p, a, b
  <2>2. /\ m \in Mem /\ AgreeOff(m, n, a.ctx, (a.idx - 1 - ImplWords)..(a.idx - 1))
        /\ m[a.ctx][a.idx - 1] = This(t)
    <3> HIDE DEF m
    <3> QED  BY <1>1, <1>6, <2>1, BelowGives
  <2>3. a.idx - 1 - ImplWords = r - 2 - ImplWords
    BY <1>1
  <2> QED  BY <1>1, <1>2, <2>2, <2>3
<1> HIDE DEF m
<1>8. \A d \in Sides : d # t => m[d] = mem[d]
  BY <1>4, <1>5, <1>6, <1>7 DEF AgreeOff
<1>9. \A i \in Indices : i \notin 0..(r - 1) => m[t][i] = mem[t][i]
  BY <1>1, <1>4, <1>5, <1>6, <1>7 DEF AgreeOff
<1>10. /\ m[t][RSP] = n[t][RSP] /\ m[t][RDI] = n[t][RDI] /\ m[t][RSI] = n[t][RSI] /\ m[t][CALLEE] = n[t][CALLEE]
  <2>1. \A i \in {RSP, RDI, RSI, CALLEE} : i \in Indices /\ i \notin (r - 2 - ImplWords)..(r - 2)
    BY <1>1, AreaOutside
  <2> QED  BY <1>7, <2>1 DEF AgreeOff
<1> QED  BY <1>1, <1>3, <1>6, <1>7, <1>8, <1>9, <1>10 DEF SavedAs, AgreeOff, m

-----------------------------------------------------------------------------
(* A cothread leaves, and the side that runs it goes on.                   *)

\* The side that runs the cothread that runs.
LEMMA CallerGives ==
  ASSUME Fits, SwitchInv, Executing, NEW t \in Threads, Running = t
  PROVE  LET c == caller[t]
             h == left[c].rsp.idx
         IN  /\ c \in Sides /\ c # t /\ c \in Live /\ c # Null
             /\ left[c] \in LeftRecords /\ left[c].rsp = [ctx |-> c, idx |-> h]
             /\ Depth(c, h) /\ h \in Int /\ h <= Entry /\ h - 2 - ImplWords >= AreaSize
             /\ h \in Indices /\ h - 1 \in Indices
             /\ local[t].rsp = [ctx |-> c, idx |-> h - 1] /\ local[t].rsp \in Places
             /\ local[t].callee = left[c].callee /\ left[c].callee \in Values
             /\ local[t].rdi = t
             /\ mem[c][h - 1] = left[c].rip
<1> DEFINE c == caller[t]
           h == left[c].rsp.idx
<1>1. t # Main /\ Main # Null /\ Null \notin Threads
  BY SidesAssumption
<1>2. c # Null /\ c # t /\ c \in Sides
  BY <1>1 DEF SwitchInv, Chain, Types
<1>3. c \in Live
  BY <1>2 DEF SwitchInv, Chain, Live, Sides
<1>4. left[c] \in LeftRecords
  BY <1>2 DEF SwitchInv, Types
<1>5. left[c].rsp.ctx = c /\ Depth(c, h)
  BY <1>2, <1>3 DEF SwitchInv, Heights
<1>6. left[c].rsp = [ctx |-> c, idx |-> h]
  BY <1>4, <1>5 DEF LeftRecords, Places
<1>7. h \in Int /\ h <= Entry /\ h - 2 - ImplWords >= AreaSize /\ h \in Indices /\ h - 1 \in Indices
  BY <1>2, <1>5, Room
<1>8. /\ local[t] = [rsp |-> [ctx |-> c, idx |-> h - 1], callee |-> left[c].callee,
                     rdi |-> t, rsi |-> left[c].tells]
      /\ mem[c][h - 1] = left[c].rip /\ left[c].callee \in Values
  BY <1>2 DEF SwitchInv, CallersIntact
<1>9. local[t] \in Contexts
  BY DEF SwitchInv, Types
<1> QED  BY <1>2, <1>3, <1>4, <1>5, <1>6, <1>7, <1>8, <1>9 DEF Contexts

\* What restore_user_context does to the processor and to the stack of the caller.
WentBack(m, t, c, rax) ==
  /\ cpu' = [rip |-> left[c].rip, rsp |-> left[c].rsp, callee |-> left[c].callee, rax |-> rax]
  /\ mem' \in Mem
  /\ \A d \in Sides : d # c => mem'[d] = m[d]
  /\ \A i \in Indices : i >= left[c].rsp.idx => mem'[c][i] = mem[c][i]
  /\ local' = [local EXCEPT ![t] = NoContext]
  /\ caller' = [caller EXCEPT ![t] = Null]
  /\ alive' = alive

LEMMA RestoreGives ==
  ASSUME Fits, SwitchInv, Executing, NEW t \in Threads, Running = t, NEW rax,
         NEW m \in Mem, AgreeOff(m, mem, t, 0..(cpu.rsp.idx - 1)), RestoreUser(m, t, rax)
  PROVE  WentBack(m, t, caller[t], rax)
<1> DEFINE c == caller[t]
           h == left[c].rsp.idx
           a == local[t].rsp
<1>1. /\ c \in Sides /\ c # t
      /\ left[c].rsp = [ctx |-> c, idx |-> h] /\ h \in Int /\ h \in Indices /\ h - 1 \in Indices
      /\ a = [ctx |-> c, idx |-> h - 1] /\ a \in Places /\ a.ctx = c /\ a.idx = h - 1
      /\ local[t].callee = left[c].callee /\ mem[c][h - 1] = left[c].rip
      /\ ImplWords \in Nat
  BY CallerGives, SizesAssumption
<1>2. mem' = Popped(m, a) /\ cpu' = Ret(m, a, local[t].callee, rax)
  BY DEF RestoreUser
<1> HIDE DEF a
<1>3. \A i \in Indices : m[c][i] = mem[c][i]
  BY <1>1 DEF AgreeOff
<1>4. mem' \in Mem /\ AgreeOff(mem', m, c, (a.idx - 1 - ImplWords)..a.idx)
  BY <1>1, <1>2, PoppedGives
<1>5. At(m, a) = left[c].rip
  BY <1>1, <1>3 DEF At
<1>6. Up(a, 1) = left[c].rsp
  <2>1. a.idx + 1 = h
    BY <1>1
  <2> QED  BY <1>1, <2>1, UpGives
<1>7. \A i \in Indices : i >= h => mem'[c][i] = mem[c][i]
  <2>1. ASSUME NEW i \in Indices, i >= h
        PROVE  i \notin (a.idx - 1 - ImplWords)..a.idx
    BY <1>1, <2>1 DEF Indices
  <2> QED  BY <1>3, <1>4, <2>1 DEF AgreeOff
<1> QED  BY <1>1, <1>2, <1>4, <1>5, <1>6, <1>7 DEF WentBack, RestoreUser, Ret, AgreeOff

\* The cothread can be run again, or has finished.
Stays(m, t, c, site, tells, pushed) ==
  /\ site \in Sites
  /\ finished' = finished
  /\ LeavesPushed(c, site, tells, pushed)
  /\ \E rsi : SavedAs(m, t, site, pushed, rsi)

Ends(t, c) ==
  /\ finished' = finished \cup {t}
  /\ left' = [left EXCEPT ![c] = Here]

LEMMA BackKeeps ==
  ASSUME Fits, SwitchInv, Executing, NEW t \in Threads, Running = t, NEW rax \in Tellings,
         NEW m \in Mem, AgreeOff(m, mem, t, 0..(cpu.rsp.idx - 1)),
         NEW c, c = caller[t], WentBack(m, t, c, rax),
         NEW site, NEW tells \in Tellings, NEW pushed \in BOOLEAN,
         Stays(m, t, c, site, tells, pushed) \/ Ends(t, c)
  PROVE  SwitchInv'
<1> DEFINE r == cpu.rsp.idx
           h == left[c].rsp.idx
<1>1. /\ c \in Sides /\ c # t /\ c \in Live /\ c # Null /\ t \in Sides
      /\ left[c] \in LeftRecords /\ left[c].rsp = [ctx |-> c, idx |-> h]
      /\ Depth(c, h) /\ h \in Int /\ h <= Entry /\ h \in Indices
      /\ left[c].callee \in Values
  BY CallerGives DEF Sides
<1>2. /\ r \in Int /\ r <= Entry /\ r \in Indices /\ Depth(t, r) /\ cpu.rsp \in Places
      /\ cpu.callee \in Values /\ cpu.rsp = [ctx |-> t, idx |-> r]
      /\ Entry \in Int /\ Entry \in Indices /\ Entry + 1 \in Indices /\ Indices \subseteq Int
  <2>1. cpu.rsp \in Places /\ r \in Indices /\ r <= Entry /\ Depth(t, r) /\ cpu.callee \in Values
    BY RunningGives
  <2>2. cpu.rsp = [ctx |-> t, idx |-> r]
    BY <2>1 DEF Places, Running
  <2>3. /\ Entry \in Int /\ Entry \in Indices /\ Entry + 1 \in Indices /\ Indices \subseteq Int
    BY SizesAssumption DEF Entry, RetAddrIdx, Indices
  <2> QED  BY <2>1, <2>2, <2>3
<1>3. Running' = c
  BY <1>1 DEF WentBack, Running
<1>4. /\ \A d \in Sides : d \notin {c, t} => mem'[d] = mem[d]
      /\ \A i \in Indices : i >= h => mem'[c][i] = mem[c][i]
      /\ \A i \in Indices : i >= r => mem'[t][i] = mem[t][i]
      /\ mem'[t] = m[t]
  <2>1. \A i \in Indices : i >= r => i \notin 0..(r - 1)
    BY <1>2 DEF Indices
  <2> QED  BY <1>1, <2>1 DEF WentBack, AgreeOff
<1>5. /\ left' \in [Sides -> LeftRecords]
      /\ \A d \in Sides : d \notin {c, t} => left'[d] = left[d]
  <2>1. Here \in LeftRecords
    BY WordsOK, <1>2 DEF Here, LeftRecords, Tellings, Places, Sides, Indices
  <2>2. site \in Sites => [rip |-> Code(site), rsp |-> cpu.rsp, callee |-> cpu.callee, tells |-> tells,
                            pushed |-> pushed] \in LeftRecords
    BY WordsOK, <1>2 DEF LeftRecords
  <2>3. left \in [Sides -> LeftRecords]
    BY DEF SwitchInv, Types
  <2> QED  BY <1>1, <2>1, <2>2, <2>3 DEF Stays, Ends, LeavesPushed, Running
<1>6. /\ \A u \in Threads : u # t => caller'[u] = caller[u] /\ local'[u] = local[u]
      /\ caller'[t] = Null /\ alive' = alive
  BY DEF WentBack, SwitchInv, Types
<1>7. /\ finished' \subseteq Threads /\ finished \subseteq finished'
      /\ \A d : d # t => (d \in finished' <=> d \in finished)
      /\ Stays(m, t, c, site, tells, pushed) \/ t \in finished'
  BY DEF Stays, Ends, SwitchInv, Types
<1>8. Stays(m, t, c, site, tells, pushed) =>
        /\ left'[t] = [rip |-> Code(site), rsp |-> cpu.rsp, callee |-> cpu.callee, tells |-> tells, pushed |-> pushed]
        /\ \E rsi : SavedAs(m, t, site, pushed, rsi)
  <2>1. left \in [Sides -> LeftRecords]
    BY DEF SwitchInv, Types
  <2> QED  BY <1>1, <2>1 DEF Stays, LeavesPushed, Running
<1>9. Live' \subseteq Live /\ c \in Live' /\ (t \in Live' => Stays(m, t, c, site, tells, pushed))
  BY <1>1, <1>6, <1>7, SidesAssumption DEF Live
<1>10. Types'
  <2>1. NoContext \in Contexts
    BY <1>2 DEF NoContext, Contexts, Places, Sides, Indices, Tellings
  <2>2. cpu' \in [rip : Words, rsp : Places, callee : Values, rax : Tellings]
    BY <1>1 DEF WentBack, LeftRecords
  <2>3. local' \in [Threads -> Contexts] /\ caller' \in [Threads -> Sides \cup {Null}]
    BY <2>1 DEF WentBack, SwitchInv, Types
  <2>4. mem' \in Mem /\ alive' \subseteq Threads
    BY DEF WentBack, SwitchInv, Types
  <2> QED  BY <1>5, <1>7, <2>2, <2>3, <2>4 DEF Types, Mem
<1>11. Heights'
  <2>1. cpu'.rsp.idx = h
    BY <1>1 DEF WentBack
  <2>2. ASSUME NEW d \in Live' \ {c}
        PROVE  left'[d].rsp.ctx = d /\ Depth(d, left'[d].rsp.idx)
    <3>1. CASE d = t
      BY <1>2, <1>8, <1>9, <3>1
    <3>2. CASE d # t
      <4>1. d \in Sides /\ left'[d] = left[d]
        BY <1>5, <1>9, <3>2 DEF Live, SwitchInv, Types, Sides
      <4> QED  BY <1>9, <3>2, <4>1 DEF SwitchInv, Heights
    <3> QED  BY <3>1, <3>2
  <2> QED  BY <1>1, <1>3, <2>1, <2>2 DEF Heights, Depth
<1>12. Frames'
  <2> SUFFICES ASSUME NEW d \in Live', NEW k \in 1..MaxFrames[d],
                      Entry - 2 * k >= (IF d = c THEN h ELSE left'[d].rsp.idx)
               PROVE  mem'[d][Entry - 2 * k] \in [kind : {"reg"}, val : Values]
    <3>1. cpu'.rsp.idx = h
      BY <1>1 DEF WentBack
    <3> QED  BY <1>3, <3>1 DEF Frames, Top
  <2>1. d \in Live /\ d \in Sides
    BY <1>9 DEF Live, SwitchInv, Types, Sides
  <2>2. MaxFrames[d] \in Nat /\ k \in Int /\ k >= 1 /\ Entry - 2 * k \in Int /\ Entry - 2 * k <= Entry
    BY <1>2, <2>1, SizesAssumption DEF Sides
  <2>3. CASE d = c
    <3>1. Entry - 2 * k \in Indices /\ Entry - 2 * k >= h
      <4> DEFINE i == Entry - 2 * k
      <4>1. i \in Int /\ i <= Entry /\ i >= h
        BY <2>2, <2>3
      <4> HIDE DEF i
      <4>2. i \in Indices
        BY <1>1, <1>2, <4>1, SizesAssumption DEF Indices
      <4> QED  BY <4>1, <4>2 DEF i
    <3>2. mem[c][Entry - 2 * k] \in [kind : {"reg"}, val : Values]
      BY <1>1, <2>3 DEF SwitchInv, Frames, Top
    <3> QED  BY <1>4, <2>3, <3>1, <3>2
  <2>4. CASE d = t
    <3>1. left'[t].rsp.idx = r
      BY <1>8, <1>9, <2>4
    <3>2. Entry - 2 * k \in Indices /\ Entry - 2 * k >= r
      <4> DEFINE i == Entry - 2 * k
      <4>1. i \in Int /\ i <= Entry /\ i >= r
        BY <1>1, <2>2, <2>4, <3>1
      <4> HIDE DEF i
      <4>2. i \in Indices
        BY <1>2, <4>1, SizesAssumption DEF Indices
      <4> QED  BY <4>1, <4>2 DEF i
    <3>3. mem[t][Entry - 2 * k] \in [kind : {"reg"}, val : Values]
      BY <2>1, <2>4, <3>2 DEF SwitchInv, Frames, Top
    <3> QED  BY <1>4, <2>4, <3>2, <3>3
  <2>5. CASE d \notin {c, t}
    <3>1. left'[d] = left[d] /\ mem'[d] = mem[d]
      BY <1>4, <1>5, <2>1, <2>5
    <3> QED  BY <2>1, <2>5, <3>1 DEF SwitchInv, Frames, Top
  <2> QED  BY <2>3, <2>4, <2>5
<1>13. Chain'
  <2>1. c # Main => caller'[c] # Null
    BY <1>1, <1>6 DEF SwitchInv, Chain, Sides
  <2>2. \A u \in Threads : caller'[u] # c
    BY <1>1, <1>6 DEF SwitchInv, Chain
  <2>3. \A u, w \in Threads : caller'[u] = caller'[w] /\ caller'[u] # Null => u = w
    BY <1>6 DEF SwitchInv, Chain
  <2>4. \A u \in Threads : caller'[u] # Null => u \in alive' \ finished'
    BY <1>6, <1>7 DEF SwitchInv, Chain
  <2>5. \A u \in Threads : caller'[u] \in Threads => caller'[caller'[u]] # Null
    BY <1>6, SidesAssumption DEF SwitchInv, Chain
  <2> QED  BY <1>3, <1>9, <2>1, <2>2, <2>3, <2>4, <2>5 DEF Chain
<1>14. CallersIntact'
  <2> SUFFICES ASSUME NEW u \in Threads, caller'[u] # Null
               PROVE  LET d == caller'[u]
                      IN  /\ ~left'[d].pushed
                          /\ local'[u] = [rsp |-> [ctx |-> d, idx |-> left'[d].rsp.idx - 1],
                                          callee |-> left'[d].callee, rdi |-> u, rsi |-> left'[d].tells]
                          /\ mem'[d][left'[d].rsp.idx - 1] = left'[d].rip
                          /\ left'[d].callee \in Values
    BY DEF CallersIntact
  <2>1. u # t /\ caller'[u] = caller[u] /\ local'[u] = local[u]
    BY <1>6
  <2>2. caller[u] \in Sides /\ caller[u] \notin {c, t}
    BY <1>1, <2>1 DEF SwitchInv, Chain, Types
  <2>3. left'[caller[u]] = left[caller[u]] /\ mem'[caller[u]] = mem[caller[u]]
    BY <1>4, <1>5, <2>2
  <2> QED  BY <2>1, <2>3 DEF SwitchInv, CallersIntact
<1>15. SuspendedIntact'
  <2> SUFFICES ASSUME NEW u \in alive' \ finished', caller'[u] = Null
               PROVE  /\ mem'[u][RSP] = Addr([ctx |-> u, idx |-> Slot(u)'])
                      /\ mem'[u][Slot(u)'] = IF left'[u].pushed THEN This(u) ELSE left'[u].rip
                      /\ mem'[u][CALLEE] = Reg(left'[u].callee)
                      /\ left'[u].callee \in Values
                      /\ mem'[u][RDI] = This(u)
    BY DEF SuspendedIntact
  <2>1. CASE u = t
    <3>1. PICK rsi : SavedAs(m, t, site, pushed, rsi)
      BY <1>7, <1>8, <2>1
    <3>2. left'[t] = [rip |-> Code(site), rsp |-> cpu.rsp, callee |-> cpu.callee, tells |-> tells, pushed |-> pushed]
      BY <1>7, <1>8, <2>1
    <3>3. Slot(t)' = r - (IF pushed THEN 2 ELSE 1)
      BY <3>2 DEF Slot
    <3> QED  BY <1>2, <1>4, <2>1, <3>1, <3>2, <3>3 DEF SavedAs
  <2>2. CASE u # t
    <3>1. u \in Threads /\ u \in Sides /\ caller[u] = Null /\ u \in alive \ finished
      BY <1>6, <1>7, <2>2 DEF SwitchInv, Types, Sides
    <3>2. u # c
      BY <1>1, <3>1 DEF SwitchInv, Chain
    <3>3. left'[u] = left[u] /\ mem'[u] = mem[u] /\ Slot(u)' = Slot(u)
      BY <1>4, <1>5, <2>2, <3>1, <3>2 DEF Slot
    <3> QED  BY <3>1, <3>3 DEF SwitchInv, SuspendedIntact
  <2> QED  BY <2>1, <2>2
<1>16. Tops'
  <2> SUFFICES ASSUME NEW u \in alive
               PROVE  mem'[u][Entry] = mem[u][Entry] /\ mem'[u][Entry + 1] = mem[u][Entry + 1]
    BY <1>6 DEF SwitchInv, Tops
  <2>1. u \in Sides
    BY DEF SwitchInv, Types, Sides
  <2> QED  BY <1>1, <1>2, <1>4, <2>1
<1> QED  BY <1>10, <1>11, <1>12, <1>13, <1>14, <1>15, <1>16 DEF SwitchInv

\* The caller of t goes on where it left, and run tells it how t left.
GoesBack(t) ==
  /\ Running = t
  /\ \E m, rax :
       /\ WentBack(m, t, caller[t], rax)
       /\ rax = IF t \in finished' THEN 1 ELSE left'[t].tells

LEMMA StaysGives ==
  ASSUME Fits, SwitchInv, Executing, NEW t \in Threads, Running = t, NEW tells \in {0, 2},
         NEW m, NEW site \in Sites, NEW pushed \in BOOLEAN, NEW rsi, SavedAs(m, t, site, pushed, rsi),
         RestoreUser(m, t, tells), LeavesPushed(caller[t], site, tells, pushed), finished' = finished
  PROVE  SwitchInv' /\ GoesBack(t)
<1>1. m \in Mem /\ AgreeOff(m, mem, t, 0..(cpu.rsp.idx - 1)) /\ tells \in Tellings
  BY DEF SavedAs, Tellings
<1>2. WentBack(m, t, caller[t], tells)
  BY <1>1, RestoreGives
<1>3. Stays(m, t, caller[t], site, tells, pushed)
  BY DEF Stays
<1>4. SwitchInv'
  BY <1>1, <1>2, <1>3, BackKeeps
<1>5. t \notin finished'
  BY SidesAssumption DEF SwitchInv, Chain, Live
<1>6. left'[t].tells = tells
  <2>1. left \in [Sides -> LeftRecords] /\ t \in Sides /\ caller[t] # t
    BY CallerGives DEF SwitchInv, Types, Sides
  <2> QED  BY <2>1 DEF LeavesPushed, Running
<1> QED  BY <1>2, <1>4, <1>5, <1>6 DEF GoesBack

LEMMA EndsGives ==
  ASSUME Fits, SwitchInv, Executing, NEW t \in Threads, Running = t,
         NEW m \in Mem, AgreeOff(m, mem, t, 0..(cpu.rsp.idx - 1)),
         RestoreUser(m, t, 1), Ends(t, caller[t])
  PROVE  SwitchInv' /\ GoesBack(t)
<1>1. 1 \in Tellings /\ 0 \in Tellings /\ FALSE \in BOOLEAN
  BY DEF Tellings
<1>2. WentBack(m, t, caller[t], 1)
  BY RestoreGives
<1>3. SwitchInv'
  BY <1>1, <1>2, BackKeeps
<1> QED  BY <1>2, <1>3 DEF GoesBack, Ends

LEMMA YieldGives ==
  ASSUME Fits, SwitchInv, Executing, NEW t \in Threads, NEW site \in Sites, NEW blocked \in {0, 1},
         Yield(t, site, blocked)
  PROVE  SwitchInv' /\ GoesBack(t)
<1> DEFINE m == Suspended(t, site, Flag(blocked))
           tells == IF blocked # 0 THEN 2 ELSE 0
<1>1. Running = t /\ finished' = finished
  BY DEF Yield
<1>2. SavedAs(m, t, site, FALSE, Flag(blocked))
  BY <1>1, WordsOK, SuspendedSaves
<1>3. local[t].rdi = t
  BY <1>1, CallerGives
<1>4. (IF m[local[t].rdi][RSI].val # 0 THEN 2 ELSE 0) = tells
  BY <1>2, <1>3 DEF SavedAs, Flag
<1>5. RestoreUser(m, t, tells)
  <2>1. RestoreUser(m, t, IF m[local[t].rdi][RSI].val # 0 THEN 2 ELSE 0)
    BY DEF Yield
  <2> QED  BY <1>4, <2>1
<1>6. LeavesPushed(caller[t], site, tells, FALSE)
  BY DEF Yield, Leaves
<1>7. tells \in {0, 2}
  OBVIOUS
<1> HIDE DEF m, tells
<1> QED  BY <1>1, <1>2, <1>5, <1>6, <1>7, StaysGives

LEMMA YieldEventGives ==
  ASSUME Fits, SwitchInv, Executing, NEW t \in Threads, NEW site \in Sites, YieldEvent(t, site)
  PROVE  SwitchInv' /\ GoesBack(t)
<1> DEFINE m == Suspended(t, site, Word("param"))
<1>1. /\ Running = t /\ finished' = finished
      /\ RestoreUser(m, t, 2) /\ LeavesPushed(caller[t], site, 2, FALSE)
  BY DEF YieldEvent, Leaves
<1>2. SavedAs(m, t, site, FALSE, Word("param"))
  BY <1>1, WordsOK, SuspendedSaves
<1> HIDE DEF m
<1> QED  BY <1>1, <1>2, StaysGives

LEMMA YieldEventsGives ==
  ASSUME Fits, SwitchInv, Executing, NEW t \in Threads, NEW site \in Sites, YieldEvents(t, site)
  PROVE  SwitchInv' /\ GoesBack(t)
<1>1. /\ Running = t /\ finished' = finished
      /\ RestoreUser(PushedBy(t, site), t, 2) /\ LeavesPushed(caller[t], site, 2, TRUE)
  BY DEF YieldEvents, PushedBy
<1>2. SavedAs(PushedBy(t, site), t, site, TRUE, Word("param"))
  BY <1>1, PushedSaves
<1> QED  BY <1>1, <1>2, StaysGives

LEMMA SuicideGives ==
  ASSUME Fits, SwitchInv, Executing, NEW t \in Threads, NEW site \in Sites, Suicide(t, site)
  PROVE  SwitchInv' /\ GoesBack(t)
<1>1. Running = t /\ RestoreUser(Called(site), t, 1) /\ Ends(t, caller[t])
  BY DEF Suicide, Ends
<1>2. Called(site) \in Mem /\ AgreeOff(Called(site), mem, t, {cpu.rsp.idx - 1})
  BY <1>1, CalledGives
<1>3. cpu.rsp.idx - 1 \in 0..(cpu.rsp.idx - 1)
  <2>1. cpu.rsp.idx \in Int /\ cpu.rsp.idx - 1 \in Indices
    BY RunningGives
  <2> QED  BY <2>1 DEF Indices
<1>4. AgreeOff(Called(site), mem, t, 0..(cpu.rsp.idx - 1))
  BY <1>2, <1>3 DEF AgreeOff
<1> QED  BY <1>1, <1>2, <1>4, EndsGives

LEMMA FinishGives ==
  ASSUME Fits, SwitchInv, Executing, NEW t \in Threads, Finish(t)
  PROVE  SwitchInv' /\ GoesBack(t)
<1>1. Running = t /\ cpu.rsp.idx = Entry
  BY DEF Finish
<1>2. mem \in Mem /\ AgreeOff(mem, mem, t, 0..(cpu.rsp.idx - 1))
  BY DEF SwitchInv, Types, AgreeOff
<1>3. At(mem, Up(cpu.rsp, 1)).val = t
  <2>1. cpu.rsp \in Places /\ cpu.rsp.idx + 1 \in Indices
    BY <1>1, SizesAssumption DEF SwitchInv, Types, Entry, RetAddrIdx, Indices
  <2>2. Up(cpu.rsp, 1) = [ctx |-> t, idx |-> Entry + 1]
    BY <1>1, <2>1, UpGives DEF Running
  <2>3. t \in alive
    BY <1>1, SidesAssumption DEF SwitchInv, Chain, Live
  <2>4. mem[t][Entry + 1] = This(t)
    BY <2>3 DEF SwitchInv, Tops
  <2> QED  BY <2>2, <2>4 DEF At, This
<1>4. RestoreUser(mem, t, 1) /\ Ends(t, caller[t])
  BY <1>3 DEF Finish, Ends
<1> QED  BY <1>1, <1>2, <1>4, EndsGives

-----------------------------------------------------------------------------
(* A side runs a cothread.                                                 *)

\* The cothread gets control where it left, unless it left through yield_events,
\* and the event that it is given.
GoesTo(t, event) ==
  LET slot == Slot(t)
  IN  /\ t \in alive \ finished /\ t # Running
      /\ cpu' = [rip |-> IF left[t].pushed THEN This(t) ELSE left[t].rip,
                 rsp |-> [ctx |-> t, idx |-> slot + 1], callee |-> left[t].callee, rax |-> event]
      /\ ~left[t].pushed => [ctx |-> t, idx |-> slot + 1] = left[t].rsp
      /\ mem' \in Mem
      /\ \A d \in Sides : d \notin {t, Running} => mem'[d] = mem[d]
      /\ \A i \in Indices : i > slot => mem'[t][i] = mem[t][i]
      /\ \A i \in Indices : i >= cpu.rsp.idx => mem'[Running][i] = mem[Running][i]

\* A cothread that is suspended.
LEMMA SuspendedGives ==
  ASSUME Fits, SwitchInv, NEW t \in alive \ finished, caller[t] = Null
  PROVE  /\ t \in Threads /\ t \in Sides /\ t # Running
         /\ left[t] \in LeftRecords /\ left[t].rsp \in Places /\ left[t].rsp.ctx = t
         /\ left[t].rsp = [ctx |-> t, idx |-> left[t].rsp.idx]
         /\ Depth(t, left[t].rsp.idx) /\ left[t].rsp.idx \in Indices /\ left[t].rsp.idx <= Entry
         /\ Slot(t) \in Indices /\ Slot(t) + 1 \in Indices /\ Slot(t) < left[t].rsp.idx
         /\ Slot(t) - ImplWords >= AreaSize
         /\ ~left[t].pushed => Slot(t) + 1 = left[t].rsp.idx
<1>1. t \in Threads /\ t \in Sides /\ t \in Live
  BY DEF SwitchInv, Types, Sides, Live
<1>2. t # Running
  BY <1>1, SidesAssumption DEF SwitchInv, Chain
<1>3. left[t] \in LeftRecords /\ left[t].rsp \in Places
  BY <1>1 DEF SwitchInv, Types, LeftRecords
<1>4. left[t].rsp.ctx = t /\ Depth(t, left[t].rsp.idx)
  BY <1>1, <1>2 DEF SwitchInv, Heights
<1>5. left[t].rsp = [ctx |-> t, idx |-> left[t].rsp.idx]
  BY <1>3, <1>4 DEF Places
<1> DEFINE h == left[t].rsp.idx
<1>6. h \in Int /\ h <= Entry /\ h - 2 - ImplWords >= AreaSize /\ h \in Indices /\ h - 1 \in Indices /\ h - 2 \in Indices
  BY <1>1, <1>4, Room
<1>7. Slot(t) = h - (IF left[t].pushed THEN 2 ELSE 1)
  BY DEF Slot
<1> HIDE DEF h
<1>8. /\ Slot(t) \in Indices /\ Slot(t) + 1 \in Indices /\ Slot(t) < h /\ Slot(t) - ImplWords >= AreaSize
      /\ ~left[t].pushed => Slot(t) + 1 = h
  <2>1. ImplWords \in Nat /\ AreaSize = 5 /\ h - 2 + 1 = h - 1
    BY <1>6, SizesAssumption DEF AreaSize
  <2>2. CASE left[t].pushed
    BY <1>6, <1>7, <2>1, <2>2
  <2>3. CASE ~left[t].pushed
    BY <1>6, <1>7, <2>1, <2>3
  <2> QED  BY <2>2, <2>3
<1> QED  BY <1>1, <1>2, <1>3, <1>4, <1>5, <1>6, <1>8 DEF h

LEMMA SwitchGives ==
  ASSUME Fits, SwitchInv, Executing, NEW t \in Threads, NEW event \in Events, NEW site \in Sites,
         SwitchTo(t, event, site)
  PROVE  /\ GoesTo(t, event) /\ caller[t] = Null
         /\ mem'[Running][cpu.rsp.idx - 1] = Code(site)
         /\ local' = [local EXCEPT ![t] = [rsp |-> [ctx |-> Running, idx |-> cpu.rsp.idx - 1],
                                           callee |-> cpu.callee, rdi |-> t, rsi |-> event]]
<1> DEFINE m == RunCalled(t, site)
           r == cpu.rsp.idx
           a == [ctx |-> t, idx |-> Slot(t)]
<1>1. t \in alive \ finished /\ caller[t] = Null /\ Runs(t, event, site)
  BY DEF SwitchTo, Runs
<1>2. /\ t \in Sides /\ t # Running /\ Slot(t) \in Indices /\ Slot(t) + 1 \in Indices
      /\ left[t].rsp = [ctx |-> t, idx |-> left[t].rsp.idx]
      /\ ~left[t].pushed => Slot(t) + 1 = left[t].rsp.idx
  BY <1>1, SuspendedGives
<1>3. /\ m \in Mem /\ AgreeOff(m, mem, Running, 0..(r - 1))
      /\ \A d \in Sides : d # Running => m[d] = mem[d]
      /\ m[Running][r - 1] = Code(site)
  BY RunCalledGives
<1>4. m[t] = mem[t]
  BY <1>2, <1>3
<1>5. /\ m[t][RSP] = Addr(a) /\ m[t][CALLEE] = Reg(left[t].callee) /\ m[t][RDI] = This(t)
      /\ m[t][Slot(t)] = IF left[t].pushed THEN This(t) ELSE left[t].rip
  BY <1>1, <1>4 DEF SwitchInv, SuspendedIntact
<1>6. local' = [local EXCEPT ![t] = [rsp |-> [ctx |-> Running, idx |-> r - 1],
                                     callee |-> cpu.callee, rdi |-> t, rsi |-> event]]
  BY <1>1, RunningGives DEF Runs
<1>7. local'[t].rsi = event
  BY <1>6 DEF SwitchInv, Types
<1>8. m[t][RSP].val = a /\ m[t][CALLEE].val = left[t].callee /\ m[t][RDI].val = t
  BY <1>5 DEF Addr, Reg, This
<1>9. cpu' = Ret(m, a, left[t].callee, event) /\ mem' = Popped(m, a)
  <2>1. /\ cpu' = Ret(m, m[t][RSP].val, m[t][CALLEE].val, local'[m[t][RDI].val].rsi)
        /\ mem' = Popped(m, m[t][RSP].val)
    BY DEF SwitchTo
  <2> HIDE DEF m, a
  <2> QED  BY <1>7, <1>8, <2>1
<1> HIDE DEF m
<1>10. a \in Places /\ a.ctx = t /\ a.idx = Slot(t)
  BY <1>2 DEF Places, Indices
<1>11. At(m, a) = IF left[t].pushed THEN This(t) ELSE left[t].rip
  BY <1>5, <1>10 DEF At
<1> HIDE DEF a
<1>12. Up(a, 1) = [ctx |-> t, idx |-> Slot(t) + 1]
  BY <1>2, <1>10, UpGives
<1>13. mem' \in Mem /\ AgreeOff(mem', m, t, (Slot(t) - 1 - ImplWords)..Slot(t))
  BY <1>3, <1>9, <1>10, PoppedGives
<1>14. \A i \in Indices : i > Slot(t) => mem'[t][i] = mem[t][i]
  <2>1. ASSUME NEW i \in Indices, i > Slot(t)
        PROVE  i \notin (Slot(t) - 1 - ImplWords)..Slot(t)
    BY <1>2, <2>1 DEF Indices
  <2> QED  BY <1>4, <1>13, <2>1 DEF AgreeOff
<1>15. \A i \in Indices : i >= r => mem'[Running][i] = mem[Running][i]
  <2>1. r \in Int /\ Running \in Sides
    BY RunningGives
  <2>2. ASSUME NEW i \in Indices, i >= r
        PROVE  i \notin 0..(r - 1)
    BY <2>1, <2>2 DEF Indices
  <2> QED  BY <1>2, <1>3, <1>13, <2>1, <2>2 DEF AgreeOff
<1>16. \A d \in Sides : d \notin {t, Running} => mem'[d] = mem[d]
  BY <1>3, <1>13 DEF AgreeOff
<1>17. mem'[Running][r - 1] = Code(site)
  <2>1. Running \in Sides
    BY RunningGives
  <2> QED  BY <1>2, <1>3, <1>13, <2>1 DEF AgreeOff
<1> QED  BY <1>1, <1>2, <1>6, <1>9, <1>17, <1>11, <1>12, <1>13, <1>14, <1>15, <1>16 DEF GoesTo, Ret

LEMMA SwitchKeeps ==
  ASSUME Fits, SwitchInv, Executing, NEW t \in Threads, NEW event \in Events, NEW site \in Sites,
         SwitchTo(t, event, site)
  PROVE  SwitchInv' /\ cpu'.rax = left'[caller'[t]].tells
<1> DEFINE r == cpu.rsp.idx
           h == left[t].rsp.idx
           gone == [rip |-> Code(site), rsp |-> cpu.rsp, callee |-> cpu.callee, tells |-> event, pushed |-> FALSE]
           saved == [rsp |-> [ctx |-> Running, idx |-> r - 1], callee |-> cpu.callee, rdi |-> t, rsi |-> event]
<1> PICK c : c = Running
  OBVIOUS
<1>1. /\ t \in alive \ finished /\ caller[t] = Null /\ GoesTo(t, event)
      /\ local' = [local EXCEPT ![t] = saved] /\ mem'[c][r - 1] = Code(site)
  BY SwitchGives DEF GoesTo
<1>2. /\ t \in Sides /\ t # c /\ t \in Live /\ left[t] \in LeftRecords /\ Depth(t, h)
      /\ h \in Indices /\ h <= Entry /\ Slot(t) \in Indices /\ Slot(t) + 1 \in Indices /\ Slot(t) < h
      /\ ~left[t].pushed => Slot(t) + 1 = h
  BY <1>1, SuspendedGives DEF Live
<1>3. /\ c \in Sides /\ c \in Live /\ r \in Int /\ r <= Entry /\ r \in Indices /\ r - 1 \in Indices
      /\ Depth(c, r) /\ cpu.rsp \in Places /\ cpu.rsp.ctx = c /\ cpu.callee \in Values
      /\ Entry \in Int /\ Entry \in Indices /\ Entry + 1 \in Indices /\ Indices \subseteq Int
  BY RunningGives, SizesAssumption DEF Entry, RetAddrIdx, Indices, Running, SwitchInv, Chain
<1>4. /\ caller' = [caller EXCEPT ![t] = c] /\ left' = [left EXCEPT ![t] = Here, ![c] = gone]
      /\ finished' = finished /\ alive' = alive
  BY DEF SwitchTo, Leaves, LeavesPushed
<1>5. Running' = t /\ cpu'.rsp.idx = Slot(t) + 1 /\ (Executing' => ~left[t].pushed) /\ Live' = Live
  BY <1>1, <1>4 DEF GoesTo, Running, Executing, This, Live
<1>6. /\ left' \in [Sides -> LeftRecords] /\ left'[c] = gone
      /\ \A d \in Sides : d \notin {c, t} => left'[d] = left[d]
  <2>1. Here \in LeftRecords
    BY WordsOK, <1>3 DEF Here, LeftRecords, Tellings, Places, Sides, Indices
  <2>2. gone \in LeftRecords
    BY WordsOK, <1>3 DEF LeftRecords, Tellings
  <2>3. left \in [Sides -> LeftRecords]
    BY DEF SwitchInv, Types
  <2> HIDE DEF gone
  <2> QED  BY <1>2, <1>3, <1>4, <2>1, <2>2, <2>3
<1>7. /\ \A d \in Sides : d \notin {t, c} => mem'[d] = mem[d]
      /\ \A i \in Indices : i > Slot(t) => mem'[t][i] = mem[t][i]
      /\ \A i \in Indices : i >= r => mem'[c][i] = mem[c][i]
  BY <1>1 DEF GoesTo
<1>8. /\ caller'[t] = c /\ local'[t] = saved
      /\ \A u \in Threads : u # t => caller'[u] = caller[u] /\ local'[u] = local[u]
  BY <1>1, <1>4 DEF SwitchInv, Types
<1>9. c # Null /\ t # Null /\ t # Main
  BY <1>3, SidesAssumption DEF Sides
<1>10. Types'
  <2>1. saved \in Contexts
    BY <1>3 DEF Contexts, Places, Tellings, Indices
  <2>2. cpu' \in [rip : Words, rsp : Places, callee : Values, rax : Tellings]
    <3>1. left[t].callee \in Values
      BY <1>1 DEF SwitchInv, SuspendedIntact
    <3>2. left[t].rip \in Words /\ This(t) \in Words
      BY <1>2, WordsOK DEF LeftRecords
    <3>3. [ctx |-> t, idx |-> Slot(t) + 1] \in Places
      BY <1>2 DEF Places, Indices
    <3> QED  BY <1>1, <3>1, <3>2, <3>3 DEF GoesTo, Tellings
  <2>3. local' \in [Threads -> Contexts] /\ caller' \in [Threads -> Sides \cup {Null}]
    BY <1>1, <1>3, <1>4, <2>1 DEF SwitchInv, Types
  <2>4. mem' \in Mem /\ alive' \subseteq Threads /\ finished' \subseteq Threads
    BY <1>1, <1>4 DEF GoesTo, SwitchInv, Types
  <2> QED  BY <1>6, <2>2, <2>3, <2>4 DEF Types, Mem
<1>11. Heights'
  <2>1. Executing' => Depth(t, cpu'.rsp.idx)
    BY <1>2, <1>5
  <2>2. ASSUME NEW d \in Live \ {t}
        PROVE  left'[d].rsp.ctx = d /\ Depth(d, left'[d].rsp.idx)
    <3>1. CASE d = c
      BY <1>3, <1>6, <3>1
    <3>2. CASE d # c
      <4>1. d \in Sides /\ left'[d] = left[d]
        BY <1>6, <3>2 DEF Live, SwitchInv, Types, Sides
      <4> QED  BY <3>2, <4>1 DEF SwitchInv, Heights
    <3> QED  BY <3>1, <3>2
  <2> QED  BY <1>5, <2>1, <2>2 DEF Heights, Depth
<1>12. Frames'
  <2> SUFFICES ASSUME NEW d \in Live, NEW k \in 1..MaxFrames[d],
                      Entry - 2 * k >= (IF d = t THEN cpu'.rsp.idx ELSE left'[d].rsp.idx),
                      d = t => Executing'
               PROVE  mem'[d][Entry - 2 * k] \in [kind : {"reg"}, val : Values]
    BY <1>5 DEF Frames, Top
  <2>1. d \in Sides
    BY DEF Live, SwitchInv, Types, Sides
  <2> DEFINE i == Entry - 2 * k
  <2>2. MaxFrames[d] \in Nat /\ k \in Int /\ i \in Int /\ i <= Entry
    BY <1>3, <2>1, SizesAssumption DEF Sides
  <2>3. CASE d = t
    <3>1. i >= h
      BY <1>2, <1>5, <2>3
    <3>2. mem[t][i] \in [kind : {"reg"}, val : Values]
      BY <1>2, <2>3, <3>1 DEF SwitchInv, Frames, Top
    <3>3. i \in Indices /\ i > Slot(t)
      <4> HIDE DEF i, h
      <4> QED  BY <1>2, <1>3, <2>2, <3>1, SizesAssumption DEF Indices
    <3> HIDE DEF i
    <3>4. mem'[d][i] \in [kind : {"reg"}, val : Values]
      BY <1>7, <2>3, <3>2, <3>3
    <3> QED  BY <3>4 DEF i
  <2>4. CASE d = c
    <3>1. i >= r
      BY <1>2, <1>6, <2>4
    <3>2. mem[c][i] \in [kind : {"reg"}, val : Values]
      BY <1>3, <2>4, <3>1 DEF SwitchInv, Frames, Top
    <3>3. i \in Indices
      <4> HIDE DEF i
      <4> QED  BY <1>3, <2>2, <3>1, SizesAssumption DEF Indices
    <3> HIDE DEF i
    <3>4. mem'[d][i] \in [kind : {"reg"}, val : Values]
      BY <1>7, <2>4, <3>1, <3>2, <3>3
    <3> QED  BY <3>4 DEF i
  <2>5. CASE d \notin {c, t}
    <3>1. left'[d] = left[d] /\ mem'[d] = mem[d]
      BY <1>6, <1>7, <2>1, <2>5
    <3> QED  BY <2>5, <3>1 DEF SwitchInv, Frames, Top
  <2> QED  BY <2>3, <2>4, <2>5
<1>13. Chain'
  <2>1. \A u \in Threads : caller'[u] # t
    BY <1>1, <1>2, <1>8 DEF SwitchInv, Chain
  <2>2. \A u, w \in Threads : caller'[u] = caller'[w] /\ caller'[u] # Null => u = w
    BY <1>8 DEF SwitchInv, Chain
  <2>3. \A u \in Threads : caller'[u] # Null => u \in alive' \ finished'
    BY <1>1, <1>4, <1>8 DEF SwitchInv, Chain
  <2>4. \A u \in Threads : caller'[u] \in Threads => caller'[caller'[u]] # Null
    BY <1>2, <1>8, <1>9, SidesAssumption DEF SwitchInv, Chain
  <2>5. caller'[t] # Null
    BY <1>8, <1>9
  <2> QED  BY <1>2, <1>5, <2>1, <2>2, <2>3, <2>4, <2>5 DEF Chain
<1>14. CallersIntact'
  <2> SUFFICES ASSUME NEW u \in Threads, caller'[u] # Null
               PROVE  LET d == caller'[u]
                      IN  /\ ~left'[d].pushed
                          /\ local'[u] = [rsp |-> [ctx |-> d, idx |-> left'[d].rsp.idx - 1],
                                          callee |-> left'[d].callee, rdi |-> u, rsi |-> left'[d].tells]
                          /\ mem'[d][left'[d].rsp.idx - 1] = left'[d].rip
                          /\ left'[d].callee \in Values
    BY DEF CallersIntact
  <2>1. CASE u = t
    BY <1>1, <1>3, <1>6, <1>8, <2>1
  <2>2. CASE u # t
    <3>1. caller'[u] = caller[u] /\ local'[u] = local[u]
      BY <1>8, <2>2
    <3>2. caller[u] \in Sides /\ caller[u] \notin {c, t}
      BY <1>1, <1>9, <3>1 DEF SwitchInv, Chain, Types
    <3>3. left'[caller[u]] = left[caller[u]] /\ mem'[caller[u]] = mem[caller[u]]
      BY <1>6, <1>7, <3>2
    <3> QED  BY <3>1, <3>3 DEF SwitchInv, CallersIntact
  <2> QED  BY <2>1, <2>2
<1>15. SuspendedIntact'
  <2> SUFFICES ASSUME NEW u \in alive \ finished, caller'[u] = Null
               PROVE  /\ mem'[u][RSP] = Addr([ctx |-> u, idx |-> Slot(u)'])
                      /\ mem'[u][Slot(u)'] = IF left'[u].pushed THEN This(u) ELSE left'[u].rip
                      /\ mem'[u][CALLEE] = Reg(left'[u].callee)
                      /\ left'[u].callee \in Values
                      /\ mem'[u][RDI] = This(u)
    BY <1>4 DEF SuspendedIntact
  <2>1. u # t /\ u \in Threads /\ u \in Sides /\ caller[u] = Null
    BY <1>8, <1>9 DEF SwitchInv, Types, Sides
  <2>2. u # c
    BY <2>1, SidesAssumption DEF SwitchInv, Chain
  <2>3. left'[u] = left[u] /\ mem'[u] = mem[u] /\ Slot(u)' = Slot(u)
    BY <1>6, <1>7, <2>1, <2>2 DEF Slot
  <2> QED  BY <2>1, <2>3 DEF SwitchInv, SuspendedIntact
<1>16. Tops'
  <2> SUFFICES ASSUME NEW u \in alive
               PROVE  mem'[u][Entry] = mem[u][Entry] /\ mem'[u][Entry + 1] = mem[u][Entry + 1]
    BY <1>4 DEF SwitchInv, Tops
  <2>1. u \in Sides
    BY DEF SwitchInv, Types, Sides
  <2>2. Entry > Slot(t) /\ Entry + 1 > Slot(t) /\ Entry >= r /\ Entry + 1 >= r
    <3>1. h \in Int /\ Slot(t) \in Int
      BY <1>2, <1>3
    <3> HIDE DEF h, r
    <3> QED  BY <1>2, <1>3, <3>1
  <2> QED  BY <1>3, <1>7, <2>1, <2>2
<1>17. cpu'.rax = left'[caller'[t]].tells
  BY <1>1, <1>6, <1>8 DEF GoesTo
<1> QED  BY <1>10, <1>11, <1>12, <1>13, <1>14, <1>15, <1>16, <1>17 DEF SwitchInv

-----------------------------------------------------------------------------
(* The steps that leave control where it is.                               *)

\* The side that runs has moved its stack to idx and changed only what is below.
MovedTo(idx) ==
  /\ cpu' \in [rip : Words, rsp : Places, callee : Values, rax : Tellings]
  /\ cpu'.rsp = [ctx |-> Running, idx |-> idx] /\ Depth(Running, idx)
  /\ mem' \in Mem
  /\ \A d \in Sides : d # Running => mem'[d] = mem[d]
  /\ \A i \in Indices : i >= cpu.rsp.idx /\ i >= idx => mem'[Running][i] = mem[Running][i]
  /\ local' \in [Threads -> Contexts]
  /\ \A u \in Threads : caller[u] # Null => local'[u] = local[u]
  /\ UNCHANGED <<finished, alive, caller, left>>

LEMMA MoveKeeps ==
  ASSUME Fits, SwitchInv, Executing, NEW idx, MovedTo(idx),
         \A k \in 1..MaxFrames[Running] : Entry - 2 * k >= idx /\ Entry - 2 * k < cpu.rsp.idx =>
           mem'[Running][Entry - 2 * k] \in [kind : {"reg"}, val : Values]
  PROVE  SwitchInv'
<1> PICK c : c = Running
  OBVIOUS
<1>1. /\ Running' = c /\ cpu'.rsp.idx = idx /\ Live' = Live
      /\ left' = left /\ caller' = caller /\ alive' = alive /\ finished' = finished
  BY DEF MovedTo, Running, Live
<1>2. /\ c \in Sides /\ c \in Live /\ cpu.rsp.idx \in Indices /\ cpu.rsp.idx \in Int
      /\ idx \in Int /\ idx \in Indices /\ idx <= Entry /\ cpu.rsp.idx <= Entry
      /\ Entry \in Int /\ Entry \in Indices /\ Entry + 1 \in Indices /\ Indices \subseteq Int
  BY RunningGives, Room, SizesAssumption DEF MovedTo, Entry, RetAddrIdx, Indices, SwitchInv, Chain
<1>3. Types'
  BY <1>1 DEF MovedTo, SwitchInv, Types, Mem
<1>4. Heights'
  BY <1>1 DEF MovedTo, SwitchInv, Heights, Depth
<1>5. Frames'
  <2> SUFFICES ASSUME NEW d \in Live, NEW k \in 1..MaxFrames[d],
                      Entry - 2 * k >= (IF d = c THEN idx ELSE left[d].rsp.idx)
               PROVE  mem'[d][Entry - 2 * k] \in [kind : {"reg"}, val : Values]
    BY <1>1 DEF Frames, Top
  <2>1. d \in Sides
    BY DEF Live, SwitchInv, Types, Sides
  <2> DEFINE i == Entry - 2 * k
  <2>2. MaxFrames[d] \in Nat /\ k \in Int /\ i \in Int /\ i <= Entry
    BY <1>2, <2>1, SizesAssumption DEF Sides
  <2>3. CASE d = c /\ i < cpu.rsp.idx
    BY <2>3
  <2>4. CASE d = c /\ ~(i < cpu.rsp.idx)
    <3>1. i >= idx /\ i >= cpu.rsp.idx
      <4>1. i >= idx
        BY <2>4
      <4> HIDE DEF i
      <4> QED  BY <1>2, <2>2, <2>4, <4>1
    <3>2. mem[c][i] \in [kind : {"reg"}, val : Values]
      BY <1>2, <2>4, <3>1 DEF SwitchInv, Frames, Top
    <3>3. i \in Indices
      <4> HIDE DEF i
      <4> QED  BY <1>2, <2>2, <3>1, SizesAssumption DEF Indices
    <3> HIDE DEF i
    <3>4. mem'[d][i] \in [kind : {"reg"}, val : Values]
      BY <2>4, <3>1, <3>2, <3>3 DEF MovedTo
    <3> QED  BY <3>4 DEF i
  <2>5. CASE d # c
    BY <2>1, <2>5 DEF MovedTo, SwitchInv, Frames, Top
  <2> QED  BY <2>3, <2>4, <2>5
<1>6. Chain'
  BY <1>1 DEF SwitchInv, Chain
<1>7. CallersIntact'
  <2> SUFFICES ASSUME NEW u \in Threads, caller[u] # Null
               PROVE  local'[u] = local[u] /\ mem'[caller[u]] = mem[caller[u]]
    BY <1>1 DEF SwitchInv, CallersIntact
  <2> QED  BY DEF MovedTo, SwitchInv, Chain, Types
<1>8. SuspendedIntact'
  <2> SUFFICES ASSUME NEW u \in alive \ finished, caller[u] = Null
               PROVE  mem'[u] = mem[u]
    BY <1>1 DEF SwitchInv, SuspendedIntact, Slot
  <2> QED  BY SuspendedGives DEF MovedTo
<1>9. Tops'
  <2> SUFFICES ASSUME NEW u \in alive
               PROVE  mem'[u][Entry] = mem[u][Entry] /\ mem'[u][Entry + 1] = mem[u][Entry + 1]
    BY <1>1 DEF SwitchInv, Tops
  <2>1. u \in Sides
    BY DEF SwitchInv, Types, Sides
  <2>2. Entry >= idx /\ Entry + 1 >= idx /\ Entry >= cpu.rsp.idx /\ Entry + 1 >= cpu.rsp.idx
    BY <1>2
  <2> QED  BY <1>2, <2>1, <2>2 DEF MovedTo
<1> QED  BY <1>3, <1>4, <1>5, <1>6, <1>7, <1>8, <1>9 DEF SwitchInv

LEMMA EnterKeeps ==
  ASSUME Fits, SwitchInv, Executing, NEW v \in Values, Enter(v)
  PROVE  SwitchInv' /\ caller' = caller
<1> DEFINE r == cpu.rsp.idx
           a == Down(cpu.rsp, 1)
           b == Down(cpu.rsp, 2)
           n == Poke(mem, a, Code(Null))
<1> PICK c : c = Running
  OBVIOUS
<1>1. /\ a \in Places /\ a.ctx = c /\ a.idx = r - 1
      /\ b \in Places /\ b = [ctx |-> c, idx |-> r - 2] /\ b.ctx = c /\ b.idx = r - 2
      /\ c \in Sides /\ r \in Int /\ cpu.callee \in Values /\ Indices \subseteq Int /\ r - 2 \in Indices
      /\ mem \in Mem /\ Code(Null) \in Words /\ Reg(cpu.callee) \in Words
  BY RunningGives, WordsOK, SizesAssumption DEF SwitchInv, Types, Indices
<1>2. mem' = Poke(n, b, Reg(cpu.callee))
  BY DEF Enter
<1>3. cpu' = [cpu EXCEPT !.rsp = b, !.callee = v]
  BY DEF Enter, Down
<1> HIDE DEF a, b
<1>4. n \in Mem /\ AgreeOff(n, mem, c, {r - 1})
  <2>1. n \in Mem /\ AgreeOff(n, mem, a.ctx, {a.idx})
    BY <1>1, PokeGives
  <2> QED  BY <1>1, <2>1
<1> HIDE DEF n
<1>5. mem' \in Mem /\ AgreeOff(mem', n, c, {r - 2}) /\ mem'[c][r - 2] = Reg(cpu.callee)
  <2>1. mem' \in Mem /\ AgreeOff(mem', n, b.ctx, {b.idx}) /\ mem'[b.ctx][b.idx] = Reg(cpu.callee)
    BY <1>1, <1>2, <1>4, PokeGives
  <2> QED  BY <1>1, <2>1
<1>6. PICK k \in 0..MaxFrames[c] : r = Entry - 2 * k
  BY RunningGives DEF Depth
<1>7. MaxFrames[c] \in Nat /\ Entry \in Int
  BY <1>1, SizesAssumption DEF Sides, Entry, RetAddrIdx
<1>8. Depth(c, r - 2)
  <2>1. Entry - 2 * k > Entry - 2 * MaxFrames[c]
    BY <1>6 DEF Enter
  <2>2. k + 1 \in 0..MaxFrames[c] /\ r - 2 = Entry - 2 * (k + 1)
    <3> HIDE DEF r
    <3> QED  BY <1>6, <1>7, <2>1
  <2> QED  BY <2>2 DEF Depth
<1>9. \A i \in Indices : i >= r => mem'[c][i] = mem[c][i]
  BY <1>1, <1>4, <1>5 DEF AgreeOff
<1>10. \A d \in Sides : d # c => mem'[d] = mem[d]
  BY <1>4, <1>5 DEF AgreeOff
<1>11. /\ cpu' \in [rip : Words, rsp : Places, callee : Values, rax : Tellings]
       /\ cpu'.rsp = [ctx |-> c, idx |-> r - 2]
  BY <1>1, <1>3 DEF SwitchInv, Types
<1>12. MovedTo(r - 2)
  BY <1>5, <1>8, <1>9, <1>10, <1>11 DEF MovedTo, Enter, SwitchInv, Types
<1>13. ASSUME NEW j \in 1..MaxFrames[c], Entry - 2 * j >= r - 2, Entry - 2 * j < r
       PROVE  mem'[c][Entry - 2 * j] \in [kind : {"reg"}, val : Values]
  <2>1. Entry - 2 * j = r - 2
    <3> HIDE DEF r
    <3> QED  BY <1>6, <1>7, <1>13
  <2> QED  BY <1>1, <1>5, <2>1 DEF Reg
<1> QED  BY <1>12, <1>13, MoveKeeps DEF MovedTo

LEMMA LeaveKeeps ==
  ASSUME Fits, SwitchInv, Executing, Leave
  PROVE  SwitchInv' /\ caller' = caller
<1> DEFINE r == cpu.rsp.idx
           a == Up(cpu.rsp, 1)
           b == Up(cpu.rsp, 2)
<1> PICK c : c = Running
  OBVIOUS
<1>1. /\ c \in Sides /\ c \in Live /\ r \in Int /\ r \in Indices /\ Indices \subseteq Int
      /\ cpu.rsp \in Places /\ cpu.rsp.ctx = c
      /\ mem \in Mem /\ Entry \in Int /\ MaxFrames[c] \in Nat /\ ImplWords \in Nat
  BY RunningGives, SizesAssumption DEF SwitchInv, Types, Chain, Indices, Entry, RetAddrIdx, Running, Sides
<1>2. PICK k \in 0..MaxFrames[c] : r = Entry - 2 * k
  BY RunningGives DEF Depth
<1>3. k \in 1..MaxFrames[c] /\ k - 1 \in 0..MaxFrames[c] /\ r + 2 = Entry - 2 * (k - 1) /\ r + 2 <= Entry
  <2>1. Entry - 2 * k < Entry
    BY <1>2 DEF Leave
  <2> HIDE DEF r
  <2> QED  BY <1>1, <1>2, <2>1
<1>4. r + 1 \in Indices /\ r + 2 \in Indices /\ Depth(c, r + 2)
  <2>1. Depth(c, r + 2)
    BY <1>3 DEF Depth
  <2> HIDE DEF r
  <2> QED  BY <1>1, <1>3, <2>1, SizesAssumption DEF Indices, Entry, RetAddrIdx
<1>5. /\ a \in Places /\ a.ctx = c /\ a.idx = r + 1
      /\ b \in Places /\ b = [ctx |-> c, idx |-> r + 2]
  BY <1>1, <1>4, UpGives
<1>6. mem[c][r] \in [kind : {"reg"}, val : Values]
  BY <1>1, <1>2, <1>3 DEF SwitchInv, Frames, Top
<1>7. cpu' = [cpu EXCEPT !.rsp = b, !.callee = At(mem, cpu.rsp).val, !.rip = At(mem, a)] /\ mem' = Popped(mem, a)
  BY DEF Leave, Up
<1>8. At(mem, cpu.rsp).val \in Values
  BY <1>1, <1>6 DEF At
<1> HIDE DEF a, b
<1>9. At(mem, a) \in Words
  BY <1>1, <1>4, <1>5 DEF At, Mem
<1>10. mem' \in Mem /\ AgreeOff(mem', mem, c, (r - ImplWords)..(r + 1))
  <2>1. mem' \in Mem /\ AgreeOff(mem', mem, a.ctx, (a.idx - 1 - ImplWords)..a.idx)
    BY <1>1, <1>5, <1>7, PoppedGives
  <2>2. a.idx - 1 - ImplWords = r - ImplWords
    BY <1>1, <1>5
  <2> QED  BY <1>5, <2>1, <2>2
<1>11. \A i \in Indices : i >= r + 2 => mem'[c][i] = mem[c][i]
  BY <1>1, <1>10 DEF AgreeOff
<1>12. \A d \in Sides : d # c => mem'[d] = mem[d]
  BY <1>10 DEF AgreeOff
<1>13. /\ cpu' \in [rip : Words, rsp : Places, callee : Values, rax : Tellings]
       /\ cpu'.rsp = [ctx |-> c, idx |-> r + 2]
  BY <1>5, <1>7, <1>8, <1>9 DEF SwitchInv, Types
<1>14. MovedTo(r + 2)
  BY <1>4, <1>10, <1>11, <1>12, <1>13 DEF MovedTo, Leave, SwitchInv, Types
<1>15. ASSUME NEW j \in 1..MaxFrames[c], Entry - 2 * j >= r + 2, Entry - 2 * j < r
       PROVE  FALSE
  <2> HIDE DEF r
  <2> QED  BY <1>1, <1>15
<1> QED  BY <1>14, <1>15, MoveKeeps DEF MovedTo

LEMMA RunFinishedKeeps ==
  ASSUME Fits, SwitchInv, Executing, NEW t \in Threads, NEW event \in Events, NEW site \in Sites,
         RunFinished(t, event, site)
  PROVE  SwitchInv' /\ caller' = caller
<1> DEFINE m == RunCalled(t, site)
           r == cpu.rsp.idx
           a == Down(cpu.rsp, 1)
<1> PICK c : c = Running
  OBVIOUS
<1>1. /\ c \in Sides /\ r \in Int /\ r \in Indices /\ r - 1 \in Indices /\ Indices \subseteq Int /\ Depth(c, r)
      /\ cpu.rsp \in Places /\ cpu.rsp.ctx = c /\ cpu.callee \in Values /\ ImplWords \in Nat
      /\ a \in Places /\ a = [ctx |-> c, idx |-> r - 1] /\ a.ctx = c /\ a.idx = r - 1
  BY RunningGives, SizesAssumption DEF Indices, Running
<1>2. /\ m \in Mem /\ AgreeOff(m, mem, c, 0..(r - 1)) /\ m[c][r - 1] = Code(site)
  BY RunCalledGives
<1>3. /\ cpu' = Ret(m, a, cpu.callee, 1) /\ mem' = Popped(m, a)
      /\ local' = [local EXCEPT ![t] = [rsp |-> a, callee |-> cpu.callee, rdi |-> t, rsi |-> event]]
      /\ caller[t] = Null
  BY DEF RunFinished, Runs
<1> HIDE DEF m, a
<1>4. cpu' = [rip |-> Code(site), rsp |-> [ctx |-> c, idx |-> r], callee |-> cpu.callee, rax |-> 1]
  <2>1. Up(a, 1) = [ctx |-> c, idx |-> r]
    <3>1. a.idx + 1 = r
      BY <1>1
    <3> QED  BY <1>1, <3>1, UpGives
  <2>2. At(m, a) = Code(site)
    BY <1>1, <1>2 DEF At
  <2> QED  BY <1>3, <2>1, <2>2 DEF Ret
<1>5. mem' \in Mem /\ AgreeOff(mem', m, c, (a.idx - 1 - ImplWords)..a.idx)
  BY <1>1, <1>2, <1>3, PoppedGives
<1>6. \A i \in Indices : i >= r => mem'[c][i] = mem[c][i]
  <2>1. ASSUME NEW i \in Indices, i >= r
        PROVE  i \notin (a.idx - 1 - ImplWords)..a.idx /\ i \notin 0..(r - 1)
    BY <1>1, <2>1
  <2> QED  BY <1>2, <1>5, <2>1 DEF AgreeOff
<1>7. \A d \in Sides : d # c => mem'[d] = mem[d]
  BY <1>2, <1>5 DEF AgreeOff
<1>8. cpu' \in [rip : Words, rsp : Places, callee : Values, rax : Tellings]
  BY <1>1, <1>4, WordsOK DEF Places, Indices, Tellings
<1>9. local' \in [Threads -> Contexts] /\ \A u \in Threads : caller[u] # Null => local'[u] = local[u]
  BY <1>1, <1>3 DEF SwitchInv, Types, Contexts, Tellings
<1>10. MovedTo(r)
  BY <1>1, <1>4, <1>5, <1>6, <1>7, <1>8, <1>9 DEF MovedTo, RunFinished
<1>11. ASSUME NEW j \in 1..MaxFrames[c], Entry - 2 * j >= r, Entry - 2 * j < r
       PROVE  FALSE
  <2>1. Entry \in Int /\ MaxFrames[c] \in Nat
    BY <1>1, SizesAssumption DEF Entry, RetAddrIdx, Sides
  <2> HIDE DEF r
  <2> QED  BY <1>1, <1>11, <2>1
<1> QED  BY <1>10, <1>11, MoveKeeps DEF MovedTo

-----------------------------------------------------------------------------
(* Construction and destruction.                                           *)

\* A cothread that does not run and is run by nobody runs nobody.
LEMMA IdleGives ==
  ASSUME SwitchInv, NEW t \in Threads, caller[t] = Null
  PROVE  t # Running /\ \A u \in Threads : caller[u] # t
BY SidesAssumption DEF SwitchInv, Chain

\* Cothread t, which is idle, is set up or taken down.
Reset(t) ==
  /\ caller[t] = Null
  /\ mem' \in Mem /\ \A d \in Sides : d # t => mem'[d] = mem[d]
  /\ left' \in [Sides -> LeftRecords] /\ \A d \in Sides : d # t => left'[d] = left[d]
  /\ alive' \subseteq Threads /\ \A u : u # t => (u \in alive' <=> u \in alive)
  /\ finished' \subseteq Threads /\ \A u : u # t => (u \in finished' <=> u \in finished)
  /\ UNCHANGED <<cpu, local, caller>>

LEMMA ResetKeeps ==
  ASSUME Fits, SwitchInv, Executing, NEW t \in Threads, Reset(t),
         t \in alive' =>
           /\ left'[t] = [rip |-> Func, rsp |-> [ctx |-> t, idx |-> Entry], callee |-> left'[t].callee,
                          tells |-> 0, pushed |-> FALSE]
           /\ left'[t].callee \in Values
           /\ mem'[t][RSP] = Addr([ctx |-> t, idx |-> Entry - 1]) /\ mem'[t][Entry - 1] = Func
           /\ mem'[t][CALLEE] = Reg(left'[t].callee) /\ mem'[t][RDI] = This(t)
           /\ mem'[t][Entry] = FinishCode /\ mem'[t][Entry + 1] = This(t)
  PROVE  SwitchInv'
<1> PICK c : c = Running
  OBVIOUS
<1>1. /\ t # c /\ Running' = c /\ cpu' = cpu /\ caller' = caller /\ local' = local
      /\ (\A u \in Threads : caller[u] # t) /\ t \in Sides /\ t # Main /\ c \in Live
  BY IdleGives, SidesAssumption DEF Reset, Running, Sides, SwitchInv, Chain
<1>2. \A d : d # t => (d \in Live' <=> d \in Live)
  BY DEF Reset, Live
<1>3. Live \subseteq Sides /\ Live' \subseteq Sides /\ (t \in Live' => t \in alive')
  BY <1>1 DEF Reset, Live, SwitchInv, Types, Sides
<1>4. Entry \in Int
  BY SizesAssumption DEF Entry, RetAddrIdx
<1>5. Types'
  BY <1>1 DEF Reset, SwitchInv, Types, Mem
<1>6. Heights'
  <2>1. ASSUME NEW d \in Live' \ {c}
        PROVE  left'[d].rsp.ctx = d /\ Depth(d, left'[d].rsp.idx)
    <3>1. CASE d = t
      <4>1. 0 \in 0..MaxFrames[t] /\ Entry = Entry - 2 * 0
        BY <1>1, <1>4, SizesAssumption DEF Sides
      <4>2. Depth(t, Entry)
        BY <4>1 DEF Depth
      <4>3. left'[t].rsp = [ctx |-> t, idx |-> Entry]
        BY <1>3, <3>1
      <4> QED  BY <3>1, <4>2, <4>3
    <3>2. CASE d # t
      BY <1>2, <1>3, <3>2 DEF Reset, SwitchInv, Heights
    <3> QED  BY <3>1, <3>2
  <2>2. Executing' => Depth(c, cpu'.rsp.idx)
    BY <1>1 DEF Executing, SwitchInv, Heights
  <2> QED  BY <1>1, <2>1, <2>2 DEF Heights, Depth
<1>7. Frames'
  <2> SUFFICES ASSUME NEW d \in Live', NEW k \in 1..MaxFrames[d],
                      Entry - 2 * k >= (IF d = c THEN cpu.rsp.idx ELSE left'[d].rsp.idx)
               PROVE  mem'[d][Entry - 2 * k] \in [kind : {"reg"}, val : Values]
    BY <1>1 DEF Frames, Top
  <2>1. CASE d = t
    <3>1. left'[t].rsp.idx = Entry
      BY <1>3, <2>1
    <3>2. MaxFrames[t] \in Nat
      BY <1>1, SizesAssumption DEF Sides
    <3> QED  BY <1>1, <1>4, <2>1, <3>1, <3>2
  <2>2. CASE d # t
    BY <1>2, <1>3, <2>2 DEF Reset, SwitchInv, Frames, Top
  <2> QED  BY <2>1, <2>2
<1>8. Chain'
  <2>1. \A u \in Threads : caller[u] # Null => u \in alive' \ finished'
    BY DEF Reset, SwitchInv, Chain
  <2> QED  BY <1>1, <1>2, <2>1 DEF SwitchInv, Chain
<1>9. CallersIntact'
  <2> SUFFICES ASSUME NEW u \in Threads, caller[u] # Null
               PROVE  left'[caller[u]] = left[caller[u]] /\ mem'[caller[u]] = mem[caller[u]]
    BY <1>1 DEF SwitchInv, CallersIntact
  <2> QED  BY <1>1 DEF Reset, SwitchInv, Types
<1>10. SuspendedIntact'
  <2> SUFFICES ASSUME NEW u \in alive' \ finished', caller[u] = Null
               PROVE  /\ mem'[u][RSP] = Addr([ctx |-> u, idx |-> Slot(u)'])
                      /\ mem'[u][Slot(u)'] = IF left'[u].pushed THEN This(u) ELSE left'[u].rip
                      /\ mem'[u][CALLEE] = Reg(left'[u].callee)
                      /\ left'[u].callee \in Values
                      /\ mem'[u][RDI] = This(u)
    BY <1>1 DEF SuspendedIntact
  <2>1. CASE u = t
    <3>1. ~left'[t].pushed /\ left'[t].rip = Func /\ left'[t].rsp.idx = Entry
      BY <2>1
    <3>2. Slot(t)' = Entry - 1
      BY <3>1 DEF Slot
    <3> QED  BY <2>1, <3>1, <3>2
  <2>2. CASE u # t
    <3>1. u \in Sides /\ u \in alive \ finished
      BY <2>2 DEF Reset, Sides
    <3>2. left'[u] = left[u] /\ mem'[u] = mem[u] /\ Slot(u)' = Slot(u)
      BY <2>2, <3>1 DEF Reset, Slot
    <3> QED  BY <3>1, <3>2 DEF SwitchInv, SuspendedIntact
  <2> QED  BY <2>1, <2>2
<1>11. Tops'
  <2> SUFFICES ASSUME NEW u \in alive'
               PROVE  mem'[u][Entry] = FinishCode /\ mem'[u][Entry + 1] = This(u)
    BY DEF Tops
  <2>1. CASE u = t
    BY <2>1
  <2>2. CASE u # t
    BY <2>2 DEF Reset, SwitchInv, Tops, Sides
  <2> QED  BY <2>1, <2>2
<1> QED  BY <1>5, <1>6, <1>7, <1>8, <1>9, <1>10, <1>11 DEF SwitchInv

LEMMA SizesGive ==
  /\ {0, 1, 2, 3, 4} \subseteq Indices
  /\ RetAddrIdx \in Indices /\ RetAddrIdx >= 5 /\ RetAddrIdx + 1 \in Indices /\ RetAddrIdx + 2 \in Indices
  /\ Entry = RetAddrIdx + 1 /\ Entry - 1 = RetAddrIdx /\ Entry + 1 = RetAddrIdx + 2
  /\ Entry \in Int /\ RetAddrIdx \in Int
BY SizesAssumption DEF Indices, RetAddrIdx, Entry

LEMMA HereOK == Here \in LeftRecords
BY SizesGive, WordsOK DEF Here, LeftRecords, Tellings, Places, Sides, Indices

LEMMA EmptyOK == EmptyStack \in [Indices -> Words]
BY WordsOK DEF EmptyStack, Indices

LEMMA NewKeeps ==
  ASSUME Fits, SwitchInv, Executing, NEW t \in Threads, New(t)
  PROVE  SwitchInv' /\ caller' = caller
<1>1. t \in Sides /\ caller[t] = Null
  BY DEF New, SwitchInv, Chain, Sides
<1>2. PICK v \in Values :
        /\ mem' = [mem EXCEPT ![t] =
             [EmptyStack EXCEPT ![RIP] = Func, ![RSP] = Addr([ctx |-> t, idx |-> RetAddrIdx]),
                                ![RDI] = This(t), ![RSI] = Word("param"), ![CALLEE] = Reg(v),
                                ![RetAddrIdx] = Func, ![RetAddrIdx + 1] = FinishCode,
                                ![RetAddrIdx + 2] = This(t)]]
        /\ left' = [left EXCEPT ![t] = [rip |-> Func, rsp |-> [ctx |-> t, idx |-> Entry],
                                        callee |-> v, tells |-> 0, pushed |-> FALSE]]
  BY DEF New
<1>3. PICK stack :
        stack = [EmptyStack EXCEPT ![RIP] = Func, ![RSP] = Addr([ctx |-> t, idx |-> RetAddrIdx]),
                                   ![RDI] = This(t), ![RSI] = Word("param"), ![CALLEE] = Reg(v),
                                   ![RetAddrIdx] = Func, ![RetAddrIdx + 1] = FinishCode,
                                   ![RetAddrIdx + 2] = This(t)]
  OBVIOUS
<1>4. [ctx |-> t, idx |-> RetAddrIdx] \in Places /\ [ctx |-> t, idx |-> Entry] \in Places
  BY <1>1, SizesGive DEF Places, Indices
<1>5. stack \in [Indices -> Words]
  BY <1>3, <1>4, EmptyOK, WordsOK
<1>6. /\ stack[RSP] = Addr([ctx |-> t, idx |-> RetAddrIdx]) /\ stack[RetAddrIdx] = Func
      /\ stack[CALLEE] = Reg(v) /\ stack[RDI] = This(t)
      /\ stack[RetAddrIdx + 1] = FinishCode /\ stack[RetAddrIdx + 2] = This(t)
  BY <1>3, EmptyOK, SizesGive DEF RIP, RSP, RDI, RSI, CALLEE
<1>7. mem' = [mem EXCEPT ![t] = stack]
  BY <1>2, <1>3
<1>8. mem' \in Mem /\ mem'[t] = stack /\ \A d \in Sides : d # t => mem'[d] = mem[d]
  BY <1>1, <1>5, <1>7 DEF SwitchInv, Types, Mem
<1>9. [rip |-> Func, rsp |-> [ctx |-> t, idx |-> Entry], callee |-> v, tells |-> 0, pushed |-> FALSE]
        \in LeftRecords
  BY <1>4, WordsOK DEF LeftRecords, Tellings
<1>10. /\ left' \in [Sides -> LeftRecords] /\ \A d \in Sides : d # t => left'[d] = left[d]
       /\ left'[t] = [rip |-> Func, rsp |-> [ctx |-> t, idx |-> Entry], callee |-> v, tells |-> 0, pushed |-> FALSE]
  BY <1>1, <1>2, <1>9 DEF SwitchInv, Types
<1>11. Reset(t)
  BY <1>1, <1>8, <1>10 DEF Reset, New, SwitchInv, Types
<1>12. /\ left'[t].callee = v
       /\ left'[t] = [rip |-> Func, rsp |-> [ctx |-> t, idx |-> Entry], callee |-> left'[t].callee,
                      tells |-> 0, pushed |-> FALSE]
  BY <1>10
<1>13. /\ mem'[t][RSP] = Addr([ctx |-> t, idx |-> Entry - 1]) /\ mem'[t][Entry - 1] = Func
       /\ mem'[t][CALLEE] = Reg(left'[t].callee) /\ mem'[t][RDI] = This(t)
       /\ mem'[t][Entry] = FinishCode /\ mem'[t][Entry + 1] = This(t)
  BY <1>6, <1>8, <1>12, SizesGive
<1> QED  BY <1>11, <1>12, <1>13, ResetKeeps DEF New

LEMMA DeleteKeeps ==
  ASSUME Fits, SwitchInv, Executing, NEW t \in Threads, Delete(t)
  PROVE  SwitchInv' /\ caller' = caller
<1>1. Reset(t)
  BY HereOK, EmptyOK DEF Reset, Delete, SwitchInv, Types, Mem
<1>2. t \notin alive'
  BY DEF Delete
<1> QED  BY <1>1, <1>2, ResetKeeps DEF Delete

-----------------------------------------------------------------------------
(* The invariant.                                                          *)

LEMMA InitGives == ASSUME SwitchInit PROVE SwitchInv
<1>1. PICK v \in Values :
        cpu = [rip |-> Code(Null), rsp |-> [ctx |-> Main, idx |-> Entry], callee |-> v, rax |-> Null]
  BY DEF SwitchInit
<1>2. /\ [ctx |-> Main, idx |-> Entry] \in Places /\ Running = Main /\ Main \in Sides
      /\ mem = [c \in Sides |-> EmptyStack] /\ local = [t \in Threads |-> NoContext]
      /\ finished = {} /\ alive = {} /\ caller = [t \in Threads |-> Null] /\ left = [c \in Sides |-> Here]
  BY <1>1, SizesGive DEF SwitchInit, Places, Running, Sides, Indices
<1>3. Types
  <2>1. cpu \in [rip : Words, rsp : Places, callee : Values, rax : Tellings]
    BY <1>1, <1>2, WordsOK DEF Tellings
  <2>2. NoContext \in Contexts
    BY <1>2 DEF NoContext, Contexts, Tellings
  <2>3. mem \in Mem
    BY <1>2, EmptyOK DEF Mem
  <2> QED  BY <1>2, <2>1, <2>2, <2>3, HereOK DEF Types
<1>4. Live = {Main}
  BY <1>2 DEF Live
<1>5. Depth(Main, Entry)
  <2>1. 0 \in 0..MaxFrames[Main] /\ Entry = Entry - 2 * 0
    BY SizesGive, SizesAssumption
  <2> QED  BY <2>1 DEF Depth
<1>6. Heights
  BY <1>1, <1>2, <1>4, <1>5 DEF Heights
<1>7. Frames
  <2> SUFFICES ASSUME NEW k \in 1..MaxFrames[Main], Entry - 2 * k >= Entry
               PROVE  FALSE
    BY <1>1, <1>2, <1>4 DEF Frames, Top
  <2> QED  BY SizesGive, SizesAssumption
<1>8. Chain
  BY <1>2, <1>4, SidesAssumption DEF Chain
<1>9. CallersIntact /\ SuspendedIntact /\ Tops
  BY <1>2 DEF CallersIntact, SuspendedIntact, Tops
<1> QED  BY <1>3, <1>6, <1>7, <1>8, <1>9 DEF SwitchInv

LEMMA StepGives ==
  ASSUME Fits, SwitchInv, SwitchNext
  PROVE  /\ SwitchInv'
         /\ \/ caller' = caller
            \/ \E t \in Threads : GoesBack(t)
            \/ \E t \in Threads, event \in Events, site \in Sites : SwitchTo(t, event, site)
<1>1. Executing /\ SwitchStep
  BY DEF SwitchNext
<1>2. ASSUME NEW t \in Threads, New(t) \/ Delete(t)
      PROVE  SwitchInv' /\ caller' = caller
  BY <1>1, <1>2, NewKeeps, DeleteKeeps
<1>3. ASSUME NEW t \in Threads, Finish(t)
      PROVE  SwitchInv' /\ GoesBack(t)
  BY <1>1, <1>3, FinishGives
<1>4. ASSUME NEW v \in Values, Enter(v)
      PROVE  SwitchInv' /\ caller' = caller
  BY <1>1, <1>4, EnterKeeps
<1>5. ASSUME Leave
      PROVE  SwitchInv' /\ caller' = caller
  BY <1>1, <1>5, LeaveKeeps
<1>6. ASSUME NEW t \in Threads, NEW event \in Events, NEW site \in Sites, RunFinished(t, event, site)
      PROVE  SwitchInv' /\ caller' = caller
  BY <1>1, <1>6, RunFinishedKeeps
<1>7. ASSUME NEW t \in Threads, NEW event \in Events, NEW site \in Sites, SwitchTo(t, event, site)
      PROVE  SwitchInv'
  BY <1>1, <1>7, SwitchKeeps
<1>8. ASSUME NEW t \in Threads, NEW site \in Sites, NEW blocked \in {0, 1}, Yield(t, site, blocked)
      PROVE  SwitchInv' /\ GoesBack(t)
  BY <1>1, <1>8, YieldGives
<1>9. ASSUME NEW t \in Threads, NEW site \in Sites,
             YieldEvent(t, site) \/ YieldEvents(t, site) \/ Suicide(t, site)
      PROVE  SwitchInv' /\ GoesBack(t)
  BY <1>1, <1>9, YieldEventGives, YieldEventsGives, SuicideGives
<1> QED  BY <1>1, <1>2, <1>3, <1>4, <1>5, <1>6, <1>7, <1>8, <1>9 DEF SwitchStep

LEMMA SwitchInvariance ==
  ASSUME Fits
  PROVE  SwitchSpec => []SwitchInv
<1>1. SwitchInit => SwitchInv
  BY InitGives
<1>2. SwitchInv /\ [SwitchNext]_switchVars => SwitchInv'
  <2>1. ASSUME SwitchInv, UNCHANGED switchVars
        PROVE  SwitchInv'
    BY <2>1 DEF switchVars, SwitchInv, Types, Heights, Frames, Chain, CallersIntact, SuspendedIntact, Tops,
                Running, Executing, Live, Top, Slot
  <2> QED  BY <2>1, StepGives
<1> QED  BY <1>1, <1>2, PTL DEF SwitchSpec

-----------------------------------------------------------------------------
(* The theorems.  Each holds for any number of cothreads, any stack size   *)
(* and any depth of the functions, as long as the functions fit.           *)

\* The registers, the stacks and the saved contexts hold words of their types
\* (co_thread.cpp:20-31): no address leaves the stacks.
THEOREM SwitchTypes ==
  ASSUME Fits
  PROVE  SwitchSpec => []SwitchTypeOK
<1>1. SwitchInv => SwitchTypeOK
  BY DEF SwitchInv, Types, SwitchTypeOK, Mem, Indices, Contexts, LeftRecords
<1> QED  BY <1>1, SwitchInvariance, PTL

\* The context of a cothread that can be run is the one that it saved
\* (co_thread.S:65-77), whatever has run since.
THEOREM SwitchSavedIntact ==
  ASSUME Fits
  PROVE  SwitchSpec => []SavedIntact
<1>1. ASSUME SwitchInv
      PROVE  SavedIntact
  <2> SUFFICES ASSUME NEW t \in Threads, Resumable(t)
               PROVE  LET a == mem[t][RSP].val
                      IN  /\ Up(a, 1) = left[t].rsp
                          /\ At(mem, a) = left[t].rip
                          /\ mem[t][CALLEE] = Reg(left[t].callee)
                          /\ mem[t][RDI] = This(t)
    BY DEF SavedIntact
  <2> USE <1>1
  <2>1. t \in alive \ finished /\ caller[t] = Null /\ ~left[t].pushed
    BY DEF Resumable
  <2>2. PICK a : a = [ctx |-> t, idx |-> Slot(t)]
    OBVIOUS
  <2>3. /\ mem[t][RSP].val = a /\ At(mem, a) = left[t].rip /\ mem[t][CALLEE] = Reg(left[t].callee)
        /\ mem[t][RDI] = This(t)
    <3>1. /\ mem[t][RSP] = Addr(a) /\ mem[t][CALLEE] = Reg(left[t].callee) /\ mem[t][RDI] = This(t)
          /\ mem[t][Slot(t)] = left[t].rip
      BY <2>1, <2>2 DEF SwitchInv, SuspendedIntact
    <3> QED  BY <2>2, <3>1 DEF Addr, At
  <2>4. /\ t \in Sides /\ Slot(t) \in Indices /\ Slot(t) + 1 \in Indices /\ Slot(t) + 1 = left[t].rsp.idx
        /\ left[t].rsp = [ctx |-> t, idx |-> left[t].rsp.idx]
    BY <2>1, SuspendedGives
  <2>5. a \in Places /\ a.ctx = t /\ a.idx = Slot(t)
    BY <2>2, <2>4 DEF Places, Indices
  <2>6. Up(a, 1) = left[t].rsp
    BY <2>4, <2>5, UpGives
  <2> QED  BY <2>3, <2>6
<1> QED  BY <1>1, SwitchInvariance, PTL

\* A side that gets control back goes on where it left, unless it left through
\* yield_events (co_thread.S:45-61, 84-94).
THEOREM SwitchResumes ==
  ASSUME Fits
  PROVE  SwitchSpec => ResumesWhereItLeft
<1> DEFINE A == \A c \in Sides : Resumed(c) /\ ~left[c].pushed => GoesOn(c)
<1>1. ASSUME SwitchInv, SwitchNext
      PROVE  A
  <2> USE <1>1
  <2>1. Executing
    BY DEF SwitchNext
  <2>2. CASE caller' = caller
    BY <2>2 DEF Resumed
  <2>3. ASSUME NEW t \in Threads, GoesBack(t)
        PROVE  A
    <3>1. PICK rax :
            /\ caller' = [caller EXCEPT ![t] = Null]
            /\ cpu' = [rip |-> left[caller[t]].rip, rsp |-> left[caller[t]].rsp,
                       callee |-> left[caller[t]].callee, rax |-> rax]
      BY <2>3 DEF GoesBack, WentBack
    <3>2. \A u \in Threads : caller'[u] = IF u = t THEN Null ELSE caller[u]
      BY <3>1 DEF SwitchInv, Types
    <3>3. \A c \in Sides : Resumed(c) => c = caller[t]
      BY <3>2 DEF Resumed
    <3> QED  BY <3>1, <3>3 DEF GoesOn
  <2>4. ASSUME NEW t \in Threads, NEW event \in Events, NEW site \in Sites, SwitchTo(t, event, site)
        PROVE  A
    <3>1. GoesTo(t, event) /\ caller[t] = Null
      BY <2>1, <2>4, SwitchGives
    <3>2. \A u \in Threads : caller'[u] = IF u = t THEN Running ELSE caller[u]
      BY <2>4 DEF SwitchTo, SwitchInv, Types
    <3>3. \A c \in Sides : Resumed(c) => c = t
      BY <3>1, <3>2 DEF Resumed
    <3> QED  BY <3>1, <3>3 DEF GoesTo, GoesOn
  <2> HIDE DEF A
  <2> QED  BY <2>2, <2>3, <2>4, StepGives
<1>2. ASSUME UNCHANGED switchVars
      PROVE  A
  BY <1>2 DEF switchVars, Resumed
<1>3. SwitchInv /\ [SwitchNext]_switchVars => [A]_switchVars
  BY <1>1
<1> QED  BY <1>3, SwitchInvariance, PTL DEF SwitchSpec, ResumesWhereItLeft

\* run returns 1 for a cothread that has finished, else what it left with
\* (co_thread.S:39-43, 96-104).
LEMMA SwitchTellsStatus ==
  ASSUME Fits
  PROVE  SwitchSpec => RunTellsStatus
<1> DEFINE A == \A t \in Threads : caller[t] # Null /\ caller'[t] = Null =>
                  cpu'.rax = IF t \in finished' THEN 1 ELSE left'[t].tells
<1>1. ASSUME SwitchInv, SwitchNext
      PROVE  A
  <2> USE <1>1
  <2>1. Executing
    BY DEF SwitchNext
  <2>2. CASE caller' = caller
    BY <2>2
  <2>3. ASSUME NEW t \in Threads, GoesBack(t)
        PROVE  A
    <3>1. /\ caller' = [caller EXCEPT ![t] = Null]
          /\ cpu'.rax = IF t \in finished' THEN 1 ELSE left'[t].tells
      BY <2>3 DEF GoesBack, WentBack
    <3>2. \A u \in Threads : u # t => caller'[u] = caller[u]
      BY <3>1 DEF SwitchInv, Types
    <3> QED  BY <3>1, <3>2
  <2>4. ASSUME NEW t \in Threads, NEW event \in Events, NEW site \in Sites, SwitchTo(t, event, site)
        PROVE  A
    <3>1. \A u \in Threads : caller'[u] = IF u = t THEN Running ELSE caller[u]
      BY <2>4 DEF SwitchTo, SwitchInv, Types
    <3>2. caller[t] = Null
      BY <2>1, <2>4, SwitchGives
    <3> QED  BY <3>1, <3>2
  <2> HIDE DEF A
  <2> QED  BY <2>2, <2>3, <2>4, StepGives
<1>2. SwitchInv /\ [SwitchNext]_switchVars => [A]_switchVars
  BY <1>1
<1> QED  BY <1>2, SwitchInvariance, PTL DEF SwitchSpec, RunTellsStatus

\* A cothread that gets control gets the event of this run (co_thread.S:57-59).
LEMMA SwitchDelivers ==
  ASSUME Fits
  PROVE  SwitchSpec => DeliversEvent
<1> DEFINE A == \A t \in Threads : caller[t] = Null /\ caller'[t] # Null =>
                  cpu'.rax = left'[caller'[t]].tells
<1>1. ASSUME SwitchInv, SwitchNext
      PROVE  A
  <2> USE <1>1
  <2>1. Executing
    BY DEF SwitchNext
  <2>2. CASE caller' = caller
    BY <2>2
  <2>3. ASSUME NEW t \in Threads, GoesBack(t)
        PROVE  A
    <3>1. caller' = [caller EXCEPT ![t] = Null]
      BY <2>3 DEF GoesBack, WentBack
    <3>2. \A u \in Threads : caller'[u] = IF u = t THEN Null ELSE caller[u]
      BY <3>1 DEF SwitchInv, Types
    <3> QED  BY <3>2
  <2>4. ASSUME NEW t \in Threads, NEW event \in Events, NEW site \in Sites, SwitchTo(t, event, site)
        PROVE  A
    <3>1. \A u \in Threads : caller'[u] = IF u = t THEN Running ELSE caller[u]
      BY <2>4 DEF SwitchTo, SwitchInv, Types
    <3>2. cpu'.rax = left'[caller'[t]].tells
      BY <2>1, <2>4, SwitchKeeps
    <3> QED  BY <3>1, <3>2
  <2> HIDE DEF A
  <2> QED  BY <2>2, <2>3, <2>4, StepGives
<1>2. SwitchInv /\ [SwitchNext]_switchVars => [A]_switchVars
  BY <1>1
<1> QED  BY <1>2, SwitchInvariance, PTL DEF SwitchSpec, DeliversEvent

\* If the functions fit, run returns the status of the way back and a cothread that
\* gets control gets the event of this run (co_thread.S:57-59, 80-94).
THEOREM SwitchTellsEach ==
  ASSUME Fits
  PROVE  SwitchSpec => EachIsTold
BY SwitchTellsStatus, SwitchDelivers DEF EachIsTold

=============================================================================
