--------------------------- MODULE MainBookProofs ---------------------------
(***************************************************************************)
(* Proofs about MainBook, for all tickers, prices, lots, limits and        *)
(* bounds: types, what is flat after a halt and after the end of the day,  *)
(* and what may be overwritten by an entry.                                *)
(***************************************************************************)
EXTENDS MainBook, TotalsProofs, TLAPS

\* The handlers: which stages belong to which, and what a stage works on.
Shape ==
    /\ ~up => op = Idle
    /\ op.stage = "idle" => op = Idle
    /\ op.stage \in {"debit", "persist"} => op.why = "entry"
    /\ op.stage = "credit" => op.why \in {"exit", "halt", "eod"} /\ op.slot \in Slots
    /\ op.stage = "next" => op.why \in {"halt", "eod"}
    /\ op.stage = "save" => op.why \in {"entry", "exit", "halt", "eod"}
    /\ op.stage = "reduce" => op.why = "partial" /\ op.slot \in Slots /\ mem.held[op.slot] > Half
    /\ op.why = "entry" => op.slot \in Slots
    /\ op.why \notin {"halt", "eod"} => op.todo = {}

-----------------------------------------------------------------------------
(* Types                                                                   *)

LEMMA Money ==
    \A s \in Sides, price, shares \in Int :
        CashDelta(s, price, shares) \in Int /\ RealizedPnl(s, price, shares) \in Int
<1> SUFFICES ASSUME NEW s \in Sides, NEW price \in Int, NEW shares \in Int
             PROVE  CashDelta(s, price, shares) \in Int /\ RealizedPnl(s, price, shares) \in Int
  OBVIOUS
<1>1. Sign(s) \in Int
  BY DEF Sign
<1>2. EntryPrice \in Int
  BY MainConstants
<1> QED BY <1>1, <1>2 DEF CashDelta, RealizedPnl

LEMMA Basics ==
    /\ Lot \in Nat /\ Half \in Nat /\ Half > 0 /\ Half < Lot /\ EntryPrice \in Nat
    /\ Prices \subseteq Nat /\ MaxDay \in Nat /\ MaxDay > 0
    /\ FreshBook \in Books /\ Idle \in Ops
    /\ NoSave \in [busy : BOOLEAN, cash : Int, dirty : BOOLEAN]
    /\ NoRows \in [Tickers -> {"armed", "in"}]
<1>1. /\ Lot \in Nat /\ Half \in Nat /\ Half > 0 /\ Half < Lot /\ EntryPrice \in Nat
      /\ Prices \subseteq Nat /\ MaxDay \in Nat /\ MaxDay > 0 /\ StartCash \in Nat
  BY MainConstants
<1>2. FreshBook \in Books
  <2>1. [x \in Slots |-> 0] \in [Slots -> 0..Lot]
    BY <1>1
  <2> QED BY <1>1, <2>1 DEF FreshBook, Books
<1>3. Idle \in Ops
  BY <1>1 DEF Idle, Ops, NoSlot
<1>4. NoSave \in [busy : BOOLEAN, cash : Int, dirty : BOOLEAN]
  BY DEF NoSave
<1>5. NoRows \in [Tickers -> {"armed", "in"}]
  BY DEF NoRows
<1> QED BY <1>1, <1>2, <1>3, <1>4, <1>5

LEMMA InitInv == Init => TypeOK /\ Shape
<1> SUFFICES ASSUME Init PROVE TypeOK /\ Shape
  OBVIOUS
<1>1. TypeOK
  BY Basics DEF Init, TypeOK
<1>2. Shape
  BY DEF Init, Shape, Idle
<1> QED BY <1>1, <1>2

LEMMA TouchedFits ==
    TypeOK => Touched \in [busy : BOOLEAN, cash : Int, dirty : BOOLEAN]
  BY DEF TypeOK, Touched

\* An entry writes its slot.
LEMMA OpenStep ==
    ASSUME TypeOK, Shape, NEW x \in Slots, Open(x)
    PROVE  /\ TypeOK' /\ Shape'
           /\ mem'.held = [mem.held EXCEPT ![x] = Lot]
           /\ mem'.lost = mem.lost + Sign(x[2]) * EntryPrice * mem.held[x]
           /\ mem'.halted = mem.halted /\ mem'.entryDate = mem.entryDate
           /\ op'.stage = "debit" /\ op'.why = "entry" /\ op'.slot = x /\ op'.todo = {}
<1>1. mem \in Books /\ mem.held \in [Slots -> 0..Lot] /\ mem.held[x] \in Int /\ mem.lost \in Int
  BY Basics DEF TypeOK, Books
<1>2. x[1] \in Tickers /\ x[2] \in Sides
  BY DEF Slots
<1>3. Sign(x[2]) * EntryPrice * mem.held[x] \in Int
  BY <1>1, Basics DEF Sign
<1> DEFINE h == [mem.held EXCEPT ![x] = Lot]
           l == mem.lost + Sign(x[2]) * EntryPrice * mem.held[x]
<1>4. h \in [Slots -> 0..Lot] /\ l \in Int
  BY <1>1, <1>3, Basics
<1>5. mem' = [mem EXCEPT !.held = h, !.lost = l]
  BY DEF Open, Inserted
<1> HIDE DEF h, l
<1>6. mem' \in Books /\ mem'.held = h /\ mem'.lost = l
      /\ mem'.halted = mem.halted /\ mem'.entryDate = mem.entryDate
  BY <1>1, <1>4, <1>5 DEF Books
<1>7. op' = [Idle EXCEPT !.stage = "debit", !.why = "entry", !.slot = x]
  BY DEF Open
<1>8. /\ op' \in Ops /\ op'.stage = "debit" /\ op'.why = "entry" /\ op'.slot = x /\ op'.todo = {}
  BY <1>7, Basics DEF Idle, Ops
<1>9. row' \in [Tickers -> {"armed", "in"}]
  BY <1>2 DEF Open, TypeOK
<1>10. hist' \in [breach : 0..MaxDay, cut : SUBSET {"halt", "eod"}, gap : BOOLEAN,
                  undated : BOOLEAN, entries : Nat, crashes : Nat, saves : Nat]
  BY DEF Open, TypeOK
<1>11. TypeOK'
  BY <1>6, <1>8, <1>9, <1>10, TouchedFits DEF Open, TypeOK
<1>12. Shape'
  BY <1>8 DEF Shape, Open, Scanning, Ready
<1> QED BY <1>6, <1>8, <1>11, <1>12 DEF h, l

\* Fields of the book the invariants look at, and that most steps keep.
KeepsBook ==
    mem'.held = mem.held /\ mem'.halted = mem.halted
    /\ mem'.entryDate = mem.entryDate /\ mem'.lost = mem.lost
Onward(s) ==
    op'.stage = s /\ op'.why = op.why /\ op'.slot = op.slot /\ op'.todo = op.todo

LEMMA OpFields ==
    ASSUME op \in Ops
    PROVE  /\ op.slot \in Slots \cup {NoSlot} /\ op.price \in Int /\ op.shares \in 0..Lot
           /\ op.todo \in SUBSET Slots
           /\ \A s \in {"save", "persist", "next"} :
                LET o == [op EXCEPT !.stage = s] IN
                  o \in Ops /\ o.stage = s /\ o.why = op.why /\ o.slot = op.slot /\ o.todo = op.todo
  BY DEF Ops

LEMMA DebitStep ==
    ASSUME TypeOK, Shape, Debit
    PROVE  TypeOK' /\ Shape' /\ KeepsBook /\ Onward("save")
<1>1. op.slot \in Slots /\ op.slot[2] \in Sides
  BY DEF Shape, Debit, Slots
<1>2. CashDelta(op.slot[2], EntryPrice, Lot) \in Int
  BY <1>1, Money, Basics
<1> DEFINE c == mem.cash - CashDelta(op.slot[2], EntryPrice, Lot)
<1>3. c \in Int
  BY <1>2 DEF TypeOK, Books
<1>4. mem' = [mem EXCEPT !.cash = c]
  BY DEF Debit
<1> HIDE DEF c
<1>5. mem' \in Books /\ KeepsBook
  BY <1>3, <1>4 DEF TypeOK, Books, KeepsBook
<1>6. op' \in Ops /\ Onward("save")
  BY OpFields DEF Debit, TypeOK, Onward
<1>7. TypeOK'
  BY <1>5, <1>6, TouchedFits DEF Debit, TypeOK
<1>8. Shape'
  BY <1>6 DEF Shape, Debit, Onward, Idle
<1> QED BY <1>5, <1>6, <1>7, <1>8

LEMMA CreditStep ==
    ASSUME TypeOK, Shape, Credit
    PROVE  TypeOK' /\ Shape' /\ KeepsBook /\ Onward("save")
<1> DEFINE s == op.slot[2]
           cash == mem.cash + CashDelta(s, op.price, op.shares)
           realized == mem.realized + RealizedPnl(s, op.price, op.shares)
           long == mem.longPnl + (IF s = "long" THEN RealizedPnl("long", op.price, op.shares) ELSE 0)
           short == mem.shortPnl + (IF s = "short" THEN RealizedPnl("short", op.price, op.shares) ELSE 0)
<1>1. s \in Sides /\ "long" \in Sides /\ "short" \in Sides
  BY DEF Shape, Credit, Slots, Sides
<1>2. op.price \in Int /\ op.shares \in Int
  BY OpFields, Basics DEF TypeOK
<1>3. /\ CashDelta(s, op.price, op.shares) \in Int /\ RealizedPnl(s, op.price, op.shares) \in Int
      /\ RealizedPnl("long", op.price, op.shares) \in Int
      /\ RealizedPnl("short", op.price, op.shares) \in Int
  BY <1>1, <1>2, Money
<1>4. cash \in Int /\ realized \in Int /\ long \in Int /\ short \in Int
  BY <1>3 DEF TypeOK, Books
<1>5. mem' = [mem EXCEPT !.cash = cash, !.realized = realized, !.longPnl = long, !.shortPnl = short]
  BY DEF Credit, Credited
<1> HIDE DEF s, cash, realized, long, short
<1>6. mem' \in Books /\ KeepsBook
  BY <1>4, <1>5 DEF TypeOK, Books, KeepsBook
<1>7. op' \in Ops /\ Onward("save")
  BY OpFields DEF Credit, TypeOK, Onward
<1>8. TypeOK'
  BY <1>6, <1>7, TouchedFits DEF Credit, TypeOK
<1>9. Shape'
  BY <1>7 DEF Shape, Credit, Onward, Idle
<1> QED BY <1>6, <1>7, <1>8, <1>9

LEMMA SaveEntryStep ==
    ASSUME TypeOK, Shape, SaveEntry
    PROVE  TypeOK' /\ Shape' /\ Onward("persist")
<1>1. op' \in Ops /\ Onward("persist")
  BY OpFields DEF SaveEntry, TypeOK, Onward
<1>2. TypeOK'
  BY <1>1 DEF SaveEntry, TypeOK
<1>3. Shape'
  BY <1>1 DEF Shape, SaveEntry, Onward, Idle
<1> QED BY <1>1, <1>2, <1>3

\* The handler is done.
LEMMA IdleFits ==
    /\ Idle.stage = "idle" /\ Idle.why = "none" /\ Idle.todo = {}
    /\ op' = Idle => op' \in Ops /\ Shape'
<1>1. Idle.stage = "idle" /\ Idle.why = "none" /\ Idle.todo = {}
  BY DEF Idle
<1> QED BY <1>1, Basics DEF Shape

LEMMA PersistEntryStep ==
    ASSUME TypeOK, Shape, PersistEntry
    PROVE  TypeOK' /\ Shape' /\ op' = Idle
<1>1. op' = Idle /\ op' \in Ops /\ Shape'
  BY IdleFits DEF PersistEntry
<1> QED BY <1>1 DEF PersistEntry, TypeOK

LEMMA BreachStep ==
    ASSUME TypeOK, Shape, NEW price \in Prices, Breach(price)
    PROVE  /\ TypeOK' /\ Shape'
           /\ mem'.held = mem.held /\ mem'.halted /\ mem'.entryDate = mem.entryDate
           /\ mem'.lost = mem.lost
           /\ op'.todo = HeldSlots(mem) /\ op'.why \in {"none", "halt"}
           /\ op'.why = "none" => HeldSlots(mem) = {}
           /\ op'.stage \in {"idle", "next"}
<1>1. mem' \in Books /\ mem'.held = mem.held /\ mem'.halted /\ mem'.entryDate = mem.entryDate
      /\ mem'.lost = mem.lost
  BY DEF Breach, TypeOK, Books
<1>2. HeldSlots(mem) \subseteq Slots /\ price \in Int
  BY Basics DEF HeldSlots
<1>h. hist' \in [breach : 0..MaxDay, cut : SUBSET {"halt", "eod"}, gap : BOOLEAN,
                  undated : BOOLEAN, entries : Nat, crashes : Nat, saves : Nat]
  <2>1. day \in 0..MaxDay
    BY Basics DEF TypeOK
  <2> QED BY <2>1 DEF Breach, TypeOK
<1>3. CASE HeldSlots(mem) = {}
  <2>1. op' = Idle
    BY <1>3 DEF Breach
  <2>2. op' \in Ops /\ Shape' /\ op'.todo = {} /\ op'.why = "none" /\ op'.stage = "idle"
    BY <2>1, IdleFits
  <2> QED BY <1>1, <1>3, <1>h, <2>2 DEF Breach, TypeOK
<1>4. CASE HeldSlots(mem) # {}
  <2>1. op' = [Idle EXCEPT !.stage = "next", !.why = "halt", !.price = price,
                           !.todo = HeldSlots(mem)]
    BY <1>4 DEF Breach
  <2>2. op' \in Ops /\ op'.stage = "next" /\ op'.why = "halt" /\ op'.todo = HeldSlots(mem)
    BY <1>2, <2>1, Basics DEF Idle, Ops
  <2>3. Shape'
    BY <2>2 DEF Shape, Breach, Scanning, Ready
  <2> QED BY <1>1, <1>h, <2>2, <2>3 DEF Breach, TypeOK
<1> QED BY <1>3, <1>4

LEMMA ExitStep ==
    ASSUME TypeOK, Shape, NEW x \in Slots, NEW price \in Prices, Exit(x, price)
    PROVE  /\ TypeOK' /\ Shape'
           /\ mem'.held = [mem.held EXCEPT ![x] = 0]
           /\ mem'.halted = mem.halted /\ mem'.entryDate = mem.entryDate /\ mem'.lost = mem.lost
           /\ op'.stage = "credit" /\ op'.why = "exit" /\ op'.slot = x /\ op'.todo = {}
<1> DEFINE h == [mem.held EXCEPT ![x] = 0]
<1>1. h \in [Slots -> 0..Lot] /\ mem.held[x] \in 0..Lot
  BY Basics DEF TypeOK, Books
<1>2. mem' = [mem EXCEPT !.held = h]
  BY DEF Exit
<1> HIDE DEF h
<1>3. mem' \in Books /\ mem'.held = h
      /\ mem'.halted = mem.halted /\ mem'.entryDate = mem.entryDate /\ mem'.lost = mem.lost
  BY <1>1, <1>2 DEF TypeOK, Books
<1>4. op' = [Idle EXCEPT !.stage = "credit", !.why = "exit", !.slot = x, !.price = price,
                         !.shares = mem.held[x]]
  BY DEF Exit
<1> DEFINE n == mem.held[x]
<1>p. price \in Int /\ n \in 0..Lot
  <2>1. price \in Nat
    BY Basics
  <2>2. n \in 0..Lot
    BY <1>1
  <2> QED BY <2>1, <2>2
<1>5. /\ op' \in Ops /\ op'.stage = "credit" /\ op'.why = "exit" /\ op'.slot = x /\ op'.todo = {}
  <2> HIDE DEF n
  <2>1. op' = [Idle EXCEPT !.stage = "credit", !.why = "exit", !.slot = x, !.price = price,
                           !.shares = n]
    BY <1>4 DEF n
  <2> QED BY <1>p, <2>1, Basics DEF Idle, Ops
<1>6. row' \in [Tickers -> {"armed", "in"}]
  BY DEF Exit, TypeOK, Slots
<1>7. TypeOK'
  BY <1>3, <1>5, <1>6, TouchedFits DEF Exit, TypeOK
<1>8. Shape'
  BY <1>5 DEF Shape, Exit, Scanning, Ready
<1> QED BY <1>3, <1>5, <1>7, <1>8 DEF h

\* A forced close takes the next position.
LEMMA CloseNextStep ==
    ASSUME TypeOK, Shape, CloseNext
    PROVE  /\ TypeOK' /\ Shape'
           /\ mem'.halted = mem.halted /\ mem'.entryDate = mem.entryDate /\ mem'.lost = mem.lost
           /\ op'.stage = "credit" /\ op'.why = op.why /\ op.why \in {"halt", "eod"}
           /\ op'.slot \in op.todo /\ op'.todo = op.todo \ {op'.slot}
           /\ mem'.held = [mem.held EXCEPT ![op'.slot] = 0]
<1>1. PICK x \in op.todo : Popped(x, op.price, op.todo \ {x})
  BY DEF CloseNext
<1>2. x \in Slots /\ op.todo \ {x} \in SUBSET Slots /\ op.price \in Int
  BY OpFields DEF TypeOK
<1> DEFINE h == [mem.held EXCEPT ![x] = 0]
<1>3. h \in [Slots -> 0..Lot] /\ mem.held[x] \in 0..Lot
  BY <1>2, Basics DEF TypeOK, Books
<1>4. mem' = [mem EXCEPT !.held = h]
  BY <1>1 DEF Popped
<1> HIDE DEF h
<1>5. mem' \in Books /\ mem'.held = h
      /\ mem'.halted = mem.halted /\ mem'.entryDate = mem.entryDate /\ mem'.lost = mem.lost
  BY <1>3, <1>4 DEF TypeOK, Books
<1>6. op' = [op EXCEPT !.stage = "credit", !.slot = x, !.price = op.price,
                       !.shares = mem.held[x], !.todo = op.todo \ {x}]
  BY <1>1 DEF Popped
<1>7. /\ op' \in Ops /\ op'.stage = "credit" /\ op'.why = op.why /\ op'.slot = x
      /\ op'.todo = op.todo \ {x}
  BY <1>2, <1>3, <1>6 DEF TypeOK, Ops
<1>8. op.why \in {"halt", "eod"}
  BY DEF Shape, CloseNext
<1>9. TypeOK'
  BY <1>1, <1>5, <1>7, TouchedFits DEF CloseNext, Popped, TypeOK
<1>10. Shape'
  <2>1. up' = up /\ up
    BY DEF CloseNext, Shape, Idle
  <2> QED BY <1>2, <1>7, <1>8, <2>1 DEF Shape
<1> QED BY <1>5, <1>7, <1>8, <1>9, <1>10 DEF h

LEMMA SaveCloseStep ==
    ASSUME TypeOK, Shape, SaveClose
    PROVE  /\ TypeOK' /\ Shape'
           /\ op.todo = {} => op' = Idle
           /\ op.todo # {} => op.why \in {"halt", "eod"} /\ Onward("next")
<1>1. CASE op.todo = {}
  <2>1. op' = Idle /\ op' \in Ops /\ Shape'
    BY <1>1, IdleFits DEF SaveClose
  <2> QED BY <1>1, <2>1 DEF SaveClose, TypeOK
<1>2. CASE op.todo # {}
  <2>1. op' \in Ops /\ Onward("next")
    BY <1>2, OpFields DEF SaveClose, TypeOK, Onward
  <2>2. op.why \in {"halt", "eod"}
    BY <1>2 DEF Shape
  <2>3. up' = up /\ up
    BY DEF SaveClose, Shape, Idle
  <2>4. Shape'
    BY <2>1, <2>2, <2>3 DEF Shape, Onward
  <2> QED BY <1>2, <2>1, <2>2, <2>4 DEF SaveClose, TypeOK
<1> QED BY <1>1, <1>2

LEMMA PartialStep ==
    ASSUME TypeOK, Shape, NEW x \in Slots, NEW price \in Prices, Partial(x, price)
    PROVE  /\ TypeOK' /\ Shape' /\ KeepsBook
           /\ op'.stage = "reduce" /\ op'.why = "partial" /\ op'.slot = x /\ op'.todo = {}
           /\ mem.held[x] > Half
<1>1. x[2] \in Sides /\ price \in Int /\ Half \in Int
  BY Basics DEF Slots
<1> DEFINE c == mem.cash + CashDelta(x[2], price, Half)
<1>2. c \in Int
  BY <1>1, Money DEF TypeOK, Books
<1>3. mem' = [mem EXCEPT !.cash = c]
  BY DEF Partial
<1> HIDE DEF c
<1>4. mem' \in Books /\ KeepsBook
  BY <1>2, <1>3 DEF TypeOK, Books, KeepsBook
<1>5. op' = [Idle EXCEPT !.stage = "reduce", !.why = "partial", !.slot = x, !.price = price]
  BY DEF Partial
<1>6. op' \in Ops /\ op'.stage = "reduce" /\ op'.why = "partial" /\ op'.slot = x /\ op'.todo = {}
  BY <1>1, <1>5, Basics DEF Idle, Ops
<1>7. TypeOK'
  BY <1>4, <1>6, TouchedFits DEF Partial, TypeOK
<1>8. mem.held[x] > Half
  BY DEF Partial
<1>9. Shape'
  BY <1>4, <1>6, <1>8 DEF Shape, Partial, KeepsBook, Scanning, Ready
<1> QED BY <1>4, <1>6, <1>7, <1>8, <1>9

LEMMA ReduceStep ==
    ASSUME TypeOK, Shape, Reduce
    PROVE  /\ TypeOK' /\ Shape' /\ op' = Idle /\ op.slot \in Slots
           /\ mem.held[op.slot] > 0 /\ mem.held[op.slot] - Half > 0
           /\ mem'.held = [mem.held EXCEPT ![op.slot] = mem.held[op.slot] - Half]
           /\ mem'.halted = mem.halted /\ mem'.entryDate = mem.entryDate /\ mem'.lost = mem.lost
<1>1. op.slot \in Slots /\ op.slot[2] \in Sides /\ mem.held[op.slot] > Half
  BY DEF Shape, Reduce, Slots
<1>2. mem.held[op.slot] \in 0..Lot /\ op.price \in Int /\ Half \in Int
  BY <1>1, OpFields, Basics DEF TypeOK, Books
<1> DEFINE n == mem.held[op.slot] - Half
           h == [mem.held EXCEPT ![op.slot] = n]
           r == mem.realized + RealizedPnl(op.slot[2], op.price, Half)
<1>3. n \in 0..Lot /\ n > 0 /\ mem.held[op.slot] > 0
  BY <1>1, <1>2, Basics
<1>4. h \in [Slots -> 0..Lot]
  <2> HIDE DEF n
  <2> QED BY <1>1, <1>3 DEF TypeOK, Books
<1>5. r \in Int
  BY <1>1, <1>2, Money DEF TypeOK, Books
<1>6. mem' = [mem EXCEPT !.held = h, !.realized = r]
  BY DEF Reduce
<1> HIDE DEF h, r
<1>7. mem' \in Books /\ mem'.held = h
      /\ mem'.halted = mem.halted /\ mem'.entryDate = mem.entryDate /\ mem'.lost = mem.lost
  BY <1>4, <1>5, <1>6 DEF TypeOK, Books
<1>8. op' = Idle /\ op' \in Ops /\ Shape'
  BY IdleFits DEF Reduce
<1>9. TypeOK'
  BY <1>7, <1>8, TouchedFits DEF Reduce, TypeOK
<1> QED BY <1>1, <1>3, <1>7, <1>8, <1>9 DEF h

LEMMA ResetDailyStep ==
    ASSUME TypeOK, Shape, ResetDaily
    PROVE  /\ TypeOK' /\ Shape'
           /\ mem'.held = mem.held /\ ~mem'.halted /\ mem'.entryDate = day /\ mem'.lost = mem.lost
<1>1. day \in 0..MaxDay
  BY Basics DEF TypeOK
<1>2. mem' \in Books /\ mem'.held = mem.held /\ ~mem'.halted /\ mem'.entryDate = day
      /\ mem'.lost = mem.lost
  <2> DEFINE l == IF mem.entryDate # day THEN 0 ELSE mem.longPnl
  <2>1. l \in Int /\ mem \in Books
    BY DEF TypeOK, Books
  <2>2. mem' = [mem EXCEPT !.halted = FALSE, !.entryDate = day, !.longPnl = l]
    BY DEF ResetDaily
  <2> HIDE DEF l
  <2> QED BY <1>1, <2>1, <2>2 DEF Books
<1>3. fired' \subseteq (1..MaxDay) \X {"reset", "eod"}
  BY DEF ResetDaily, TypeOK
<1>4. TypeOK'
  BY <1>2, <1>3 DEF ResetDaily, TypeOK
<1>5. Shape'
  BY <1>2 DEF ResetDaily, Ready, Shape
<1> QED BY <1>2, <1>4, <1>5

LEMMA EodStep ==
    ASSUME TypeOK, Shape, NEW price \in Prices, Eod(price)
    PROVE  /\ TypeOK' /\ Shape'
           /\ op'.stage \in {"save", "next"} /\ op'.why = "eod" /\ op'.todo = HeldSlots(mem)
<1>1. HeldSlots(mem) \subseteq Slots /\ price \in Int
  BY Basics DEF HeldSlots
<1> DEFINE s == IF HeldSlots(mem) = {} THEN "save" ELSE "next"
<1>2. op' = [Idle EXCEPT !.stage = s, !.why = "eod", !.price = price, !.todo = HeldSlots(mem)]
  BY DEF Eod
<1>3. s \in {"save", "next"}
  OBVIOUS
<1> HIDE DEF s
<1>4. op' \in Ops /\ op'.stage = s /\ op'.why = "eod" /\ op'.todo = HeldSlots(mem)
  BY <1>1, <1>2, <1>3, Basics DEF Idle, Ops
<1>5. fired' \subseteq (1..MaxDay) \X {"reset", "eod"}
  BY DEF Eod, TypeOK
<1>6. TypeOK'
  BY <1>4, <1>5 DEF Eod, TypeOK
<1>7. Shape'
  BY <1>3, <1>4 DEF Eod, Ready, Shape
<1> QED BY <1>3, <1>4, <1>6, <1>7

\* Steps that leave book and handler alone.
LEMMA RowSteps ==
    ASSUME TypeOK, Shape, Sweep \/ Dump \/ StartSave
    PROVE  TypeOK' /\ Shape'
<1>1. CASE Sweep
  <2>1. row' \in [Tickers -> {"armed", "in"}]
    BY <1>1 DEF Sweep, TypeOK
  <2> QED BY <1>1, <2>1 DEF Sweep, TypeOK, Shape
<1>2. CASE Dump
  BY <1>2 DEF Dump, TypeOK, Shape
<1>3. CASE StartSave
  <2>1. saver' \in [busy : BOOLEAN, cash : Int, dirty : BOOLEAN]
    BY <1>3 DEF StartSave, TypeOK, Books
  <2>2. hist' \in [breach : 0..MaxDay, cut : SUBSET {"halt", "eod"}, gap : BOOLEAN,
                   undated : BOOLEAN, entries : Nat, crashes : Nat, saves : Nat]
    BY <1>3 DEF StartSave, TypeOK
  <2> QED BY <1>3, <2>1, <2>2 DEF StartSave, TypeOK, Shape
<1> QED BY <1>1, <1>2, <1>3

LEMMA EndSaveStep ==
    ASSUME TypeOK, Shape, EndSave
    PROVE  /\ TypeOK' /\ Shape'
           /\ disk'.held = mem.held /\ disk'.halted = mem.halted
           /\ disk'.entryDate = mem.entryDate /\ disk'.lost = mem.lost
<1> DEFINE c == mem.clean /\ ~saver.dirty
<1>1. c \in BOOLEAN /\ saver.cash \in Int
  BY DEF TypeOK, Books
<1>2. disk' = [mem EXCEPT !.cash = saver.cash, !.clean = c]
  BY DEF EndSave
<1> HIDE DEF c
<1>3. disk' \in Books /\ disk'.held = mem.held /\ disk'.halted = mem.halted
      /\ disk'.entryDate = mem.entryDate /\ disk'.lost = mem.lost
  BY <1>1, <1>2 DEF TypeOK, Books
<1>4. TypeOK'
  BY <1>3, Basics DEF EndSave, TypeOK
<1>5. Shape'
  BY DEF EndSave, Shape
<1> QED BY <1>3, <1>4, <1>5

LEMMA CrashStep ==
    ASSUME TypeOK, Shape, Crash
    PROVE  /\ TypeOK' /\ Shape' /\ mem' = FreshBook /\ op' = Idle
           /\ hist.cut \subseteq hist'.cut
           /\ op.why \in {"halt", "eod"} => op.why \in hist'.cut
           /\ hist.gap \/ op.why = "entry" => hist'.gap
<1>1. op' = Idle /\ op' \in Ops /\ Shape' /\ mem' = FreshBook
  BY IdleFits DEF Crash
<1> DEFINE c == IF op.why \in {"halt", "eod"} THEN hist.cut \cup {op.why} ELSE hist.cut
           g == hist.gap \/ op.why = "entry"
<1>2. c \in SUBSET {"halt", "eod"} /\ g \in BOOLEAN /\ hist.crashes + 1 \in Nat
  BY DEF TypeOK
<1>3. hist' = [hist EXCEPT !.crashes = hist.crashes + 1, !.cut = c, !.gap = g]
  BY DEF Crash
<1>4. hist.cut \subseteq c /\ (op.why \in {"halt", "eod"} => op.why \in c)
      /\ (hist.gap \/ op.why = "entry" => g)
  OBVIOUS
<1> HIDE DEF c, g
<1>5. hist'.cut = c /\ hist'.gap = g
      /\ hist' \in [breach : 0..MaxDay, cut : SUBSET {"halt", "eod"}, gap : BOOLEAN,
                    undated : BOOLEAN, entries : Nat, crashes : Nat, saves : Nat]
  BY <1>2, <1>3 DEF TypeOK
<1>6. TypeOK'
  BY <1>1, <1>5, Basics DEF Crash, TypeOK
<1> QED BY <1>1, <1>4, <1>5, <1>6

LEMMA BootStep ==
    ASSUME TypeOK, Shape, Boot
    PROVE  /\ TypeOK' /\ Shape'
           /\ mem'.held = disk.held /\ mem'.entryDate = disk.entryDate /\ mem'.lost = disk.lost
           /\ mem'.halted => disk.halted /\ disk.entryDate = day
           /\ op = Idle /\ op' = Idle
           /\ hist'.cut = hist.cut /\ hist'.gap = hist.gap /\ hist'.breach = hist.breach
           /\ hist'.undated = (hist.undated \/ disk.entryDate # day)
<1> DEFINE l == IF disk.entryDate # day THEN 0 ELSE disk.longPnl
           h == disk.halted /\ disk.entryDate = day
<1>1. l \in Int /\ h \in BOOLEAN
  BY DEF TypeOK, Books
<1>2. mem' = [disk EXCEPT !.longPnl = l, !.halted = h]
  BY DEF Boot, Loaded
<1>3. h => disk.halted /\ disk.entryDate = day
  OBVIOUS
<1> HIDE DEF l, h
<1>4. mem' \in Books /\ mem'.held = disk.held /\ mem'.entryDate = disk.entryDate
      /\ mem'.lost = disk.lost /\ mem'.halted = h
  BY <1>1, <1>2 DEF TypeOK, Books
<1>5. op = Idle /\ op' = Idle /\ Shape'
  BY IdleFits DEF Boot, Shape
<1> DEFINE u == hist.undated \/ disk.entryDate # day
<1>6. u \in BOOLEAN /\ hist' = [hist EXCEPT !.undated = u]
  BY DEF Boot, TypeOK
<1>7. u = (hist.undated \/ disk.entryDate # day)
  OBVIOUS
<1> HIDE DEF u
<1>8. /\ hist'.cut = hist.cut /\ hist'.gap = hist.gap /\ hist'.breach = hist.breach
      /\ hist'.undated = u
      /\ hist' \in [breach : 0..MaxDay, cut : SUBSET {"halt", "eod"}, gap : BOOLEAN,
                    undated : BOOLEAN, entries : Nat, crashes : Nat, saves : Nat]
  BY <1>6 DEF TypeOK
<1>9. TypeOK'
  BY <1>4, <1>5, <1>8 DEF Boot, TypeOK
<1> QED BY <1>3, <1>4, <1>5, <1>7, <1>8, <1>9

LEMMA TickStep ==
    ASSUME TypeOK, Shape, Tick
    PROVE  TypeOK' /\ Shape' /\ clock' \in {"trade", "flush"} /\ clock # "flush"
<1>1. clock' \in {"trade", "flush"} /\ clock # "flush"
  BY DEF Tick, Later, TypeOK
<1> QED BY <1>1 DEF Tick, TypeOK, Shape

LEMMA NewDayStep ==
    ASSUME TypeOK, Shape, NewDay
    PROVE  /\ TypeOK' /\ Shape' /\ KeepsBook
           /\ disk'.held = disk.held /\ disk'.halted = disk.halted
           /\ disk'.entryDate = disk.entryDate /\ disk'.lost = disk.lost
           /\ hist'.cut = hist.cut \/ (up /\ HeldSlots(mem) = {})
           /\ hist.gap \/ HeldSlots(mem) # {} \/ HeldSlots(disk) # {} => hist'.gap
<1> DEFINE Cleared(b) == [b EXCEPT !.longPnl = 0, !.shortPnl = 0]
<1>0. mem' = Cleared(mem) /\ disk' = Cleared(disk) /\ mem \in Books /\ disk \in Books
  BY DEF NewDay, TypeOK
<1>b. ASSUME NEW b \in Books
      PROVE  /\ Cleared(b) \in Books /\ Cleared(b).held = b.held
             /\ Cleared(b).halted = b.halted
             /\ Cleared(b).entryDate = b.entryDate /\ Cleared(b).lost = b.lost
  <2> DEFINE c == [b EXCEPT !.longPnl = 0]
             d == [c EXCEPT !.shortPnl = 0]
  <2>1. c \in Books /\ c.held = b.held /\ c.halted = b.halted
        /\ c.entryDate = b.entryDate /\ c.lost = b.lost
    BY DEF Books
  <2>2. Cleared(b) = d
    BY DEF Books
  <2> HIDE DEF c
  <2>3. d \in Books /\ d.held = c.held /\ d.halted = c.halted
        /\ d.entryDate = c.entryDate /\ d.lost = c.lost
    BY <2>1 DEF Books
  <2> QED BY <2>1, <2>2, <2>3
<1> HIDE DEF Cleared
<1>1. mem' \in Books /\ KeepsBook
  BY <1>0, <1>b DEF KeepsBook
<1>2. disk' \in Books /\ disk'.held = disk.held /\ disk'.halted = disk.halted
      /\ disk'.entryDate = disk.entryDate /\ disk'.lost = disk.lost
  BY <1>0, <1>b
<1> DEFINE c == IF up /\ HeldSlots(mem) = {} THEN {} ELSE hist.cut
           g == hist.gap \/ HeldSlots(mem) # {} \/ HeldSlots(disk) # {}
<1>3. c \in SUBSET {"halt", "eod"} /\ g \in BOOLEAN
      /\ (c = hist.cut \/ (up /\ HeldSlots(mem) = {}))
  BY DEF TypeOK
<1>4. hist' = [hist EXCEPT !.cut = c, !.gap = g]
  BY DEF NewDay
<1>5. hist.gap \/ HeldSlots(mem) # {} \/ HeldSlots(disk) # {} => g
  OBVIOUS
<1> HIDE DEF c, g
<1>6. hist'.cut = c /\ hist'.gap = g
      /\ hist' \in [breach : 0..MaxDay, cut : SUBSET {"halt", "eod"}, gap : BOOLEAN,
                    undated : BOOLEAN, entries : Nat, crashes : Nat, saves : Nat]
  BY <1>3, <1>4 DEF TypeOK
<1>7. day' \in 1..MaxDay
  BY Basics DEF NewDay, TypeOK
<1>8. TypeOK'
  BY <1>1, <1>2, <1>6, <1>7, Basics DEF NewDay, TypeOK
<1>9. Shape'
  BY <1>1 DEF NewDay, Shape, KeepsBook
<1> QED BY <1>1, <1>2, <1>3, <1>5, <1>6, <1>8, <1>9

-----------------------------------------------------------------------------
(* The slots a book holds                                                  *)

LEMMA HeldFields == \A b, c : b.held = c.held => HeldSlots(b) = HeldSlots(c)
  BY DEF HeldSlots

LEMMA HeldFresh == HeldSlots(FreshBook) = {}
  BY DEF HeldSlots, FreshBook

\* One entry of a book's positions is written.
LEMMA HeldWritten ==
    ASSUME NEW b \in Books, NEW c, NEW x \in Slots, NEW n \in 0..Lot,
           c.held = [b.held EXCEPT ![x] = n]
    PROVE  /\ n = 0 => HeldSlots(c) = HeldSlots(b) \ {x}
           /\ n > 0 => HeldSlots(c) = HeldSlots(b) \cup {x}
<1>1. b.held \in [Slots -> 0..Lot]
  BY DEF Books
<1>2. \A y \in Slots : c.held[y] = IF y = x THEN n ELSE b.held[y]
  BY <1>1
<1> QED BY <1>2 DEF HeldSlots

LEMMA HeldSlotsAre == \A b : HeldSlots(b) \subseteq Slots /\ \A x \in Slots : b.held[x] > 0 <=> x \in HeldSlots(b)
  BY DEF HeldSlots

\* A handler that is done, or is no forced close, has nothing left to close.
LEMMA ReadyIdle ==
    Shape /\ Ready => op.stage = "idle" /\ op.why = "none" /\ op.todo = {} /\ up
  BY IdleFits DEF Shape, Ready

-----------------------------------------------------------------------------
(* The end of the day                                                      *)

\* From the mark of eod_close on, what memory holds is what the handler has
\* still to close, no other handler runs, and the file is flat unless the
\* handler does.
EodInv ==
    /\ \A d \in Int : <<d, "eod">> \in fired => d <= day /\ (d = day => clock = "flush")
    /\ <<day, "eod">> \in fired /\ "eod" \notin hist.cut =>
          /\ up => op.why \in {"none", "eod"} /\ HeldSlots(mem) \subseteq op.todo
          /\ HeldSlots(disk) = {} \/ op.why = "eod"

Marked == <<day, "eod">> \in fired /\ "eod" \notin hist.cut

\* Steps within a day after which fired, clock and the cuts are as before.
LEMMA EodSame ==
    ASSUME TypeOK, EodInv, UNCHANGED <<day, clock, fired>>, hist'.cut = hist.cut,
           Marked =>
             /\ up' => op'.why \in {"none", "eod"} /\ HeldSlots(mem') \subseteq op'.todo
             /\ HeldSlots(disk') = {} \/ op'.why = "eod"
    PROVE  EodInv'
  BY DEF EodInv, Marked

LEMMA EodStepInv ==
    ASSUME TypeOK, Shape, EodInv, [Next]_vars
    PROVE  EodInv'
<1>d. day \in Int /\ Half \in Int /\ Lot \in 0..Lot /\ Lot > 0 /\ 0 \in 0..Lot
  BY Basics DEF TypeOK
<1>o. op \in Ops /\ mem \in Books
  BY DEF TypeOK
<1>1. ASSUME NEW x \in Slots, Open(x) PROVE EodInv'
  <2>1. ~Marked
    BY <1>1, <1>d DEF Open, EodInv, Marked
  <2>2. hist'.cut = hist.cut /\ UNCHANGED <<day, clock, fired>>
    BY <1>1 DEF Open, TypeOK
  <2> QED BY <2>1, <2>2, EodSame
<1>2. ASSUME NEW x \in Slots, NEW price \in Prices, Exit(x, price) \/ Partial(x, price)
      PROVE  EodInv'
  <2>1. Ready /\ mem.held[x] > 0 /\ UNCHANGED <<day, clock, fired, hist>>
    BY <1>2, <1>d, Basics DEF Exit, Partial, Scanning, TypeOK, Books
  <2>2. ~Marked
    BY <2>1, ReadyIdle, HeldSlotsAre DEF EodInv, Marked
  <2> QED BY <2>1, <2>2, EodSame
<1>3. ASSUME NEW price \in Prices, Breach(price) PROVE EodInv'
  <2>1. UNCHANGED <<day, clock, fired, disk, up>> /\ hist'.cut = hist.cut /\ Ready
    BY <1>3 DEF Breach, TypeOK, Scanning
  <2>2. HeldSlots(mem') = HeldSlots(mem)
    BY <1>3, BreachStep, HeldFields
  <2>3. ASSUME Marked PROVE HeldSlots(mem) = {} /\ HeldSlots(disk) = {}
    BY <2>1, <2>3, ReadyIdle DEF EodInv, Marked
  <2>4. HeldSlots(mem) = {} => op' = Idle
    BY <1>3 DEF Breach
  <2> QED BY <2>1, <2>2, <2>3, <2>4, IdleFits, EodSame
<1>4. ASSUME NEW price \in Prices, Eod(price) PROVE EodInv'
  <2>1. /\ fired' = fired \cup {<<day, "eod">>} /\ clock = "flush"
        /\ UNCHANGED <<day, clock, up, mem, disk, hist>>
    BY <1>4 DEF Eod
  <2>2. op'.why = "eod" /\ op'.todo = HeldSlots(mem)
    BY <1>4, EodStep
  <2>3. \A d \in Int : <<d, "eod">> \in fired' => d <= day' /\ (d = day' => clock' = "flush")
    BY <1>d, <2>1 DEF EodInv
  <2>4. HeldSlots(mem') = HeldSlots(mem)
    BY <2>1, HeldFields
  <2> QED BY <2>2, <2>3, <2>4 DEF EodInv
<1>5. CASE Debit \/ Credit
  <2>1. UNCHANGED <<day, clock, fired, hist, disk, up>>
    BY <1>5 DEF Debit, Credit
  <2>2. HeldSlots(mem') = HeldSlots(mem) /\ op'.why = op.why /\ op'.todo = op.todo
    BY <1>5, DebitStep, CreditStep, HeldFields DEF KeepsBook, Onward
  <2> QED BY <2>1, <2>2, EodSame DEF EodInv, Marked
<1>6. CASE SaveEntry \/ PersistEntry
  <2>1. op.why = "entry" /\ up /\ UNCHANGED <<day, clock, fired, hist>>
    BY <1>6 DEF SaveEntry, PersistEntry, Shape, Idle
  <2>2. ~Marked
    BY <2>1 DEF EodInv, Marked
  <2> QED BY <2>1, <2>2, EodSame
<1>7. CASE CloseNext
  <2>1. UNCHANGED <<day, clock, fired, hist, disk, up>>
    BY <1>7 DEF CloseNext
  <2>2. op'.why = op.why /\ op'.slot \in op.todo /\ op'.todo = op.todo \ {op'.slot}
        /\ mem'.held = [mem.held EXCEPT ![op'.slot] = 0]
    BY <1>7, CloseNextStep
  <2>3. op'.slot \in Slots
    BY <1>o, <2>2, OpFields
  <2>4. HeldSlots(mem') = HeldSlots(mem) \ {op'.slot}
    BY <1>d, <1>o, <2>2, <2>3, HeldWritten
  <2> QED BY <2>1, <2>2, <2>4, EodSame DEF EodInv, Marked
<1>8. CASE SaveClose
  <2>1. UNCHANGED <<day, clock, fired, hist, mem, up>> /\ disk' = mem /\ up
    BY <1>8 DEF SaveClose, Shape, Idle
  <2>2. HeldSlots(mem') = HeldSlots(mem) /\ HeldSlots(disk') = HeldSlots(mem)
    BY <2>1, HeldFields
  <2>3. (op.todo = {} => op' = Idle) /\ (op.todo # {} => op'.why = op.why /\ op'.todo = op.todo)
        /\ (op.todo # {} => op.why \in {"halt", "eod"})
    BY <1>8, SaveCloseStep DEF Onward
  <2> QED BY <2>1, <2>2, <2>3, IdleFits, EodSame DEF EodInv, Marked
<1>9. CASE Reduce
  <2>1. op.why = "partial" /\ up /\ UNCHANGED <<day, clock, fired, hist>>
    BY <1>9 DEF Reduce, Shape, Idle
  <2>2. ~Marked
    BY <2>1 DEF EodInv, Marked
  <2> QED BY <2>1, <2>2, EodSame
<1>10. CASE ResetDaily
  <2>1. /\ UNCHANGED <<day, clock, op, hist, disk, up>>
        /\ fired' = fired \cup {<<day, "reset">>} /\ clock = "open"
    BY <1>10 DEF ResetDaily
  <2>2. \A d \in Int : <<d, "eod">> \in fired' <=> <<d, "eod">> \in fired
    BY <2>1
  <2>3. <<day, "eod">> \notin fired
    BY <1>d, <2>1 DEF EodInv
  <2> QED BY <1>d, <2>1, <2>2, <2>3 DEF EodInv
<1>11. CASE Sweep \/ Dump \/ StartSave
  <2>1. UNCHANGED <<day, clock, fired, mem, disk, up, op>> /\ hist'.cut = hist.cut
    BY <1>11 DEF Sweep, Dump, StartSave, TypeOK
  <2>2. HeldSlots(mem') = HeldSlots(mem) /\ HeldSlots(disk') = HeldSlots(disk)
    BY <2>1, HeldFields
  <2> QED BY <2>1, <2>2, EodSame DEF EodInv, Marked
<1>12. CASE EndSave
  <2>1. UNCHANGED <<day, clock, fired, mem, up, op, hist>> /\ up
    BY <1>12 DEF EndSave
  <2>2. HeldSlots(mem') = HeldSlots(mem) /\ HeldSlots(disk') = HeldSlots(mem)
    BY <1>12, <2>1, EndSaveStep, HeldFields
  <2>3. op.why = "none" => op.todo = {}
    BY DEF Shape
  <2> QED BY <2>1, <2>2, <2>3, EodSame DEF EodInv, Marked
<1>13. CASE Crash
  <2>1. UNCHANGED <<day, clock, fired, disk>> /\ ~up'
    BY <1>13 DEF Crash
  <2>2. hist.cut \subseteq hist'.cut /\ (op.why \in {"halt", "eod"} => op.why \in hist'.cut)
    BY <1>13, CrashStep
  <2>3. HeldSlots(disk') = HeldSlots(disk)
    BY <2>1
  <2> QED BY <2>1, <2>2, <2>3 DEF EodInv
<1>14. CASE Boot
  <2>1. UNCHANGED <<day, clock, fired, disk>> /\ hist'.cut = hist.cut /\ op = Idle /\ op' = Idle
    BY <1>14, BootStep DEF Boot
  <2>2. HeldSlots(mem') = HeldSlots(disk) /\ HeldSlots(disk') = HeldSlots(disk)
    BY <1>14, <2>1, BootStep, HeldFields
  <2> QED BY <2>1, <2>2, IdleFits, EodSame DEF EodInv, Marked
<1>15. CASE Tick
  <2>1. UNCHANGED <<day, fired, mem, disk, up, op, hist>> /\ clock # "flush"
    BY <1>15 DEF Tick
  <2>2. <<day, "eod">> \notin fired
    BY <1>d, <2>1 DEF EodInv
  <2> QED BY <1>d, <2>1, <2>2 DEF EodInv
<1>16. CASE NewDay
  <2>1. day' = day + 1 /\ fired' = fired
    BY <1>16 DEF NewDay
  <2>2. \A d \in Int : <<d, "eod">> \in fired' => d < day'
    BY <1>d, <2>1 DEF EodInv
  <2> QED BY <1>d, <2>1, <2>2 DEF EodInv
<1>17. CASE UNCHANGED vars
  BY <1>17, EodSame DEF vars, EodInv, Marked
<1> QED BY <1>1, <1>2, <1>3, <1>4, <1>5, <1>6, <1>7, <1>8, <1>9, <1>10, <1>11, <1>12,
           <1>13, <1>14, <1>15, <1>16, <1>17 DEF Next

-----------------------------------------------------------------------------
(* The halt                                                                *)

\* In a halted book what is held is what the forced close has still to close;
\* a halted file of today is flat unless the forced close is under way.
HaltInv ==
    /\ mem.entryDate <= day /\ disk.entryDate <= day
    /\ up /\ mem.halted /\ "halt" \notin hist.cut =>
          HeldSlots(mem) \subseteq op.todo /\ (HeldSlots(mem) = {} \/ op.why = "halt")
    /\ disk.halted /\ disk.entryDate = day /\ "halt" \notin hist.cut =>
          HeldSlots(disk) = {} \/ op.why = "halt"

LEMMA HaltStepInv ==
    ASSUME TypeOK, Shape, HaltInv, [Next]_vars
    PROVE  HaltInv'
<1>d. day \in Int /\ mem.entryDate \in Int /\ disk.entryDate \in Int /\ 0 \in 0..Lot
      /\ 0 <= day
  BY Basics DEF TypeOK, Books
<1>o. op \in Ops /\ mem \in Books
  BY DEF TypeOK
<1>1. ASSUME NEW x \in Slots, Open(x) PROVE HaltInv'
  <2>1. ~mem.halted /\ up /\ UNCHANGED <<day, disk, up>> /\ hist'.cut = hist.cut /\ Ready
    BY <1>1 DEF Open, Scanning, Ready, TypeOK
  <2>2. ~mem'.halted /\ mem'.entryDate = mem.entryDate
    BY <1>1, <2>1, OpenStep
  <2>3. disk.halted /\ disk.entryDate = day /\ "halt" \notin hist.cut => HeldSlots(disk) = {}
    BY <2>1, ReadyIdle DEF HaltInv
  <2> QED BY <2>1, <2>2, <2>3 DEF HaltInv
<1>2. ASSUME NEW x \in Slots, NEW price \in Prices, Exit(x, price) \/ Partial(x, price)
      PROVE  HaltInv'
  <2>1. Ready /\ mem.held[x] > 0 /\ UNCHANGED <<day, disk, hist, up>>
    BY <1>2, Basics DEF Exit, Partial, Scanning, TypeOK, Books
  <2>2. mem'.halted = mem.halted /\ mem'.entryDate = mem.entryDate
    BY <1>2, ExitStep, PartialStep DEF KeepsBook
  <2>3. ~(mem.halted /\ "halt" \notin hist.cut)
    BY <2>1, ReadyIdle, HeldSlotsAre DEF HaltInv
  <2>4. disk.halted /\ disk.entryDate = day /\ "halt" \notin hist.cut => HeldSlots(disk) = {}
    BY <2>1, ReadyIdle DEF HaltInv
  <2> QED BY <2>1, <2>2, <2>3, <2>4 DEF HaltInv
<1>3. ASSUME NEW price \in Prices, Breach(price) PROVE HaltInv'
  <2>1. UNCHANGED <<day, disk, up>> /\ hist'.cut = hist.cut /\ Ready
    BY <1>3 DEF Breach, TypeOK, Scanning
  <2>2. mem'.held = mem.held /\ mem'.entryDate = mem.entryDate /\ op'.todo = HeldSlots(mem)
        /\ op'.why \in {"none", "halt"} /\ (op'.why = "none" => HeldSlots(mem) = {})
    BY <1>3, BreachStep
  <2>3. HeldSlots(mem') = HeldSlots(mem)
    BY <2>2, HeldFields
  <2>4. disk.halted /\ disk.entryDate = day /\ "halt" \notin hist.cut => HeldSlots(disk) = {}
    BY <2>1, ReadyIdle DEF HaltInv
  <2> QED BY <2>1, <2>2, <2>3, <2>4 DEF HaltInv
<1>4. ASSUME NEW price \in Prices, Eod(price) PROVE HaltInv'
  <2>1. UNCHANGED <<day, up, mem, disk, hist>> /\ Ready
    BY <1>4 DEF Eod
  <2>2. op'.todo = HeldSlots(mem)
    BY <1>4, EodStep
  <2>3. HeldSlots(mem') = HeldSlots(mem) /\ HeldSlots(disk') = HeldSlots(disk)
    BY <2>1, HeldFields
  <2> QED BY <2>1, <2>2, <2>3, ReadyIdle DEF HaltInv
<1>5. CASE Debit \/ Credit
  <2>1. UNCHANGED <<day, hist, disk, up>>
    BY <1>5 DEF Debit, Credit
  <2>2. HeldSlots(mem') = HeldSlots(mem) /\ op'.why = op.why /\ op'.todo = op.todo
        /\ mem'.halted = mem.halted /\ mem'.entryDate = mem.entryDate
    BY <1>5, DebitStep, CreditStep, HeldFields DEF KeepsBook, Onward
  <2> QED BY <2>1, <2>2 DEF HaltInv
<1>6. CASE SaveEntry
  <2>1. UNCHANGED <<day, hist, mem, up>> /\ disk' = mem /\ op.why = "entry" /\ up
    BY <1>6 DEF SaveEntry, Shape, Idle
  <2>2. op'.why = op.why /\ op'.todo = op.todo
    BY <1>6, SaveEntryStep DEF Onward
  <2> QED BY <2>1, <2>2 DEF HaltInv
<1>7. CASE PersistEntry
  <2>1. UNCHANGED <<day, hist, mem, up, disk>> /\ op.why = "entry"
    BY <1>7 DEF PersistEntry, Shape
  <2>2. HeldSlots(mem) = {} => HeldSlots(mem) \subseteq op'.todo
    OBVIOUS
  <2> QED BY <2>1, <2>2 DEF HaltInv
<1>8. CASE CloseNext
  <2>1. UNCHANGED <<day, hist, disk, up>>
    BY <1>8 DEF CloseNext
  <2>2. /\ op'.why = op.why /\ op'.slot \in op.todo /\ op'.todo = op.todo \ {op'.slot}
        /\ mem'.held = [mem.held EXCEPT ![op'.slot] = 0]
        /\ mem'.halted = mem.halted /\ mem'.entryDate = mem.entryDate
    BY <1>8, CloseNextStep
  <2>3. op'.slot \in Slots
    BY <1>o, <2>2, OpFields
  <2>4. HeldSlots(mem') = HeldSlots(mem) \ {op'.slot}
    BY <1>d, <1>o, <2>2, <2>3, HeldWritten
  <2> QED BY <2>1, <2>2, <2>4 DEF HaltInv
<1>9. CASE SaveClose
  <2>1. UNCHANGED <<day, hist, mem, up>> /\ disk' = mem /\ up
    BY <1>9 DEF SaveClose, Shape, Idle
  <2>2. (op.todo = {} => op' = Idle) /\ (op.todo # {} => op'.why = op.why /\ op'.todo = op.todo)
    BY <1>9, SaveCloseStep DEF Onward
  <2> QED BY <2>1, <2>2, IdleFits DEF HaltInv
<1>10. CASE Reduce
  <2>1. UNCHANGED <<day, hist, disk, up>> /\ op.why = "partial" /\ op.todo = {} /\ op' = Idle /\ up
    BY <1>10, ReduceStep DEF Reduce, Shape, Idle
  <2>2. op.slot \in HeldSlots(mem) /\ mem'.halted = mem.halted /\ mem'.entryDate = mem.entryDate
    BY <1>10, ReduceStep, HeldSlotsAre
  <2>3. ~(mem.halted /\ "halt" \notin hist.cut)
    BY <2>1, <2>2 DEF HaltInv
  <2> QED BY <2>1, <2>2, <2>3 DEF HaltInv
<1>11. CASE ResetDaily
  <2>1. UNCHANGED <<day, op, hist, disk, up>>
    BY <1>11 DEF ResetDaily
  <2>2. ~mem'.halted /\ mem'.entryDate = day
    BY <1>11, ResetDailyStep
  <2> QED BY <1>d, <2>1, <2>2 DEF HaltInv
<1>12. CASE Sweep \/ Dump \/ StartSave
  <2>1. UNCHANGED <<day, mem, disk, up, op>> /\ hist'.cut = hist.cut
    BY <1>12 DEF Sweep, Dump, StartSave, TypeOK
  <2> QED BY <2>1 DEF HaltInv
<1>13. CASE EndSave
  <2>1. UNCHANGED <<day, mem, up, op, hist>> /\ up
    BY <1>13 DEF EndSave
  <2>2. HeldSlots(disk') = HeldSlots(mem)
    BY <1>13, EndSaveStep, HeldFields
  <2>3. disk'.halted = mem.halted /\ disk'.entryDate = mem.entryDate
    BY <1>13, EndSaveStep
  <2> QED BY <2>1, <2>2, <2>3 DEF HaltInv
<1>14. CASE Crash
  <2>1. UNCHANGED <<day, disk>> /\ ~up' /\ mem' = FreshBook
    BY <1>14 DEF Crash
  <2>2. hist.cut \subseteq hist'.cut /\ (op.why \in {"halt", "eod"} => op.why \in hist'.cut)
    BY <1>14, CrashStep
  <2>3. mem'.entryDate = 0
    BY <2>1 DEF FreshBook
  <2> QED BY <1>d, <2>1, <2>2, <2>3 DEF HaltInv
<1>15. CASE Boot
  <2>1. UNCHANGED <<day, disk>> /\ hist'.cut = hist.cut /\ op = Idle /\ op' = Idle
    BY <1>15, BootStep DEF Boot
  <2>2. HeldSlots(mem') = HeldSlots(disk) /\ mem'.entryDate = disk.entryDate
        /\ (mem'.halted => disk.halted /\ disk.entryDate = day)
    BY <1>15, BootStep, HeldFields
  <2> QED BY <2>1, <2>2, IdleFits DEF HaltInv
<1>16. CASE Tick
  BY <1>16 DEF Tick, HaltInv
<1>17. CASE NewDay
  <2>1. day' = day + 1 /\ UNCHANGED <<up, op>>
    BY <1>17 DEF NewDay
  <2>2. /\ mem'.halted = mem.halted /\ mem'.entryDate = mem.entryDate
        /\ disk'.entryDate = disk.entryDate /\ HeldSlots(mem') = HeldSlots(mem)
        /\ hist'.cut = hist.cut \/ (up /\ HeldSlots(mem) = {})
    BY <1>17, NewDayStep, HeldFields DEF KeepsBook
  <2>3. mem'.entryDate <= day' /\ disk'.entryDate < day'
    BY <1>d, <2>1, <2>2 DEF HaltInv
  <2> QED BY <1>d, <2>1, <2>2, <2>3 DEF HaltInv
<1>18. CASE UNCHANGED vars
  BY <1>18 DEF vars, HaltInv
<1> QED BY <1>1, <1>2, <1>3, <1>4, <1>5, <1>6, <1>7, <1>8, <1>9, <1>10, <1>11, <1>12,
           <1>13, <1>14, <1>15, <1>16, <1>17, <1>18 DEF Next

-----------------------------------------------------------------------------
(* Overwriting                                                             *)

\* The dump of the rows shows a position, but for the one being entered.
Dumped(x) == rowDisk[x[1]] = "in" \/ (op.why = "entry" /\ op.slot = x)

OnePerTicker(book) == \A x, y \in HeldSlots(book) : x[1] = y[1] => x = y

\* As long as no crash cut an entry and no position stayed overnight, a ticker
\* is held on one side, its row knows, and the file holds no more than memory,
\* but for what is just being closed.
GapInv ==
    ~hist.gap =>
      /\ mem.lost = 0 /\ disk.lost = 0
      /\ OnePerTicker(disk) /\ \A x \in HeldSlots(disk) : Dumped(x)
      /\ up =>
           /\ OnePerTicker(mem)
           /\ \A x \in HeldSlots(mem) : row[x[1]] = "in" /\ Dumped(x)
           /\ \A x \in HeldSlots(disk) :
                \/ x \in HeldSlots(mem)
                \/ op.stage \in {"credit", "save"} /\ op.why # "entry" /\ op.slot = x

\* Between two handlers, and in the stages that keep the file as it is.
LEMMA GapSettled ==
    ASSUME Shape, GapInv, ~hist.gap, up, op.stage \notin {"credit", "save"} \/ op.why = "entry"
    PROVE  HeldSlots(disk) \subseteq HeldSlots(mem)
  BY DEF GapInv

LEMMA GapStepInv ==
    ASSUME TypeOK, Shape, GapInv, [Next]_vars
    PROVE  GapInv'
<1>d. 0 \in 0..Lot /\ Lot \in 0..Lot /\ Lot > 0
  BY Basics
<1>o. op \in Ops /\ mem \in Books
  BY DEF TypeOK
<1>1. ASSUME NEW x \in Slots, Open(x), ~hist'.gap PROVE GapInv'
  <2>1. /\ ~hist.gap /\ up /\ Ready /\ UNCHANGED <<disk, rowDisk, up>>
        /\ row[x[1]] = "armed" /\ row' = [row EXCEPT ![x[1]] = "in"]
    BY <1>1 DEF Open, Scanning, Ready, TypeOK
  <2>2. /\ mem'.held = [mem.held EXCEPT ![x] = Lot]
        /\ mem'.lost = mem.lost + Sign(x[2]) * EntryPrice * mem.held[x]
        /\ op'.stage = "debit" /\ op'.why = "entry" /\ op'.slot = x
    BY <1>1, OpenStep
  <2>3. HeldSlots(mem') = HeldSlots(mem) \cup {x}
    BY <1>d, <1>o, <2>2, HeldWritten
  <2>4. \A y \in HeldSlots(mem) : y[1] # x[1]
    BY <2>1 DEF GapInv
  <2>5. x \notin HeldSlots(mem) /\ mem.held[x] \in 0..Lot
    BY <1>o, <2>4 DEF Books
  <2>6. mem.held[x] = 0 /\ Sign(x[2]) \in Int /\ EntryPrice \in Int
    BY <2>5, HeldSlotsAre, Basics DEF Sign
  <2>7. Sign(x[2]) * EntryPrice * 0 = 0
    BY <2>6
  <2>8. mem'.lost = 0
    BY <2>1, <2>2, <2>6, <2>7 DEF GapInv
  <2>9. op.stage = "idle" /\ op.why = "none" /\ HeldSlots(disk) \subseteq HeldSlots(mem)
    BY <2>1, ReadyIdle, GapSettled
  <2>10. row \in [Tickers -> {"armed", "in"}] /\ x[1] \in Tickers
         /\ \A y \in HeldSlots(mem) : y[1] \in Tickers
    BY HeldSlotsAre DEF TypeOK, Slots
  <2>11. \A y \in HeldSlots(mem) \cup {x} : row'[y[1]] = "in"
    BY <2>1, <2>10 DEF GapInv
  <2>12. OnePerTicker(mem') /\ OnePerTicker(disk')
    BY <2>1, <2>3, <2>4 DEF GapInv, OnePerTicker
  <2>13. \A y \in HeldSlots(mem') : Dumped(y)'
    BY <2>1, <2>2, <2>3, <2>9 DEF GapInv, Dumped
  <2> QED BY <2>1, <2>3, <2>8, <2>9, <2>11, <2>12, <2>13 DEF GapInv
<1>2. ASSUME NEW x \in Slots, NEW price \in Prices, Exit(x, price), ~hist'.gap PROVE GapInv'
  <2>1. /\ ~hist.gap /\ up /\ Ready /\ UNCHANGED <<disk, rowDisk, up>> /\ mem.held[x] > 0
        /\ row' \in {row, [row EXCEPT ![x[1]] = "armed"]}
    BY <1>2 DEF Exit, Scanning, Ready
  <2>2. /\ mem'.held = [mem.held EXCEPT ![x] = 0] /\ mem'.lost = mem.lost
        /\ op'.stage = "credit" /\ op'.why = "exit" /\ op'.slot = x
    BY <1>2, ExitStep
  <2>3. HeldSlots(mem') = HeldSlots(mem) \ {x} /\ x \in HeldSlots(mem)
    BY <1>d, <1>o, <2>1, <2>2, HeldWritten, HeldSlotsAre
  <2>4. op.stage = "idle" /\ op.why = "none" /\ HeldSlots(disk) \subseteq HeldSlots(mem)
    BY <2>1, ReadyIdle, GapSettled
  <2>5. \A y \in HeldSlots(mem') : y[1] # x[1]
    BY <2>1, <2>3 DEF GapInv, OnePerTicker
  <2>6. row \in [Tickers -> {"armed", "in"}]
    BY DEF TypeOK
  <2>7. \A y \in HeldSlots(mem') : row'[y[1]] = row[y[1]]
    <3>1. \A y \in HeldSlots(mem') : y[1] \in Tickers
      BY <2>3, HeldSlotsAre DEF Slots
    <3> QED BY <2>1, <2>5, <2>6, <3>1
  <2>8. OnePerTicker(mem') /\ OnePerTicker(disk')
    BY <2>1, <2>3 DEF GapInv, OnePerTicker
  <2>9. \A y \in HeldSlots(mem) : rowDisk[y[1]] = "in"
    BY <2>1, <2>4 DEF GapInv, Dumped
  <2> QED BY <2>1, <2>2, <2>3, <2>4, <2>7, <2>8, <2>9 DEF GapInv, Dumped
<1>3. ASSUME NEW x \in Slots, NEW price \in Prices, Partial(x, price), ~hist'.gap PROVE GapInv'
  <2>1. ~hist.gap /\ up /\ Ready /\ UNCHANGED <<disk, row, rowDisk, up>>
    BY <1>3 DEF Partial, Scanning, Ready
  <2>2. mem'.lost = mem.lost /\ HeldSlots(mem') = HeldSlots(mem)
    BY <1>3, PartialStep, HeldFields DEF KeepsBook
  <2>3. op.stage = "idle" /\ op.why = "none" /\ HeldSlots(disk) \subseteq HeldSlots(mem)
    BY <2>1, ReadyIdle, GapSettled
  <2> QED BY <2>1, <2>2, <2>3 DEF GapInv, Dumped, OnePerTicker
<1>4. ASSUME NEW price \in Prices, Breach(price) \/ Eod(price), ~hist'.gap PROVE GapInv'
  <2>1. ~hist.gap /\ up /\ Ready /\ UNCHANGED <<disk, row, rowDisk, up>>
    BY <1>4 DEF Breach, Eod, Scanning, Ready, TypeOK
  <2>2. mem'.lost = mem.lost /\ HeldSlots(mem') = HeldSlots(mem)
    BY <1>4, BreachStep, HeldFields DEF Eod
  <2>3. op.stage = "idle" /\ op.why = "none" /\ HeldSlots(disk) \subseteq HeldSlots(mem)
    BY <2>1, ReadyIdle, GapSettled
  <2> QED BY <2>1, <2>2, <2>3 DEF GapInv, Dumped, OnePerTicker
<1>5. ASSUME Debit \/ Credit, ~hist'.gap PROVE GapInv'
  <2>1. ~hist.gap /\ UNCHANGED <<disk, row, rowDisk, up>>
    BY <1>5 DEF Debit, Credit
  <2>2. /\ mem'.lost = mem.lost /\ HeldSlots(mem') = HeldSlots(mem)
        /\ op'.why = op.why /\ op'.slot = op.slot /\ op'.stage = "save"
    BY <1>5, DebitStep, CreditStep, HeldFields DEF KeepsBook, Onward
  <2>3. op.stage \in {"debit", "credit"}
    BY <1>5 DEF Debit, Credit
  <2> QED BY <2>1, <2>2, <2>3 DEF GapInv, Dumped, OnePerTicker
<1>6. ASSUME SaveEntry, ~hist'.gap PROVE GapInv'
  <2>1. ~hist.gap /\ UNCHANGED <<mem, row, rowDisk, up>> /\ disk' = mem /\ up
    BY <1>6 DEF SaveEntry, Shape, Idle
  <2>2. op'.why = op.why /\ op'.slot = op.slot
    BY <1>6, SaveEntryStep DEF Onward
  <2> QED BY <2>1, <2>2 DEF GapInv, Dumped, OnePerTicker
<1>7. ASSUME PersistEntry \/ Dump, ~hist'.gap PROVE GapInv'
  <2>1. /\ ~hist.gap /\ UNCHANGED <<mem, disk, row, up>> /\ rowDisk' = row /\ up
        /\ op.stage \in {"persist", "idle"}
    BY <1>7 DEF PersistEntry, Dump, Scanning, Ready, Shape, Idle
  <2>2. HeldSlots(disk) \subseteq HeldSlots(mem)
    BY <2>1, GapSettled
  <2> QED BY <2>1, <2>2 DEF GapInv, Dumped, OnePerTicker
<1>8. ASSUME CloseNext, ~hist'.gap PROVE GapInv'
  <2>1. ~hist.gap /\ UNCHANGED <<disk, row, rowDisk, up>> /\ up /\ op.stage = "next"
    BY <1>8 DEF CloseNext, Shape, Idle
  <2>2. /\ op'.why = op.why /\ op.why \in {"halt", "eod"} /\ op'.stage = "credit"
        /\ op'.slot \in op.todo /\ mem'.held = [mem.held EXCEPT ![op'.slot] = 0]
        /\ mem'.lost = mem.lost
    BY <1>8, CloseNextStep
  <2>3. op'.slot \in Slots
    BY <1>o, <2>2, OpFields
  <2>4. HeldSlots(mem') = HeldSlots(mem) \ {op'.slot}
    BY <1>d, <1>o, <2>2, <2>3, HeldWritten
  <2>5. HeldSlots(disk) \subseteq HeldSlots(mem)
    BY <2>1, GapSettled
  <2> QED BY <2>1, <2>2, <2>4, <2>5 DEF GapInv, Dumped, OnePerTicker
<1>9. ASSUME SaveClose, ~hist'.gap PROVE GapInv'
  <2>1. ~hist.gap /\ UNCHANGED <<mem, row, rowDisk, up>> /\ disk' = mem /\ up /\ op.why # "entry"
    BY <1>9 DEF SaveClose, Shape, Idle
  <2> QED BY <2>1 DEF GapInv, Dumped, OnePerTicker
<1>10. ASSUME Reduce, ~hist'.gap PROVE GapInv'
  <2>1. /\ ~hist.gap /\ UNCHANGED <<disk, row, rowDisk, up>> /\ up
        /\ op.stage = "reduce" /\ op.why = "partial"
    BY <1>10 DEF Reduce, Shape, Idle
  <2>2. /\ op.slot \in Slots /\ mem.held[op.slot] > 0 /\ mem.held[op.slot] - Half > 0
        /\ mem'.held = [mem.held EXCEPT ![op.slot] = mem.held[op.slot] - Half]
        /\ mem'.lost = mem.lost
    BY <1>10, ReduceStep
  <2>3. mem.held[op.slot] - Half \in 0..Lot
    BY <1>o, <2>2, Basics DEF Books
  <2>4. HeldSlots(mem') = HeldSlots(mem) \cup {op.slot} /\ op.slot \in HeldSlots(mem)
    BY <1>o, <2>2, <2>3, HeldWritten, HeldSlotsAre
  <2>5. HeldSlots(mem') = HeldSlots(mem)
    BY <2>4
  <2>6. HeldSlots(disk) \subseteq HeldSlots(mem)
    BY <2>1, GapSettled
  <2> QED BY <2>1, <2>2, <2>5, <2>6 DEF GapInv, Dumped, OnePerTicker
<1>11. ASSUME ResetDaily, ~hist'.gap PROVE GapInv'
  <2>1. ~hist.gap /\ UNCHANGED <<disk, row, rowDisk, up, op>>
    BY <1>11 DEF ResetDaily
  <2>2. mem'.lost = mem.lost /\ HeldSlots(mem') = HeldSlots(mem)
    BY <1>11, ResetDailyStep, HeldFields
  <2> QED BY <2>1, <2>2 DEF GapInv, Dumped, OnePerTicker
<1>12. ASSUME Sweep, ~hist'.gap PROVE GapInv'
  <2>1. /\ ~hist.gap /\ UNCHANGED <<mem, disk, rowDisk, up, op>>
        /\ row' = [t \in Tickers |-> IF Holds(mem, t) THEN row[t] ELSE "armed"]
    BY <1>12 DEF Sweep
  <2>2. ASSUME NEW x \in HeldSlots(mem) PROVE row'[x[1]] = row[x[1]]
    <3>1. x[1] \in Tickers /\ x[2] \in Sides /\ x = <<x[1], x[2]>> /\ mem.held[x] > 0
      BY HeldSlotsAre DEF Slots
    <3>2. Holds(mem, x[1])
      BY <3>1 DEF Holds
    <3> QED BY <2>1, <3>1, <3>2
  <2> QED BY <2>1, <2>2 DEF GapInv, Dumped, OnePerTicker
<1>13. ASSUME StartSave \/ Tick, ~hist'.gap PROVE GapInv'
  <2>1. ~hist.gap /\ UNCHANGED <<mem, disk, row, rowDisk, up, op>>
    BY <1>13 DEF StartSave, Tick, TypeOK
  <2> QED BY <2>1 DEF GapInv, Dumped, OnePerTicker
<1>14. ASSUME EndSave, ~hist'.gap PROVE GapInv'
  <2>1. ~hist.gap /\ UNCHANGED <<mem, row, rowDisk, up, op>> /\ up
    BY <1>14 DEF EndSave
  <2>2. HeldSlots(disk') = HeldSlots(mem) /\ disk'.lost = mem.lost
    BY <1>14, EndSaveStep, HeldFields
  <2> QED BY <2>1, <2>2 DEF GapInv, Dumped, OnePerTicker
<1>15. ASSUME Crash, ~hist'.gap PROVE GapInv'
  <2>1. UNCHANGED <<disk, rowDisk>> /\ ~up' /\ mem' = FreshBook
    BY <1>15 DEF Crash
  <2>2. ~hist.gap /\ op.why # "entry"
    BY <1>15, CrashStep
  <2>3. mem'.lost = 0
    BY <2>1 DEF FreshBook
  <2> QED BY <2>1, <2>2, <2>3 DEF GapInv, Dumped, OnePerTicker
<1>16. ASSUME Boot, ~hist'.gap PROVE GapInv'
  <2>1. /\ UNCHANGED <<disk, rowDisk>> /\ hist'.gap = hist.gap
        /\ row' = rowDisk /\ op = Idle /\ op' = Idle
    BY <1>16, BootStep DEF Boot
  <2>2. HeldSlots(mem') = HeldSlots(disk) /\ mem'.lost = disk.lost
    BY <1>16, BootStep, HeldFields
  <2>3. \A x \in HeldSlots(disk) : rowDisk[x[1]] = "in"
    BY <1>16, <2>1, IdleFits DEF GapInv, Dumped
  <2> QED BY <1>16, <2>1, <2>2, <2>3 DEF GapInv, Dumped, OnePerTicker
<1>17. ASSUME NewDay, ~hist'.gap PROVE GapInv'
  <2>1. /\ ~hist.gap /\ HeldSlots(mem) = {} /\ HeldSlots(disk) = {}
        /\ mem'.lost = mem.lost /\ disk'.lost = disk.lost
        /\ HeldSlots(mem') = {} /\ HeldSlots(disk') = {}
    BY <1>17, NewDayStep, HeldFields DEF KeepsBook
  <2> QED BY <2>1 DEF GapInv, OnePerTicker
<1>18. CASE UNCHANGED vars
  BY <1>18 DEF vars, GapInv, Dumped, OnePerTicker
<1>19. hist'.gap => GapInv'
  BY DEF GapInv
<1> QED BY <1>1, <1>2, <1>3, <1>4, <1>5, <1>6, <1>7, <1>8, <1>9, <1>10, <1>11, <1>12,
           <1>13, <1>14, <1>15, <1>16, <1>17, <1>18, <1>19 DEF Next

-----------------------------------------------------------------------------
(* The balance of the book                                                 *)

\* What n shares of a side cost at the entry price, short ones negative.
Cost(s, n) == Sign(s) * EntryPrice * n
SignedHeld(h) == [x \in Slots |-> Sign(x[2]) * h[x]]

LEMMA CostType == \A s \in Sides, n \in Int : Cost(s, n) \in Int
<1> SUFFICES ASSUME NEW s \in Sides, NEW n \in Int PROVE Cost(s, n) \in Int
  OBVIOUS
<1>1. Sign(s) \in Int /\ EntryPrice \in Int
  BY Basics DEF Sign
<1> QED BY <1>1 DEF Cost

\* A trade moves the cash by what it realizes and by its cost.
LEMMA CashIsCost ==
    ASSUME NEW s \in Sides, NEW price \in Int, NEW n \in Int
    PROVE  /\ CashDelta(s, price, n) = RealizedPnl(s, price, n) + Cost(s, n)
           /\ CashDelta(s, EntryPrice, n) = Cost(s, n)
<1>1. EntryPrice \in Int
  BY Basics
<1>2. CASE s = "long"
  <2>1. Sign(s) = 1
    BY <1>2 DEF Sign
  <2>2. (price - EntryPrice) * n = price * n - EntryPrice * n
    BY <1>1
  <2>3. price * n \in Int /\ EntryPrice * n \in Int
    BY <1>1
  <2> QED BY <1>1, <2>1, <2>2, <2>3 DEF CashDelta, RealizedPnl, Cost
<1>3. CASE s = "short"
  <2>1. Sign(s) = -1
    BY <1>3 DEF Sign
  <2>2. /\ ((-1) * (price - EntryPrice)) * n = EntryPrice * n - price * n
        /\ ((-1) * price) * n = -(price * n) /\ ((-1) * EntryPrice) * n = -(EntryPrice * n)
    BY <1>1
  <2>3. price * n \in Int /\ EntryPrice * n \in Int
    BY <1>1
  <2> QED BY <1>1, <2>1, <2>2, <2>3 DEF CashDelta, RealizedPnl, Cost
<1> QED BY <1>2, <1>3 DEF Sides

LEMMA CostDifference ==
    ASSUME NEW s \in Sides, NEW n \in Int, NEW m \in Int
    PROVE  Cost(s, n - m) = Cost(s, n) - Cost(s, m)
<1>1. Sign(s) \in Int /\ EntryPrice \in Int
  BY Basics DEF Sign
<1> DEFINE c == Sign(s) * EntryPrice
<1>2. c \in Int
  BY <1>1
<1> HIDE DEF c
<1>3. c * (n - m) = c * n - c * m
  BY <1>2
<1> QED BY <1>3 DEF Cost, c

LEMMA SlotsFinite == IsFiniteSet(Slots) /\ \A x \in Slots : x[1] \in Tickers /\ x[2] \in Sides
<1>1. IsFiniteSet({"long"}) /\ {"long"} = {} \cup {"long"} /\ Sides = {"long"} \cup {"short"}
  BY FS_EmptySet, FS_AddElement DEF Sides
<1>2. IsFiniteSet(Sides)
  BY <1>1, FS_AddElement
<1>3. IsFiniteSet(Slots)
  BY <1>2, MainConstants, FS_Product DEF Slots
<1>4. \A x \in Slots : x[1] \in Tickers /\ x[2] \in Sides
  BY DEF Slots
<1> QED BY <1>3, <1>4

LEMMA SignedHeldType ==
    ASSUME NEW h \in [Slots -> 0..Lot]
    PROVE  SignedHeld(h) \in [Slots -> Int] /\ Total(SignedHeld(h)) \in Int
<1>1. \A x \in Slots : Sign(x[2]) \in Int /\ h[x] \in Int
  BY Basics DEF Sign
<1>2. SignedHeld(h) \in [Slots -> Int]
  BY <1>1 DEF SignedHeld
<1> QED BY <1>2, SlotsFinite, TotalType

\* One position of a book is written: the cost follows.
LEMMA CostWritten ==
    ASSUME NEW b \in Books, NEW c, NEW x \in Slots, NEW n \in 0..Lot,
           c.held = [b.held EXCEPT ![x] = n]
    PROVE  /\ SignedCost(b) \in Int
           /\ SignedCost(c) = SignedCost(b) + Cost(x[2], n) - Cost(x[2], b.held[x])
<1>1. b.held \in [Slots -> 0..Lot] /\ c.held \in [Slots -> 0..Lot] /\ EntryPrice \in Int
      /\ n \in Int /\ b.held[x] \in Int /\ x[2] \in Sides
  BY Basics, SlotsFinite DEF Books
<1>2. c.held[x] = n /\ \A y \in Slots \ {x} : c.held[y] = b.held[y]
  BY <1>1
<1> DEFINE f == SignedHeld(b.held)  g == SignedHeld(c.held)
           k == Sign(x[2]) * b.held[x]  l == Sign(x[2]) * n
<1>3. f \in [Slots -> Int] /\ g \in [Slots -> Int] /\ Total(f) \in Int
  BY <1>1, SignedHeldType
<1>4. f[x] = k /\ g[x] = l /\ \A y \in Slots \ {x} : g[y] = f[y]
  BY <1>2 DEF SignedHeld
<1>5. k \in Int /\ l \in Int
  BY <1>1 DEF Sign
<1>6. SignedCost(b) = EntryPrice * Total(f) /\ SignedCost(c) = EntryPrice * Total(g)
  BY DEF SignedCost, SignedHeld
<1> HIDE DEF f, g
<1>7. Total(g) = Total(f) + l - k
  BY <1>3, <1>4, SlotsFinite, TotalChange
<1>8. Cost(x[2], b.held[x]) = EntryPrice * k /\ Cost(x[2], n) = EntryPrice * l
  <2>1. ASSUME NEW m \in Int PROVE Cost(x[2], m) = EntryPrice * (Sign(x[2]) * m)
    <3>1. CASE x[2] = "long"
      BY <1>1, <3>1 DEF Cost, Sign
    <3>2. CASE x[2] = "short"
      <4>1. ((-1) * EntryPrice) * m = EntryPrice * ((-1) * m)
        BY <1>1
      <4> QED BY <3>2, <4>1 DEF Cost, Sign
    <3> QED BY <1>1, <3>1, <3>2 DEF Sides
  <2> QED BY <1>1, <2>1
<1> HIDE DEF k, l
<1>9. /\ EntryPrice * Total(f) \in Int /\ EntryPrice * k \in Int /\ EntryPrice * l \in Int
      /\ EntryPrice * (Total(f) + l - k) = EntryPrice * Total(f) + EntryPrice * l - EntryPrice * k
  BY <1>1, <1>3, <1>5
<1> QED BY <1>6, <1>7, <1>8, <1>9

LEMMA CostFields ==
    ASSUME NEW b \in Books
    PROVE  SignedCost(b) \in Int /\ \A c : c.held = b.held => SignedCost(c) = SignedCost(b)
<1>1. b.held \in [Slots -> 0..Lot] /\ EntryPrice \in Int
  BY Basics DEF Books
<1>2. SignedCost(b) = EntryPrice * Total(SignedHeld(b.held))
  BY DEF SignedCost, SignedHeld
<1>3. Total(SignedHeld(b.held)) \in Int
  BY <1>1, SignedHeldType
<1> QED BY <1>1, <1>2, <1>3 DEF SignedCost

LEMMA CostFresh == SignedCost(FreshBook) = 0
<1>1. \A x \in Slots : FreshBook.held[x] = 0 /\ Sign(x[2]) * 0 = 0 /\ Sign(x[2]) \in Int
  BY DEF FreshBook, Sign
<1> DEFINE f == SignedHeld(FreshBook.held)
<1>2. f \in [Slots -> Int] /\ \A x \in Slots : f[x] = 0
  BY <1>1 DEF SignedHeld
<1>3. SignedCost(FreshBook) = EntryPrice * Total(f)
  BY DEF SignedCost, SignedHeld
<1> HIDE DEF f
<1> QED BY <1>2, <1>3, TotalZero, Basics

\* The money of the book: what opening and taking a position leave alone.
SameMoney == mem'.cash = mem.cash /\ mem'.realized = mem.realized /\ mem'.clean = mem.clean
SamePnl == mem'.longPnl = mem.longPnl /\ mem'.shortPnl = mem.shortPnl

LEMMA MoneyOfOpen ==
    ASSUME TypeOK, NEW x \in Slots, Open(x)
    PROVE  SameMoney /\ SamePnl
<1>1. \E h, l : mem' = [mem EXCEPT !.held = h, !.lost = l]
  BY DEF Open, Inserted, TypeOK, Books
<1> QED BY <1>1 DEF SameMoney, SamePnl, TypeOK, Books

LEMMA MoneyOfPop ==
    ASSUME TypeOK, NEW x, mem' = [mem EXCEPT !.held[x] = 0]
    PROVE  SameMoney /\ SamePnl
<1>1. \E h : mem' = [mem EXCEPT !.held = h]
  BY DEF TypeOK, Books
<1> QED BY <1>1 DEF SameMoney, SamePnl, TypeOK, Books

LEMMA MoneyOfReduce ==
    ASSUME TypeOK, Reduce
    PROVE  /\ mem'.cash = mem.cash /\ mem'.clean = mem.clean /\ SamePnl
           /\ mem'.realized = mem.realized + RealizedPnl(op.slot[2], op.price, Half)
<1> DEFINE r == mem.realized + RealizedPnl(op.slot[2], op.price, Half)
<1>1. \E h : mem' = [mem EXCEPT !.held = h, !.realized = r]
  BY DEF Reduce, TypeOK, Books
<1> HIDE DEF r
<1>2. mem'.cash = mem.cash /\ mem'.clean = mem.clean /\ SamePnl /\ mem'.realized = r
  BY <1>1 DEF SamePnl, TypeOK, Books
<1> QED BY <1>2 DEF r

LEMMA MoneyOfCredit ==
    ASSUME TypeOK, Credit
    PROVE  /\ mem'.cash = mem.cash + CashDelta(op.slot[2], op.price, op.shares)
           /\ mem'.realized = mem.realized + RealizedPnl(op.slot[2], op.price, op.shares)
           /\ mem'.clean = mem.clean
<1> DEFINE c == mem.cash + CashDelta(op.slot[2], op.price, op.shares)
           r == mem.realized + RealizedPnl(op.slot[2], op.price, op.shares)
<1>1. \E l, s : mem' = [mem EXCEPT !.cash = c, !.realized = r, !.longPnl = l, !.shortPnl = s]
  BY DEF Credit, Credited
<1> HIDE DEF c, r
<1>2. mem'.cash = c /\ mem'.realized = r /\ mem'.clean = mem.clean
  BY <1>1 DEF TypeOK, Books
<1> QED BY <1>2 DEF c, r

LEMMA MoneyOfCash ==
    ASSUME TypeOK, NEW c, mem' = [mem EXCEPT !.cash = c]
    PROVE  mem'.cash = c /\ mem'.realized = mem.realized /\ mem'.clean = mem.clean /\ SamePnl
BY DEF SamePnl, TypeOK, Books

\* The reset and a new date touch the money of the day only.
LEMMA MoneyOfDays ==
    ASSUME TypeOK, ResetDaily \/ NewDay
    PROVE  /\ SameMoney /\ mem'.shortPnl \in {mem.shortPnl, 0}
           /\ NewDay => /\ disk'.cash = disk.cash /\ disk'.realized = disk.realized
                        /\ disk'.clean = disk.clean
                        /\ mem'.longPnl = 0 /\ mem'.shortPnl = 0
                        /\ disk'.longPnl = 0 /\ disk'.shortPnl = 0
<1>1. CASE ResetDaily
  <2>1. \E l : mem' = [mem EXCEPT !.halted = FALSE, !.entryDate = day, !.longPnl = l]
    BY <1>1 DEF ResetDaily
  <2>2. ~NewDay
    BY <1>1 DEF ResetDaily, NewDay
  <2> QED BY <2>1, <2>2 DEF SameMoney, TypeOK, Books
<1>2. CASE NewDay
  <2> DEFINE Cleared(b) == [b EXCEPT !.longPnl = 0, !.shortPnl = 0]
  <2>1. mem' = Cleared(mem) /\ disk' = Cleared(disk) /\ mem \in Books /\ disk \in Books
    BY <1>2 DEF NewDay, TypeOK
  <2>2. ASSUME NEW b \in Books
        PROVE  /\ Cleared(b).cash = b.cash /\ Cleared(b).realized = b.realized
               /\ Cleared(b).clean = b.clean
               /\ Cleared(b).longPnl = 0 /\ Cleared(b).shortPnl = 0
    BY DEF Books
  <2> HIDE DEF Cleared
  <2> QED BY <2>1, <2>2 DEF SameMoney
<1> QED BY <1>1, <1>2

LEMMA MoneyOfFile ==
    ASSUME TypeOK
    PROVE  /\ EndSave => /\ disk'.cash = saver.cash /\ disk'.realized = mem.realized
                         /\ disk'.clean = (mem.clean /\ ~saver.dirty)
                         /\ disk'.longPnl = mem.longPnl /\ disk'.shortPnl = mem.shortPnl
           /\ Boot => /\ mem'.cash = disk.cash /\ mem'.realized = disk.realized
                      /\ mem'.clean = disk.clean /\ mem'.shortPnl = disk.shortPnl
                      /\ disk.entryDate = day =>
                           mem'.longPnl = disk.longPnl /\ mem'.halted = disk.halted
<1>1. ASSUME EndSave
      PROVE  /\ disk'.cash = saver.cash /\ disk'.realized = mem.realized
             /\ disk'.clean = (mem.clean /\ ~saver.dirty)
             /\ disk'.longPnl = mem.longPnl /\ disk'.shortPnl = mem.shortPnl
  <2> DEFINE c == mem.clean /\ ~saver.dirty
  <2>1. disk' = [mem EXCEPT !.cash = saver.cash, !.clean = c]
    BY <1>1 DEF EndSave
  <2> HIDE DEF c
  <2>2. /\ disk'.cash = saver.cash /\ disk'.realized = mem.realized /\ disk'.clean = c
        /\ disk'.longPnl = mem.longPnl /\ disk'.shortPnl = mem.shortPnl
    BY <2>1 DEF TypeOK, Books
  <2> QED BY <2>2 DEF c
<1>2. ASSUME Boot
      PROVE  /\ mem'.cash = disk.cash /\ mem'.realized = disk.realized
             /\ mem'.clean = disk.clean /\ mem'.shortPnl = disk.shortPnl
             /\ disk.entryDate = day =>
                  mem'.longPnl = disk.longPnl /\ mem'.halted = disk.halted
  <2> DEFINE l == IF disk.entryDate # day THEN 0 ELSE disk.longPnl
             h == disk.halted /\ disk.entryDate = day
  <2>1. mem' = [disk EXCEPT !.longPnl = l, !.halted = h]
    BY <1>2 DEF Boot, Loaded
  <2>2. disk.halted \in BOOLEAN
    BY DEF TypeOK, Books
  <2>3. disk.entryDate = day => l = disk.longPnl /\ h = disk.halted
    BY <2>2
  <2> HIDE DEF l, h
  <2>4. /\ mem'.cash = disk.cash /\ mem'.realized = disk.realized
        /\ mem'.clean = disk.clean /\ mem'.shortPnl = disk.shortPnl
        /\ mem'.longPnl = l /\ mem'.halted = h
    BY <2>1 DEF TypeOK, Books
  <2> QED BY <2>3, <2>4
<1> QED BY <1>1, <1>2

\* What a book is short of or has too much between two writes of a handler.
Balance(b) == b.cash + SignedCost(b) + b.lost - b.realized
Owed(o) ==
    CASE o.stage = "debit"  -> Cost(o.slot[2], Lot)
      [] o.stage = "credit" -> -Cost(o.slot[2], o.shares)
      [] o.stage = "reduce" -> CashDelta(o.slot[2], o.price, Half)
      [] OTHER -> 0

Unsettled == {"debit", "credit", "reduce"}

\* The book is off by what the handler owes it; the file is not off, nor is
\* what the save thread has copied if no handler wrote meanwhile.
BalanceInv ==
    /\ mem.clean => Balance(mem) = StartCash + Owed(op)
    /\ disk.clean => Balance(disk) = StartCash
    /\ saver.busy => up /\ (~saver.dirty => saver.cash = mem.cash /\ op.stage \notin Unsettled)

LEMMA BalanceSame ==
    ASSUME NEW b \in Books, NEW c, c.held = b.held, c.cash = b.cash,
           c.realized = b.realized, c.lost = b.lost
    PROVE  Balance(c) = Balance(b)
BY CostFields DEF Balance

LEMMA OwedIdle ==
    /\ \A o : o.stage \notin Unsettled => Owed(o) = 0
    /\ \A o : o.stage = "debit" => Owed(o) = Cost(o.slot[2], Lot)
    /\ \A o : o.stage = "credit" => Owed(o) = -Cost(o.slot[2], o.shares)
    /\ \A o : o.stage = "reduce" => Owed(o) = CashDelta(o.slot[2], o.price, Half)
BY DEF Owed, Unsettled

\* A handler that wrote says so to the save thread.
LEMMA SaverTold ==
    ASSUME TypeOK, saver.busy => up, saver' = Touched, up' = up
    PROVE  saver'.busy => up' /\ saver'.dirty
BY DEF Touched, TypeOK

LEMMA BalanceStepInv ==
    ASSUME TypeOK, Shape, BalanceInv, [Next]_vars
    PROVE  BalanceInv'
<1>d. /\ 0 \in 0..Lot /\ Lot \in 0..Lot /\ Lot \in Int /\ Half \in Int /\ StartCash \in Int
      /\ EntryPrice \in Int /\ Prices \subseteq Int
  BY Basics, MainConstants
<1>o. op \in Ops /\ mem \in Books /\ disk \in Books /\ saver.busy \in BOOLEAN
  BY DEF TypeOK
<1>f. /\ mem.cash \in Int /\ mem.realized \in Int /\ mem.lost \in Int
      /\ mem.held \in [Slots -> 0..Lot] /\ SignedCost(mem) \in Int /\ Balance(mem) \in Int
      /\ \A y \in Slots : mem.held[y] \in 0..Lot /\ mem.held[y] \in Int
  BY <1>d, <1>o, CostFields DEF Books, Balance
<1>1. ASSUME NEW x \in Slots, Open(x) PROVE BalanceInv'
  <2>1. /\ UNCHANGED <<disk, up>> /\ saver' = Touched /\ op.stage = "idle"
    BY <1>1 DEF Open, Scanning, Ready
  <2>2. /\ mem'.held = [mem.held EXCEPT ![x] = Lot]
        /\ mem'.lost = mem.lost + Sign(x[2]) * EntryPrice * mem.held[x]
        /\ op'.stage = "debit" /\ op'.slot = x /\ SameMoney
    BY <1>1, OpenStep, MoneyOfOpen
  <2>3. /\ SignedCost(mem') = SignedCost(mem) + Cost(x[2], Lot) - Cost(x[2], mem.held[x])
        /\ mem'.lost = mem.lost + Cost(x[2], mem.held[x])
        /\ Cost(x[2], Lot) \in Int /\ Cost(x[2], mem.held[x]) \in Int
    BY <1>d, <1>o, <1>f, <2>2, CostWritten, CostType, SlotsFinite DEF Cost
  <2>4. Balance(mem') = Balance(mem) + Cost(x[2], Lot)
    BY <1>f, <2>2, <2>3 DEF Balance, SameMoney
  <2>5. Owed(op) = 0 /\ Owed(op') = Cost(x[2], Lot)
    BY <2>1, <2>2, OwedIdle DEF Unsettled
  <2> QED BY <1>d, <1>f, <2>1, <2>2, <2>3, <2>4, <2>5, SaverTold DEF BalanceInv, SameMoney
<1>2. ASSUME NEW x \in Slots, NEW price \in Prices, Exit(x, price) PROVE BalanceInv'
  <2>1. UNCHANGED <<disk, up>> /\ saver' = Touched /\ op.stage = "idle"
    BY <1>2 DEF Exit, Scanning, Ready
  <2>2. /\ mem'.held = [mem.held EXCEPT ![x] = 0] /\ mem'.lost = mem.lost
        /\ op'.stage = "credit" /\ op'.slot = x
    BY <1>2, ExitStep
  <2>3. SameMoney /\ op'.shares = mem.held[x]
    BY <1>2, MoneyOfPop DEF Exit, Idle
  <2>4. /\ SignedCost(mem') = SignedCost(mem) + Cost(x[2], 0) - Cost(x[2], mem.held[x])
        /\ Cost(x[2], 0) = 0 /\ Cost(x[2], mem.held[x]) \in Int
    <3>1. Cost(x[2], 0) = 0
      BY <1>d DEF Cost, Sign
    <3> QED BY <1>d, <1>o, <1>f, <2>2, <3>1, CostWritten, CostType, SlotsFinite
  <2>5. Balance(mem') = Balance(mem) - Cost(x[2], mem.held[x])
    BY <1>f, <2>2, <2>3, <2>4 DEF Balance, SameMoney
  <2>6. Owed(op) = 0 /\ Owed(op') = -Cost(x[2], mem.held[x])
    BY <2>1, <2>2, <2>3, OwedIdle DEF Unsettled
  <2> QED BY <1>d, <1>f, <2>1, <2>3, <2>4, <2>5, <2>6, SaverTold DEF BalanceInv, SameMoney
<1>3. ASSUME NEW x \in Slots, NEW price \in Prices, Partial(x, price) PROVE BalanceInv'
  <2>1. /\ UNCHANGED <<disk, up>> /\ saver' = Touched /\ op.stage = "idle"
        /\ mem' = [mem EXCEPT !.cash = mem.cash + CashDelta(x[2], price, Half)]
        /\ op' = [Idle EXCEPT !.stage = "reduce", !.why = "partial", !.slot = x, !.price = price]
    BY <1>3 DEF Partial, Scanning, Ready
  <2> DEFINE c == mem.cash + CashDelta(x[2], price, Half)
  <2>2. mem'.cash = c /\ mem'.realized = mem.realized /\ mem'.clean = mem.clean
    BY <2>1, MoneyOfCash
  <2>3. op'.stage = "reduce" /\ op'.slot = x /\ op'.price = price
    BY <2>1 DEF Idle
  <2>4. mem'.held = mem.held /\ mem'.lost = mem.lost
    BY <1>3, PartialStep DEF KeepsBook
  <2>5. CashDelta(x[2], price, Half) \in Int
    BY <1>d, SlotsFinite, Money
  <2>6. SignedCost(mem') = SignedCost(mem)
    BY <1>o, <2>4, CostFields
  <2>7. Balance(mem') = Balance(mem) + CashDelta(x[2], price, Half)
    BY <1>f, <2>2, <2>4, <2>5, <2>6 DEF Balance
  <2>8. Owed(op) = 0 /\ Owed(op') = CashDelta(x[2], price, Half)
    BY <2>1, <2>3, OwedIdle DEF Unsettled
  <2> QED BY <1>d, <1>f, <2>1, <2>2, <2>5, <2>7, <2>8, SaverTold DEF BalanceInv
<1>4. ASSUME NEW price \in Prices, Breach(price) PROVE BalanceInv'
  <2>1. UNCHANGED <<disk, up, saver>> /\ op.stage = "idle"
        /\ mem' = [mem EXCEPT !.halted = TRUE]
    BY <1>4 DEF Breach, Scanning, Ready
  <2>2. mem'.held = mem.held /\ mem'.lost = mem.lost /\ op'.stage \in {"idle", "next"}
    BY <1>4, BreachStep
  <2>3. mem'.cash = mem.cash /\ mem'.realized = mem.realized /\ mem'.clean = mem.clean
    BY <1>o, <2>1 DEF Books
  <2>4. Balance(mem') = Balance(mem)
    BY <1>o, <2>2, <2>3, BalanceSame
  <2>5. Owed(op) = 0 /\ Owed(op') = 0
    BY <2>1, <2>2, OwedIdle DEF Unsettled
  <2> QED BY <1>o, <2>1, <2>2, <2>3, <2>4, <2>5 DEF BalanceInv, Unsettled
<1>5. ASSUME NEW price \in Prices, Eod(price) PROVE BalanceInv'
  <2>1. UNCHANGED <<disk, up, saver, mem>> /\ op.stage = "idle"
    BY <1>5 DEF Eod, Ready
  <2>2. op'.stage \in {"save", "next"}
    BY <1>5, EodStep
  <2>3. Owed(op) = 0 /\ Owed(op') = 0
    BY <2>1, <2>2, OwedIdle DEF Unsettled
  <2> QED BY <2>1, <2>2, <2>3 DEF BalanceInv, Unsettled
<1>6. CASE Debit
  <2>1. /\ UNCHANGED <<disk, up>> /\ saver' = Touched /\ op.stage = "debit"
        /\ mem' = [mem EXCEPT !.cash = mem.cash - CashDelta(op.slot[2], EntryPrice, Lot)]
    BY <1>6 DEF Debit
  <2> DEFINE c == mem.cash - CashDelta(op.slot[2], EntryPrice, Lot)
  <2>2. mem'.cash = c /\ mem'.realized = mem.realized /\ mem'.clean = mem.clean
    BY <2>1, MoneyOfCash
  <2>3. mem'.held = mem.held /\ mem'.lost = mem.lost /\ op'.stage = "save"
    BY <1>6, DebitStep DEF KeepsBook, Onward
  <2>4. op.slot[2] \in Sides
    BY <2>1, SlotsFinite DEF Shape
  <2>5. CashDelta(op.slot[2], EntryPrice, Lot) = Cost(op.slot[2], Lot)
        /\ Cost(op.slot[2], Lot) \in Int
    BY <1>d, <2>4, CashIsCost, CostType
  <2>6. SignedCost(mem') = SignedCost(mem)
    BY <1>o, <2>3, CostFields
  <2>7. Balance(mem') = Balance(mem) - Cost(op.slot[2], Lot)
    BY <1>f, <2>2, <2>3, <2>5, <2>6 DEF Balance
  <2>8. Owed(op) = Cost(op.slot[2], Lot) /\ Owed(op') = 0
    BY <2>1, <2>3, OwedIdle DEF Unsettled
  <2> QED BY <1>d, <1>f, <2>1, <2>2, <2>5, <2>7, <2>8, SaverTold DEF BalanceInv
<1>7. CASE Credit
  <2> DEFINE s == op.slot[2]
             k == Cost(s, op.shares)  r == RealizedPnl(s, op.price, op.shares)
  <2>1. UNCHANGED <<disk, up>> /\ saver' = Touched /\ op.stage = "credit"
    BY <1>7 DEF Credit
  <2>2. mem'.held = mem.held /\ mem'.lost = mem.lost /\ op'.stage = "save"
    BY <1>7, CreditStep DEF KeepsBook, Onward
  <2>3. s \in Sides /\ op.price \in Int /\ op.shares \in Int
    BY <1>d, <1>o, <2>1, SlotsFinite, OpFields DEF Shape
  <2>4. k \in Int /\ r \in Int /\ CashDelta(s, op.price, op.shares) = r + k
    BY <2>3, CostType, Money, CashIsCost
  <2>5. mem'.cash = mem.cash + r + k /\ mem'.realized = mem.realized + r /\ mem'.clean = mem.clean
    BY <1>7, <1>f, <2>4, MoneyOfCredit
  <2>6. SignedCost(mem') = SignedCost(mem)
    BY <1>o, <2>2, CostFields
  <2>7. Owed(op) = -k /\ Owed(op') = 0
    BY <2>1, <2>2, OwedIdle DEF Unsettled
  <2> HIDE DEF k, r
  <2>8. Balance(mem') = Balance(mem) + k
    BY <1>f, <2>2, <2>4, <2>5, <2>6 DEF Balance
  <2> QED BY <1>d, <1>f, <2>1, <2>4, <2>5, <2>7, <2>8, SaverTold DEF BalanceInv
<1>8. CASE SaveEntry \/ SaveClose
  <2>1. UNCHANGED <<up, saver, mem>> /\ op.stage = "save" /\ ~saver.busy /\ disk' = mem
    BY <1>8 DEF SaveEntry, SaveClose
  <2>2. op'.stage \in {"persist", "idle", "next"}
    BY <1>8, SaveEntryStep, SaveCloseStep, IdleFits DEF Onward
  <2>3. Owed(op) = 0 /\ Owed(op') = 0
    BY <2>1, <2>2, OwedIdle DEF Unsettled
  <2> QED BY <1>d, <2>1, <2>3 DEF BalanceInv
<1>9. CASE PersistEntry
  <2>1. UNCHANGED <<up, saver, mem, disk>> /\ op.stage = "persist" /\ op'.stage = "idle"
    BY <1>9, IdleFits DEF PersistEntry
  <2>2. Owed(op) = 0 /\ Owed(op') = 0
    BY <2>1, OwedIdle DEF Unsettled
  <2> QED BY <2>1, <2>2 DEF BalanceInv, Unsettled
<1>10. CASE CloseNext
  <2>1. PICK x \in op.todo : Popped(x, op.price, op.todo \ {x})
    BY <1>10 DEF CloseNext
  <2>2. UNCHANGED <<disk, up>> /\ saver' = Touched /\ op.stage = "next"
    BY <1>10, <2>1 DEF CloseNext, Popped
  <2>3. op'.stage = "credit" /\ op'.slot = x /\ op'.shares = mem.held[x]
    BY <1>o, <2>1 DEF Popped, Ops
  <2>4. x \in Slots
    BY <1>o, OpFields
  <2>5. mem'.held = [mem.held EXCEPT ![x] = 0] /\ mem'.lost = mem.lost /\ SameMoney
    BY <1>10, <2>1, <2>3, CloseNextStep, MoneyOfPop DEF Popped
  <2>6. /\ SignedCost(mem') = SignedCost(mem) + Cost(x[2], 0) - Cost(x[2], mem.held[x])
        /\ Cost(x[2], 0) = 0 /\ Cost(x[2], mem.held[x]) \in Int
    <3>1. Cost(x[2], 0) = 0
      BY <1>d DEF Cost, Sign
    <3> QED BY <1>d, <1>o, <1>f, <2>4, <2>5, <3>1, CostWritten, CostType, SlotsFinite
  <2>7. Balance(mem') = Balance(mem) - Cost(x[2], mem.held[x])
    BY <1>f, <2>5, <2>6 DEF Balance, SameMoney
  <2>8. Owed(op) = 0 /\ Owed(op') = -Cost(x[2], mem.held[x])
    BY <2>2, <2>3, OwedIdle DEF Unsettled
  <2> QED BY <1>d, <1>f, <2>2, <2>5, <2>6, <2>7, <2>8, SaverTold DEF BalanceInv, SameMoney
<1>11. CASE Reduce
  <2> DEFINE s == op.slot[2]  n == mem.held[op.slot]
             k == Cost(s, Half)  r == RealizedPnl(s, op.price, Half)
  <2>1. UNCHANGED <<disk, up>> /\ saver' = Touched /\ op.stage = "reduce"
    BY <1>11 DEF Reduce
  <2>2. /\ op'.stage = "idle" /\ op.slot \in Slots /\ n - Half > 0 /\ mem'.lost = mem.lost
        /\ mem'.held = [mem.held EXCEPT ![op.slot] = n - Half]
    BY <1>11, ReduceStep, IdleFits
  <2>3. s \in Sides /\ op.price \in Int /\ n \in 0..Lot /\ n - Half \in 0..Lot
    BY <1>f, <1>o, <2>2, Basics, SlotsFinite, OpFields
  <2>4. k \in Int /\ r \in Int /\ CashDelta(s, op.price, Half) = r + k
    BY <1>d, <2>3, CostType, Money, CashIsCost
  <2>5. mem'.cash = mem.cash /\ mem'.realized = mem.realized + r /\ mem'.clean = mem.clean
    BY <1>11, MoneyOfReduce
  <2>6. Cost(s, n) \in Int /\ Cost(s, n - Half) = Cost(s, n) - k
    <3>1. n \in Int
      BY <2>3
    <3> HIDE DEF n
    <3> QED BY <1>d, <2>3, <3>1, CostType, CostDifference
  <2>7. SignedCost(mem') = SignedCost(mem) + Cost(s, n - Half) - Cost(s, n)
    <3> DEFINE m == n - Half
    <3>1. m \in 0..Lot /\ mem'.held = [mem.held EXCEPT ![op.slot] = m]
      BY <2>2, <2>3
    <3> HIDE DEF m
    <3>2. SignedCost(mem') = SignedCost(mem) + Cost(s, m) - Cost(s, n)
      BY <1>o, <2>2, <3>1, CostWritten
    <3> QED BY <3>2 DEF m
  <2>8. Owed(op) = r + k /\ Owed(op') = 0
    BY <2>1, <2>2, <2>4, OwedIdle DEF Unsettled
  <2> HIDE DEF k, r
  <2>9. Balance(mem') = Balance(mem) - k - r
    BY <1>f, <2>2, <2>4, <2>5, <2>6, <2>7 DEF Balance
  <2> QED BY <1>d, <1>f, <2>1, <2>4, <2>5, <2>8, <2>9, SaverTold DEF BalanceInv
<1>12. CASE ResetDaily
  <2>1. UNCHANGED <<disk, up, saver, op>>
    BY <1>12 DEF ResetDaily
  <2>2. mem'.held = mem.held /\ mem'.lost = mem.lost /\ SameMoney
    BY <1>12, ResetDailyStep, MoneyOfDays
  <2>3. Balance(mem') = Balance(mem)
    BY <1>o, <2>2, BalanceSame DEF SameMoney
  <2> QED BY <2>1, <2>2, <2>3 DEF BalanceInv, SameMoney
<1>13. CASE Sweep \/ Dump \/ Tick
  BY <1>13 DEF Sweep, Dump, Tick, BalanceInv
<1>14. CASE StartSave
  <2>1. UNCHANGED <<mem, disk, up, op>> /\ up
        /\ saver' = [busy |-> TRUE, cash |-> mem.cash, dirty |-> op.stage \in Unsettled]
    BY <1>14 DEF StartSave, Unsettled
  <2> QED BY <2>1 DEF BalanceInv
<1>15. CASE EndSave
  <2>1. UNCHANGED <<mem, up, op>> /\ saver.busy /\ saver' = NoSave
    BY <1>15 DEF EndSave
  <2>2. /\ disk'.held = mem.held /\ disk'.lost = mem.lost /\ disk'.cash = saver.cash
        /\ disk'.realized = mem.realized /\ disk'.clean = (mem.clean /\ ~saver.dirty)
    BY <1>15, EndSaveStep, MoneyOfFile
  <2>3. ASSUME disk'.clean PROVE Balance(disk') = StartCash
    <3>1. mem.clean /\ ~saver.dirty /\ saver.cash = mem.cash /\ op.stage \notin Unsettled
      BY <2>1, <2>2, <2>3 DEF BalanceInv
    <3>2. Balance(disk') = Balance(mem)
      BY <1>o, <2>2, <3>1, BalanceSame
    <3>3. Owed(op) = 0
      BY <3>1, OwedIdle
    <3> QED BY <1>d, <3>1, <3>2, <3>3 DEF BalanceInv
  <2> QED BY <2>1, <2>3 DEF BalanceInv, NoSave
<1>16. CASE Crash
  <2>1. disk' = disk /\ mem' = FreshBook /\ op'.stage = "idle" /\ saver' = NoSave
    BY <1>16, IdleFits DEF Crash
  <2>2. Balance(FreshBook) = StartCash
    BY <1>d, CostFresh DEF Balance, FreshBook
  <2>3. Owed(op') = 0
    BY <2>1, OwedIdle DEF Unsettled
  <2> QED BY <1>d, <2>1, <2>2, <2>3 DEF BalanceInv, NoSave
<1>17. CASE Boot
  <2>1. UNCHANGED <<disk, op, saver>> /\ ~up
    BY <1>17 DEF Boot
  <2>2. /\ mem'.held = disk.held /\ mem'.lost = disk.lost /\ mem'.cash = disk.cash
        /\ mem'.realized = disk.realized /\ mem'.clean = disk.clean
    BY <1>17, BootStep, MoneyOfFile
  <2>3. Balance(mem') = Balance(disk)
    BY <1>o, <2>2, BalanceSame
  <2>4. Owed(op') = 0
    <3>1. op.stage = "idle"
      BY <2>1, IdleFits DEF Shape
    <3> QED BY <2>1, <3>1, OwedIdle DEF Unsettled
  <2> QED BY <1>d, <2>1, <2>2, <2>3, <2>4 DEF BalanceInv
<1>18. CASE NewDay
  <2>1. UNCHANGED <<up, op, saver>>
    BY <1>18 DEF NewDay
  <2>2. /\ mem'.held = mem.held /\ mem'.lost = mem.lost /\ SameMoney
        /\ disk'.held = disk.held /\ disk'.lost = disk.lost /\ disk'.cash = disk.cash
        /\ disk'.realized = disk.realized /\ disk'.clean = disk.clean
    BY <1>18, NewDayStep, MoneyOfDays DEF KeepsBook
  <2>3. Balance(mem') = Balance(mem) /\ Balance(disk') = Balance(disk)
    BY <1>o, <2>2, BalanceSame DEF SameMoney
  <2> QED BY <2>1, <2>2, <2>3 DEF BalanceInv, SameMoney
<1>19. CASE UNCHANGED vars
  BY <1>19 DEF vars, BalanceInv
<1> QED BY <1>1, <1>2, <1>3, <1>4, <1>5, <1>6, <1>7, <1>8, <1>9, <1>10, <1>11, <1>12,
           <1>13, <1>14, <1>15, <1>16, <1>17, <1>18, <1>19 DEF Next

-----------------------------------------------------------------------------
(* The file and the memory                                                 *)

Closing == op.stage = "save" /\ op.why # "entry"

\* Before the open the day has no P&L.  A file of today's date has the P&L of
\* the memory, but for a close that is about to be saved; and no file holds a
\* slot that memory does not, but for the one being closed.
FileInv ==
    /\ clock = "open" =>
         /\ op.stage = "idle"
         /\ mem.longPnl = 0 /\ mem.shortPnl = 0 /\ disk.longPnl = 0 /\ disk.shortPnl = 0
    /\ up /\ disk.entryDate = day /\ ~Closing =>
         disk.longPnl = mem.longPnl /\ disk.shortPnl = mem.shortPnl
    /\ up => \A x \in HeldSlots(disk) :
               \/ x \in HeldSlots(mem)
               \/ op.stage \in {"credit", "save"} /\ op.why # "entry" /\ op.slot = x

LEMMA FileStepInv ==
    ASSUME TypeOK, Shape, FileInv, [Next]_vars
    PROVE  FileInv'
<1>d. 0 \in 0..Lot /\ Lot \in 0..Lot /\ Lot > 0
  BY Basics
<1>o. op \in Ops /\ mem \in Books
  BY DEF TypeOK
<1>1. ASSUME NEW x \in Slots, Open(x) PROVE FileInv'
  <2>1. UNCHANGED <<day, clock, disk, up>> /\ op.stage = "idle" /\ clock # "open"
    BY <1>1 DEF Open, Scanning, Ready
  <2>2. mem'.held = [mem.held EXCEPT ![x] = Lot] /\ op'.stage = "debit" /\ SamePnl
    BY <1>1, OpenStep, MoneyOfOpen
  <2>3. HeldSlots(mem') = HeldSlots(mem) \cup {x}
    BY <1>d, <1>o, <2>2, HeldWritten
  <2> QED BY <2>1, <2>2, <2>3 DEF FileInv, SamePnl, Closing
<1>2. ASSUME NEW x \in Slots, NEW price \in Prices, Exit(x, price) PROVE FileInv'
  <2>1. UNCHANGED <<day, clock, disk, up>> /\ op.stage = "idle" /\ clock # "open"
    BY <1>2 DEF Exit, Scanning, Ready
  <2>2. /\ mem'.held = [mem.held EXCEPT ![x] = 0] /\ SamePnl
        /\ op'.stage = "credit" /\ op'.why = "exit" /\ op'.slot = x
    BY <1>2, ExitStep, MoneyOfPop DEF Exit
  <2>3. HeldSlots(mem') = HeldSlots(mem) \ {x}
    BY <1>d, <1>o, <2>2, HeldWritten
  <2> QED BY <2>1, <2>2, <2>3 DEF FileInv, SamePnl, Closing
<1>3. ASSUME NEW x \in Slots, NEW price \in Prices, Partial(x, price) PROVE FileInv'
  <2>1. UNCHANGED <<day, clock, disk, up>> /\ op.stage = "idle" /\ clock # "open"
    BY <1>3 DEF Partial, Scanning, Ready
  <2>2. SamePnl
    BY <1>3, MoneyOfCash DEF Partial
  <2>3. HeldSlots(mem') = HeldSlots(mem) /\ op'.stage = "reduce"
    BY <1>3, PartialStep, HeldFields DEF KeepsBook
  <2> QED BY <2>1, <2>2, <2>3 DEF FileInv, SamePnl, Closing
<1>4. ASSUME NEW price \in Prices, Breach(price) PROVE FileInv'
  <2>1. /\ UNCHANGED <<day, clock, disk, up>> /\ op.stage = "idle" /\ clock # "open"
        /\ mem' = [mem EXCEPT !.halted = TRUE]
    BY <1>4 DEF Breach, Scanning, Ready
  <2>2. SamePnl
    BY <1>o, <2>1 DEF SamePnl, Books
  <2>3. HeldSlots(mem') = HeldSlots(mem) /\ op'.stage \in {"idle", "next"}
    BY <1>4, BreachStep, HeldFields
  <2> QED BY <2>1, <2>2, <2>3 DEF FileInv, SamePnl, Closing
<1>5. ASSUME NEW price \in Prices, Eod(price) PROVE FileInv'
  <2>1. UNCHANGED <<day, clock, disk, mem, up>> /\ op.stage = "idle" /\ clock = "flush"
    BY <1>5 DEF Eod, Ready
  <2>2. op'.stage \in {"save", "next"} /\ op'.why = "eod"
    BY <1>5, EodStep
  <2> QED BY <2>1, <2>2 DEF FileInv, Closing
<1>6. CASE Debit
  <2>1. UNCHANGED <<day, clock, disk, up>> /\ op.stage = "debit" /\ op.why = "entry"
    BY <1>6 DEF Debit, Shape
  <2>2. SamePnl
    BY <1>6, MoneyOfCash DEF Debit
  <2>3. HeldSlots(mem') = HeldSlots(mem) /\ op'.stage = "save" /\ op'.why = op.why
    BY <1>6, DebitStep, HeldFields DEF KeepsBook, Onward
  <2> QED BY <2>1, <2>2, <2>3 DEF FileInv, SamePnl, Closing
<1>7. CASE Credit
  <2>1. UNCHANGED <<day, clock, disk, up>> /\ op.stage = "credit" /\ op.why # "entry"
    BY <1>7 DEF Credit, Shape
  <2>2. HeldSlots(mem') = HeldSlots(mem) /\ op'.stage = "save" /\ op'.why = op.why
        /\ op'.slot = op.slot
    BY <1>7, CreditStep, HeldFields DEF KeepsBook, Onward
  <2> QED BY <2>1, <2>2 DEF FileInv, Closing
<1>8. CASE SaveEntry \/ SaveClose
  <2>1. UNCHANGED <<day, clock, mem, up>> /\ op.stage = "save" /\ disk' = mem
    BY <1>8 DEF SaveEntry, SaveClose
  <2> QED BY <2>1 DEF FileInv
<1>9. CASE PersistEntry
  <2>1. UNCHANGED <<day, clock, mem, disk, up>> /\ op.stage = "persist"
        /\ op.why = "entry" /\ op'.stage = "idle"
    BY <1>9, IdleFits DEF PersistEntry, Shape
  <2> QED BY <2>1 DEF FileInv, Closing
<1>10. CASE CloseNext
  <2>1. UNCHANGED <<day, clock, disk, up>> /\ op.stage = "next"
    BY <1>10 DEF CloseNext
  <2>2. /\ op'.stage = "credit" /\ op'.why = op.why /\ op.why \in {"halt", "eod"}
        /\ op'.slot \in op.todo /\ mem'.held = [mem.held EXCEPT ![op'.slot] = 0]
    BY <1>10, CloseNextStep
  <2>3. op'.slot \in Slots
    BY <1>o, <2>2, OpFields
  <2>4. HeldSlots(mem') = HeldSlots(mem) \ {op'.slot}
    BY <1>d, <1>o, <2>2, <2>3, HeldWritten
  <2>5. SamePnl
    <3>1. PICK x \in op.todo : Popped(x, op.price, op.todo \ {x})
      BY <1>10 DEF CloseNext
    <3> QED BY <3>1, MoneyOfPop DEF Popped
  <2> QED BY <2>1, <2>2, <2>4, <2>5 DEF FileInv, SamePnl, Closing
<1>11. CASE Reduce
  <2>1. /\ UNCHANGED <<day, clock, disk, up>> /\ op.stage = "reduce" /\ op'.stage = "idle"
        /\ SamePnl
    BY <1>11, ReduceStep, IdleFits, MoneyOfReduce DEF Reduce
  <2>2. /\ op.slot \in Slots /\ mem.held[op.slot] > 0 /\ mem.held[op.slot] - Half > 0
        /\ mem'.held = [mem.held EXCEPT ![op.slot] = mem.held[op.slot] - Half]
    BY <1>11, ReduceStep
  <2>3. mem.held[op.slot] - Half \in 0..Lot
    BY <1>o, <2>2, Basics DEF Books
  <2>4. HeldSlots(mem') = HeldSlots(mem) \cup {op.slot}
    BY <1>o, <2>2, <2>3, HeldWritten
  <2> QED BY <2>1, <2>4 DEF FileInv, SamePnl, Closing
<1>12. CASE ResetDaily
  <2>1. UNCHANGED <<day, clock, disk, up, op>> /\ clock = "open"
    BY <1>12 DEF ResetDaily
  <2>2. HeldSlots(mem') = HeldSlots(mem)
    BY <1>12, ResetDailyStep, HeldFields
  <2>3. mem'.longPnl = 0 /\ mem'.shortPnl = 0
    <3> DEFINE l == IF mem.entryDate # day THEN 0 ELSE mem.longPnl
    <3>1. mem' = [mem EXCEPT !.halted = FALSE, !.entryDate = day, !.longPnl = l]
      BY <1>12 DEF ResetDaily
    <3>2. l = 0 /\ mem.shortPnl = 0
      BY <2>1 DEF FileInv
    <3> HIDE DEF l
    <3> QED BY <1>o, <3>1, <3>2 DEF Books
  <2> QED BY <2>1, <2>2, <2>3 DEF FileInv, Closing
<1>13. CASE Sweep \/ Dump \/ StartSave
  <2>1. UNCHANGED <<day, clock, mem, disk, up, op>>
    BY <1>13 DEF Sweep, Dump, StartSave
  <2> QED BY <2>1 DEF FileInv, Closing
<1>14. CASE Tick
  <2>1. UNCHANGED <<day, mem, disk, up, op>> /\ clock' # "open"
    BY <1>14, TickStep DEF Tick
  <2> QED BY <2>1 DEF FileInv, Closing
<1>15. CASE EndSave
  <2>1. UNCHANGED <<day, clock, mem, up, op>>
    BY <1>15 DEF EndSave
  <2>2. HeldSlots(disk') = HeldSlots(mem)
        /\ disk'.longPnl = mem.longPnl /\ disk'.shortPnl = mem.shortPnl
    BY <1>15, EndSaveStep, HeldFields, MoneyOfFile
  <2> QED BY <2>1, <2>2 DEF FileInv
<1>16. CASE Crash
  <2>1. UNCHANGED <<clock, disk>> /\ ~up' /\ mem' = FreshBook /\ op'.stage = "idle"
    BY <1>16, IdleFits DEF Crash
  <2> QED BY <2>1 DEF FileInv, FreshBook
<1>17. CASE Boot
  <2>1. UNCHANGED <<day, clock, disk>> /\ op = Idle /\ op' = Idle
    BY <1>17, BootStep DEF Boot
  <2>2. /\ mem'.longPnl \in {0, disk.longPnl} /\ mem'.shortPnl = disk.shortPnl
        /\ disk.entryDate = day => mem'.longPnl = disk.longPnl
    <3>1. mem'.longPnl \in {0, disk.longPnl}
      BY <1>17 DEF Boot, Loaded, TypeOK, Books
    <3> QED BY <1>17, <3>1, MoneyOfFile
  <2>3. HeldSlots(mem') = HeldSlots(disk)
    BY <1>17, BootStep, HeldFields
  <2> QED BY <2>1, <2>2, <2>3, IdleFits DEF FileInv
<1>18. CASE NewDay
  <2>1. /\ mem'.longPnl = 0 /\ mem'.shortPnl = 0 /\ disk'.longPnl = 0 /\ disk'.shortPnl = 0
    BY <1>18, MoneyOfDays
  <2>2. HeldSlots(mem') = HeldSlots(mem) /\ HeldSlots(disk') = HeldSlots(disk)
    BY <1>18, NewDayStep, HeldFields DEF KeepsBook
  <2>3. UNCHANGED <<up, op>> /\ op.stage = "idle"
    BY <1>18, IdleFits DEF NewDay, Shape
  <2> QED BY <2>1, <2>2, <2>3 DEF FileInv
<1>19. CASE UNCHANGED vars
  BY <1>19 DEF vars, FileInv, Closing
<1> QED BY <1>1, <1>2, <1>3, <1>4, <1>5, <1>6, <1>7, <1>8, <1>9, <1>10, <1>11, <1>12,
           <1>13, <1>14, <1>15, <1>16, <1>17, <1>18, <1>19 DEF Next

-----------------------------------------------------------------------------
(* A halt that is kept                                                     *)

\* A flat book has no open P&L, whatever the quotes.
LEMMA FlatToday ==
    ASSUME NEW b \in Books, HeldSlots(b) = {}, NEW price \in Int
    PROVE  TodayPnl(b, price) = b.longPnl + b.shortPnl
<1> DEFINE f == [x \in Slots |-> RealizedPnl(x[2], price, b.held[x])]
<1>1. ASSUME NEW x \in Slots PROVE f[x] = 0
  <2>1. b.held[x] \in 0..Lot /\ ~(b.held[x] > 0) /\ x[2] \in Sides
    BY HeldSlotsAre, SlotsFinite DEF Books
  <2>2. b.held[x] = 0
    BY <2>1, Basics
  <2>3. Sign(x[2]) * (price - EntryPrice) \in Int
    BY Basics DEF Sign
  <2>4. RealizedPnl(x[2], price, 0) = 0
    BY <2>3 DEF RealizedPnl
  <2> QED BY <2>2, <2>4
<1>2. f \in [Slots -> Int]
  BY <1>1
<1>3. b.longPnl \in Int /\ b.shortPnl \in Int
  BY DEF Books
<1>4. TodayPnl(b, price) = b.longPnl + b.shortPnl + Total(f)
  BY DEF TodayPnl
<1> HIDE DEF f
<1>5. Total(f) = 0
  BY <1>1, <1>2, TotalZero
<1> QED BY <1>3, <1>4, <1>5

\* Halted, or with nothing left to lose or to win: flat, and under the limit.
Kept(b) == b.halted \/ (HeldSlots(b) = {} /\ b.longPnl + b.shortPnl <= LossLimit)

\* A breach of today that every boot and every forced close since could keep.
Standing == hist.breach = day /\ ~hist.undated /\ "halt" \notin hist.cut

\* Of a standing breach memory knows, and so does a file of today's date,
\* unless the forced close is under way and will save or be cut.  A book kept
\* by its loss alone has no handler that writes to it.
KeptInv ==
    /\ hist.breach <= day /\ (clock = "open" => hist.breach # day)
    /\ Standing =>
         /\ up => /\ Kept(mem)
                  /\ \/ mem.halted
                     \/ op.stage \in {"idle", "save"} /\ op.todo = {} /\ op.why # "entry"
         /\ op.why = "halt" => mem.halted
         /\ op.why # "halt" /\ disk.entryDate = day => Kept(disk)

LEMMA KeptFields ==
    ASSUME NEW b, NEW c, b.held = c.held, b.halted = c.halted,
           b.longPnl = c.longPnl, b.shortPnl = c.shortPnl
    PROVE  Kept(b) <=> Kept(c)
<1>1. HeldSlots(b) = HeldSlots(c)
  BY HeldFields
<1> QED BY <1>1 DEF Kept

\* The history of a breach: which steps write it.
SameBreach == hist'.breach = hist.breach /\ hist'.undated = hist.undated /\ hist'.cut = hist.cut

\* The step of a handler that works on a halted book: it stays halted.
LEMMA HaltedStays ==
    ASSUME KeptInv, Standing => mem.halted, mem'.halted = mem.halted, SameBreach,
           UNCHANGED <<day, clock, disk>>, op'.why = "halt" \/ op.why # "halt"
    PROVE  KeptInv'
BY DEF KeptInv, Standing, Kept, SameBreach

LEMMA OpenNeedsNoBreach ==
    ASSUME TypeOK, Shape, KeptInv, NEW x \in Slots, Open(x)
    PROVE  ~Standing
<1>1. PICK price \in Prices : TodayPnl(mem, price) > LossLimit
  BY DEF Open
<1>2. up /\ ~mem.halted /\ price \in Int /\ mem \in Books /\ LossLimit \in Int
  BY Basics, MainConstants DEF Open, Scanning, Ready, TypeOK
<1>3. SUFFICES ASSUME Standing PROVE FALSE
  OBVIOUS
<1>4. HeldSlots(mem) = {} /\ mem.longPnl + mem.shortPnl <= LossLimit
  BY <1>2, <1>3 DEF KeptInv, Kept
<1>5. TodayPnl(mem, price) = mem.longPnl + mem.shortPnl
  BY <1>2, <1>4, FlatToday
<1>6. mem.longPnl + mem.shortPnl \in Int
  BY <1>2 DEF Books
<1> QED BY <1>1, <1>2, <1>4, <1>5, <1>6

LEMMA KeptStepInv ==
    ASSUME TypeOK, Shape, FileInv, KeptInv, [Next]_vars
    PROVE  KeptInv'
<1>d. day \in Int /\ hist.breach \in Int
  BY Basics DEF TypeOK
<1>1. ASSUME NEW x \in Slots, Open(x) PROVE KeptInv'
  <2>1. SameBreach /\ UNCHANGED <<day, clock>>
    BY <1>1 DEF Open, SameBreach, TypeOK
  <2> QED BY <1>1, <2>1, OpenNeedsNoBreach DEF KeptInv, Standing, SameBreach
<1>2. ASSUME NEW x \in Slots, NEW price \in Prices, Exit(x, price) \/ Partial(x, price)
      PROVE  KeptInv'
  <2>1. UNCHANGED <<day, clock, disk, hist>> /\ Ready /\ mem.held[x] > 0
    BY <1>2, Basics DEF Exit, Partial, Scanning, TypeOK, Books
  <2>2. mem'.halted = mem.halted
    BY <1>2, ExitStep, PartialStep DEF KeepsBook
  <2>3. Standing => mem.halted
    BY <2>1, HeldSlotsAre DEF KeptInv, Kept, Ready
  <2>4. op.why = "none"
    BY <2>1, ReadyIdle
  <2> QED BY <2>1, <2>2, <2>3, <2>4, HaltedStays DEF SameBreach
<1>3. ASSUME NEW price \in Prices, Breach(price) PROVE KeptInv'
  <2>1. /\ UNCHANGED <<day, clock, disk, up>> /\ Ready /\ clock # "open"
        /\ TodayPnl(mem, price) <= LossLimit
    BY <1>3 DEF Breach, Scanning
  <2>2. hist'.breach = day /\ hist'.cut = hist.cut
    BY <1>3 DEF Breach, TypeOK
  <2>3. mem'.halted /\ (op'.why # "halt" => HeldSlots(mem) = {})
    BY <1>3, BreachStep
  <2>4. ASSUME op'.why # "halt", disk.entryDate = day PROVE Kept(disk)
    <3>1. op.stage = "idle" /\ up /\ price \in Int /\ mem \in Books
      BY <2>1, ReadyIdle, Basics DEF TypeOK
    <3>2. HeldSlots(disk) = {} /\ disk.longPnl = mem.longPnl /\ disk.shortPnl = mem.shortPnl
      BY <2>3, <2>4, <3>1 DEF FileInv, Closing
    <3>3. TodayPnl(mem, price) = mem.longPnl + mem.shortPnl
      BY <2>3, <2>4, <3>1, FlatToday
    <3> QED BY <2>1, <3>2, <3>3 DEF Kept
  <2> QED BY <1>d, <2>1, <2>2, <2>3, <2>4 DEF KeptInv, Kept, Standing
<1>4. ASSUME NEW price \in Prices, Eod(price) PROVE KeptInv'
  <2>1. UNCHANGED <<day, clock, disk, mem, up, hist>> /\ Ready
    BY <1>4 DEF Eod
  <2>2. op'.why = "eod" /\ op'.todo = HeldSlots(mem)
        /\ op'.stage = IF HeldSlots(mem) = {} THEN "save" ELSE "next"
    BY <1>4, EodStep DEF Eod, Idle
  <2>3. op.why = "none"
    BY <2>1, ReadyIdle
  <2> QED BY <2>1, <2>2, <2>3 DEF KeptInv, Kept, Standing
<1>5. CASE Debit \/ Credit
  <2>1. UNCHANGED <<day, clock, disk, hist>> /\ op.stage \in {"debit", "credit"} /\ up
    BY <1>5 DEF Debit, Credit, Shape, Idle
  <2>2. mem'.halted = mem.halted /\ op'.why = op.why
    BY <1>5, DebitStep, CreditStep DEF KeepsBook, Onward
  <2>3. Standing => mem.halted
    BY <2>1 DEF KeptInv
  <2> QED BY <2>1, <2>2, <2>3, HaltedStays DEF SameBreach
<1>6. CASE SaveEntry \/ SaveClose
  <2>1. UNCHANGED <<day, clock, mem, up, hist>> /\ up /\ disk' = mem
    BY <1>6 DEF SaveEntry, SaveClose, Shape, Idle
  <2>2. SaveEntry => op.why = "entry" /\ op'.why = "entry"
    BY SaveEntryStep DEF SaveEntry, Onward
  <2>3. SaveClose => /\ op.todo = {} => op' = Idle
                     /\ op.todo # {} => op'.why = op.why
    BY SaveCloseStep DEF Onward
  <2>4. Kept(disk') <=> Kept(mem)
    BY <2>1, KeptFields
  <2>5. Kept(mem') <=> Kept(mem)
    BY <2>1, KeptFields
  <2>6. Standing => Kept(mem) /\ (mem.halted \/ (op.todo = {} /\ op.why # "entry"))
    BY <2>1 DEF KeptInv
  <2>7. ASSUME Standing PROVE mem.halted \/ op' = Idle
    BY <1>6, <2>2, <2>3, <2>6, <2>7
  <2>8. Idle.why = "none" /\ Idle.stage = "idle" /\ Idle.todo = {}
    BY IdleFits
  <2>9. op'.why = "halt" => op.why = "halt"
    BY <1>6, <2>2, <2>3, <2>8
  <2> QED BY <2>1, <2>4, <2>5, <2>6, <2>7, <2>8, <2>9 DEF KeptInv, Standing
<1>7. CASE PersistEntry
  <2>1. UNCHANGED <<day, clock, mem, disk, hist>> /\ op.why = "entry" /\ up /\ op' = Idle
    BY <1>7 DEF PersistEntry, Shape, Idle
  <2>2. Standing => mem.halted
    BY <2>1 DEF KeptInv
  <2> QED BY <2>1, <2>2, HaltedStays DEF SameBreach
<1>8. CASE CloseNext
  <2>1. UNCHANGED <<day, clock, disk, hist>> /\ op.stage = "next" /\ up
    BY <1>8 DEF CloseNext, Shape, Idle
  <2>2. mem'.halted = mem.halted /\ op'.why = op.why
    BY <1>8, CloseNextStep
  <2>3. Standing => mem.halted
    BY <2>1 DEF KeptInv
  <2> QED BY <2>1, <2>2, <2>3, HaltedStays DEF SameBreach
<1>9. CASE Reduce
  <2>1. UNCHANGED <<day, clock, disk, hist>> /\ op.stage = "reduce" /\ op.why = "partial" /\ up
    BY <1>9 DEF Reduce, Shape, Idle
  <2>2. mem'.halted = mem.halted
    BY <1>9, ReduceStep
  <2>3. Standing => mem.halted
    BY <2>1 DEF KeptInv
  <2> QED BY <2>1, <2>2, <2>3, HaltedStays DEF SameBreach
<1>10. CASE ResetDaily
  <2>1. UNCHANGED <<day, clock, hist>> /\ clock = "open"
    BY <1>10 DEF ResetDaily
  <2> QED BY <2>1 DEF KeptInv, Standing
<1>11. CASE Sweep \/ Dump \/ StartSave
  <2>1. UNCHANGED <<day, clock, mem, disk, up, op>> /\ SameBreach
    BY <1>11 DEF Sweep, Dump, StartSave, SameBreach, TypeOK
  <2> QED BY <2>1 DEF KeptInv, Standing, Kept, SameBreach
<1>12. CASE Tick
  <2>1. UNCHANGED <<day, mem, disk, up, op, hist>> /\ clock' # "open"
    BY <1>12, TickStep DEF Tick
  <2> QED BY <2>1 DEF KeptInv, Standing, Kept
<1>13. CASE EndSave
  <2>1. UNCHANGED <<day, clock, mem, up, op, hist>> /\ up
    BY <1>13 DEF EndSave
  <2>2. Kept(disk') <=> Kept(mem)
    BY <1>13, EndSaveStep, MoneyOfFile, KeptFields
  <2> QED BY <2>1, <2>2 DEF KeptInv, Standing, Kept
<1>14. CASE Crash
  <2>1. UNCHANGED <<day, clock, disk>> /\ ~up' /\ op' = Idle /\ Idle.why = "none"
    BY <1>14, IdleFits DEF Crash
  <2>2. hist'.breach = hist.breach /\ hist'.undated = hist.undated
    BY <1>14 DEF Crash, TypeOK
  <2>3. hist.cut \subseteq hist'.cut /\ (op.why = "halt" => "halt" \in hist'.cut)
    BY <1>14, CrashStep
  <2> QED BY <2>1, <2>2, <2>3 DEF KeptInv, Standing, Kept
<1>15. CASE Boot
  <2>1. UNCHANGED <<day, clock, disk>> /\ op = Idle /\ op' = Idle
    BY <1>15, BootStep DEF Boot
  <2>2. /\ hist'.cut = hist.cut /\ hist'.breach = hist.breach
        /\ hist'.undated = (hist.undated \/ disk.entryDate # day)
    BY <1>15, BootStep
  <2>3. Standing' => Standing /\ disk.entryDate = day
    BY <2>1, <2>2 DEF Standing
  <2>4. disk.entryDate = day => (Kept(mem') <=> Kept(disk))
    BY <1>15, BootStep, MoneyOfFile, KeptFields
  <2>5. Standing' => Kept(mem') /\ Kept(disk)
    BY <2>1, <2>3, <2>4, IdleFits DEF KeptInv
  <2>6. Kept(disk') <=> Kept(disk)
    BY <2>1, KeptFields
  <2> QED BY <2>1, <2>2, <2>5, <2>6, IdleFits DEF KeptInv
<1>16. CASE NewDay
  <2>1. day' = day + 1 /\ hist'.breach = hist.breach
    BY <1>16 DEF NewDay, TypeOK
  <2> QED BY <1>d, <2>1 DEF KeptInv, Standing
<1>17. CASE UNCHANGED vars
  BY <1>17 DEF vars, KeptInv, Standing, Kept
<1> QED BY <1>1, <1>2, <1>3, <1>4, <1>5, <1>6, <1>7, <1>8, <1>9, <1>10, <1>11, <1>12,
           <1>13, <1>14, <1>15, <1>16, <1>17 DEF Next

\* Only an entry adds to a position while the process runs.
LEMMA OnlyOpenAdds ==
    ASSUME TypeOK, Shape, [Next]_vars, up, NEW y \in Slots, mem'.held[y] > mem.held[y]
    PROVE  \E x \in Slots : Open(x)
<1>d. /\ mem.held \in [Slots -> 0..Lot] /\ \A z \in Slots : mem.held[z] \in 0..Lot /\ mem.held[z] >= 0
      /\ Half \in Nat /\ \A z \in Slots : mem.held[z] \in Int
      /\ ~(mem.held[y] > mem.held[y])
  BY Basics DEF TypeOK, Books
<1>1. ASSUME NEW z \in Slots, NEW n \in Int, n <= mem.held[z], mem'.held = [mem.held EXCEPT ![z] = n]
      PROVE  FALSE
  <2>1. mem'.held[y] = IF y = z THEN n ELSE mem.held[y]
    BY <1>d, <1>1
  <2> QED BY <1>d, <1>1, <2>1
<1>2. mem'.held # mem.held
  BY <1>d
<1>3. ASSUME NEW x \in Slots, NEW price \in Prices, Exit(x, price) PROVE FALSE
  <2>1. mem'.held = [mem.held EXCEPT ![x] = 0]
    BY <1>3, ExitStep
  <2>2. 0 <= mem.held[x]
    BY <1>d
  <2> QED BY <1>1, <2>1, <2>2
<1>4. ~(\E x \in Slots, price \in Prices : Partial(x, price))
  BY <1>2, PartialStep DEF KeepsBook
<1>5. ~(\E price \in Prices : Breach(price) \/ Eod(price))
  BY <1>2, BreachStep DEF Eod
<1>6. ~(Debit \/ Credit)
  BY <1>2, DebitStep, CreditStep DEF KeepsBook
<1>7. ~(SaveEntry \/ PersistEntry \/ SaveClose \/ Sweep \/ Dump \/ StartSave \/ EndSave \/ Tick)
  BY <1>2 DEF SaveEntry, PersistEntry, SaveClose, Sweep, Dump, StartSave, EndSave, Tick
<1>8. ASSUME CloseNext PROVE FALSE
  <2>1. op'.slot \in Slots /\ mem'.held = [mem.held EXCEPT ![op'.slot] = 0]
    BY <1>8, CloseNextStep, OpFields DEF TypeOK
  <2> QED BY <1>1, <1>d, <2>1
<1>9. ASSUME Reduce PROVE FALSE
  <2>1. op.slot \in Slots /\ mem'.held = [mem.held EXCEPT ![op.slot] = mem.held[op.slot] - Half]
    BY <1>9, ReduceStep
  <2>2. mem.held[op.slot] - Half \in Int /\ mem.held[op.slot] - Half <= mem.held[op.slot]
    BY <1>d, <2>1
  <2> QED BY <1>1, <2>1, <2>2
<1>10. ~(ResetDaily \/ NewDay)
  BY <1>2, ResetDailyStep, NewDayStep DEF KeepsBook
<1>11. ASSUME Crash PROVE FALSE
  <2>1. mem'.held[y] = 0
    BY <1>11 DEF Crash, FreshBook
  <2> QED BY <1>d, <2>1
<1>12. ~Boot /\ ~(UNCHANGED vars)
  BY <1>2 DEF Boot, vars
<1> QED BY <1>3, <1>4, <1>5, <1>6, <1>7, <1>8, <1>9, <1>10, <1>11, <1>12 DEF Next

-----------------------------------------------------------------------------
(* The invariant and the theorems                                          *)

Inv ==
    TypeOK /\ Shape /\ EodInv /\ HaltInv /\ GapInv /\ BalanceInv /\ FileInv /\ KeptInv

LEMMA InitAll == Init => Inv
<1> SUFFICES ASSUME Init PROVE Inv
  OBVIOUS
<1>1. HeldSlots(mem) = {} /\ HeldSlots(disk) = {} /\ mem.lost = 0 /\ disk.lost = 0
      /\ mem.entryDate = 0 /\ disk.entryDate = 0 /\ ~mem.halted /\ ~disk.halted
  BY HeldFresh DEF Init, FreshBook
<1>2. fired = {} /\ day = 1
  BY DEF Init
<1>3. EodInv
  BY <1>2 DEF EodInv
<1>4. HaltInv
  BY <1>1, <1>2 DEF HaltInv
<1>5. GapInv
  BY <1>1 DEF GapInv, OnePerTicker
<1>6. BalanceInv
  <2>1. op.stage = "idle" /\ ~saver.busy /\ mem = FreshBook /\ disk = FreshBook
    BY IdleFits DEF Init, NoSave
  <2>2. Balance(FreshBook) = StartCash
    BY CostFresh, MainConstants DEF Balance, FreshBook
  <2>3. Owed(op) = 0
    BY <2>1, OwedIdle DEF Unsettled
  <2> QED BY <2>1, <2>2, <2>3, MainConstants DEF BalanceInv
<1>7. FileInv
  <2>1. op.stage = "idle"
    BY IdleFits DEF Init
  <2> QED BY <1>1, <2>1 DEF FileInv, Init, FreshBook
<1>8. KeptInv
  BY <1>2 DEF KeptInv, Standing, Init
<1> QED BY <1>3, <1>4, <1>5, <1>6, <1>7, <1>8, InitInv DEF Inv

LEMMA TypeStep ==
    ASSUME TypeOK, Shape, [Next]_vars
    PROVE  TypeOK' /\ Shape'
<1>1. CASE \E x \in Slots : Open(x) \/ (\E price \in Prices : Exit(x, price) \/ Partial(x, price))
  BY <1>1, OpenStep, ExitStep, PartialStep
<1>2. CASE \E price \in Prices : Breach(price) \/ Eod(price)
  BY <1>2, BreachStep, EodStep
<1>3. CASE Debit \/ SaveEntry \/ PersistEntry \/ CloseNext \/ Credit \/ SaveClose \/ Reduce
  BY <1>3, DebitStep, SaveEntryStep, PersistEntryStep, CloseNextStep, CreditStep,
     SaveCloseStep, ReduceStep
<1>4. CASE ResetDaily \/ Sweep \/ Dump \/ StartSave \/ EndSave
  BY <1>4, ResetDailyStep, RowSteps, EndSaveStep
<1>5. CASE Crash \/ Boot \/ Tick \/ NewDay
  BY <1>5, CrashStep, BootStep, TickStep, NewDayStep
<1>6. CASE UNCHANGED vars
  BY <1>6 DEF vars, TypeOK, Shape
<1> QED BY <1>1, <1>2, <1>3, <1>4, <1>5, <1>6 DEF Next

LEMMA AlwaysInv == Spec => []Inv
<1>1. Inv /\ [Next]_vars => Inv'
  BY TypeStep, EodStepInv, HaltStepInv, GapStepInv, BalanceStepInv, FileStepInv, KeptStepInv
     DEF Inv
<1> QED BY <1>1, InitAll, PTL DEF Spec

\* Book, file, rows, handler and history keep their types.
THEOREM TypeCorrect == Spec => []TypeOK
<1>1. Inv => TypeOK
  BY DEF Inv
<1> QED BY <1>1, AlwaysInv, PTL

\* A halted book is flat once its forced close is through.
THEOREM HaltsAreFlat == Spec => []HaltedIsFlat
<1>1. Inv => HaltedIsFlat
  BY ReadyIdle DEF Inv, HaltInv, HaltedIsFlat
<1> QED BY <1>1, AlwaysInv, PTL

\* After eod_close the book is flat to the end of the day, over restarts.
THEOREM EodsAreFlat == Spec => []FlatAfterEod
<1>1. Inv => FlatAfterEod
  BY ReadyIdle DEF Inv, EodInv, FlatAfterEod
<1> QED BY <1>1, AlwaysInv, PTL

\* Nothing is overwritten without a gap in the records.
THEOREM OverwritesNeedGap == Spec => []OverwriteNeedsGap
<1>1. Inv => OverwriteNeedsGap
  BY DEF Inv, GapInv, OverwriteNeedsGap
<1> QED BY <1>1, AlwaysInv, PTL

\* Between two handlers cash, positions and realized P&L balance, over
\* partial closes, forced closes, overwritten positions, saves and restarts.
THEOREM BooksBalance == Spec => []BookBalances
<1>1. Inv => BookBalances
  <2> SUFFICES ASSUME Inv, op.stage = "idle", mem.clean
               PROVE  mem.cash + SignedCost(mem) + mem.lost = StartCash + mem.realized
    BY DEF BookBalances
  <2>1. Balance(mem) = StartCash + 0
    BY OwedIdle DEF Inv, BalanceInv, Unsettled
  <2>2. /\ mem.cash \in Int /\ SignedCost(mem) \in Int /\ mem.lost \in Int
        /\ mem.realized \in Int /\ StartCash \in Int
    BY CostFields, MainConstants DEF Inv, TypeOK, Books
  <2> QED BY <2>1, <2>2 DEF Balance
<1> QED BY <1>1, AlwaysInv, PTL

\* After a breach nothing is opened that day, unless a crash cut the forced
\* close short or a boot read a file of another date.
THEOREM HaltsHold == Spec => HaltHolds
<1> DEFINE Holding ==
        \A x \in Slots : mem'.held[x] > mem.held[x] /\ up /\ hist.breach = day
            => hist.undated \/ "halt" \in hist.cut
<1>1. Inv /\ [Next]_vars => [Holding]_vars
  <2> SUFFICES ASSUME Inv, [Next]_vars, NEW y \in Slots, mem'.held[y] > mem.held[y], up,
                      hist.breach = day
               PROVE  hist.undated \/ "halt" \in hist.cut
    OBVIOUS
  <2>1. PICK x \in Slots : Open(x)
    BY OnlyOpenAdds DEF Inv
  <2> QED BY <2>1, OpenNeedsNoBreach DEF Inv, Standing
<1>2. Spec => [][Holding]_vars
  BY <1>1, AlwaysInv, PTL DEF Spec
<1> QED BY <1>2 DEF HaltHolds
=============================================================================
