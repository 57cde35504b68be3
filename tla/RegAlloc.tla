------------------------------ MODULE RegAlloc ------------------------------
(***************************************************************************)
(* Linear scan register allocation (analyses/reg_alloc.h, SplitAt of       *)
(* live_intervals.h).  Instructions are visited in the linear order; the   *)
(* values that hold a register are active; when no register is free, the   *)
(* active value with the furthest use moves to a slot, for good until an   *)
(* instruction needs it.  At the end each input of a phi is moved to the   *)
(* phi's register on the last number of the block it comes from.           *)
(*                                                                         *)
(* ra.iv are the intervals of a value, sequences of ranges [b, e, loc];    *)
(* locations_ is kept in loc.  UNDEF is a range that has no location.      *)
(***************************************************************************)
EXTENDS Liveness

CONSTANTS REGS_COUNT, SLOTS_COUNT

ASSUME RegsAssumption == REGS_COUNT \in Nat \ {0} /\ SLOTS_COUNT \in Nat

UNDEF   == <<"UNDEF", 0>>
REG(n)  == <<"REG", n>>
SLOT(n) == <<"SLOT", n>>

Startpoint(ra, v) == ra.iv[v][1].b
Endpoint(ra, v)   == Last(ra.iv[v]).e
CurrentLocation(ra, v) == Last(ra.iv[v]).loc
FirstLocation(ra, v)   == ra.iv[v][1].loc

\* Set: the ranges of v from number n to number m get a location.
SetLoc(ra, v, n, m, loc) ==
  FoldLeft(LAMBDA acc, k : [acc EXCEPT !.iv[v][k].loc = loc], ra,
           [k \in 1 .. m - n + 1 |-> n + k - 1])
SetFrom(ra, v, n, loc) == SetLoc(ra, v, n, Len(ra.iv[v]), loc)

\* FindRangeCoveringOrAfter: a point behind the last range gets a range.
FindRange(ra, v, point) ==
  IF point >= Endpoint(ra, v)
  THEN [ra |-> [ra EXCEPT !.iv[v] = Append(@, [b |-> point, e |-> point + 2, loc |-> UNDEF])],
        n |-> Len(ra.iv[v]) + 1]
  ELSE [ra |-> ra, n |-> CHOOSE n \in DOMAIN ra.iv[v] :
          point < ra.iv[v][n].e /\ \A m \in 1 .. n - 1 : point >= ra.iv[v][m].e]

\* SplitAt: n is the number of the range that begins at the point.
SplitRange(found, v, point) ==
  LET n == found.n
      r == found.ra.iv[v][n]
      parts == <<[r EXCEPT !.e = point], [r EXCEPT !.b = point, !.loc = UNDEF]>>
  IN  IF r.b < point
      THEN [ra |-> [found.ra EXCEPT !.iv[v] =
                      SubSeq(@, 1, n - 1) \o parts \o SubSeq(@, n + 1, Len(@))],
            n |-> n + 1]
      ELSE [ra |-> [found.ra EXCEPT !.iv[v][n].b = point], n |-> n]
SplitAt(ra, v, point) ==
  IF Startpoint(ra, v) > point
  THEN [ra |-> Crash(ra, "FindRangeCoveringOrAfter"), n |-> 1]
  ELSE SplitRange(FindRange(ra, v, point), v, point)

\* What comes after a split, unless it failed.
ThenWith(split, Step(_, _)) ==
  IF split.ra.failed # OK THEN split.ra ELSE Step(split.ra, split.n)

----------------------------------------------------------------------------
(* Active values *)

\* InsertActive: behind the last one that ends no later.
InsertActive(ra, v) ==
  LET before == {n \in DOMAIN ra.active : Endpoint(ra, ra.active[n]) <= Endpoint(ra, v)}
      at == IF before = {} THEN 0 ELSE CHOOSE n \in before : \A m \in before : m <= n
  IN  [ra EXCEPT !.active = InsertAt(@, at + 1, v)]

\* Mutant of Expired: a value is given up two numbers before its end.
ExpiredEarly(ra, v, point) == Endpoint(ra, v) <= point + 2

\* Mutant of Expired: a value that ends here keeps its register.
ExpiredLate(ra, v, point) == Endpoint(ra, v) < point

Expired(ra, v, point) == Endpoint(ra, v) <= point

\* ExpireOldIntervals and Recycle.
RECURSIVE ExpireOldIntervals(_, _)
ExpireOldIntervals(ra, point) ==
  LET v == Head(ra.active)
  IN  IF ra.active = <<>> THEN ra
      ELSE IF ~Expired(ra, v, point) THEN ra
      ELSE ExpireOldIntervals([ra EXCEPT !.active = Tail(@),
                                         !.busy = @ \ {CurrentLocation(ra, v)}], point)

\* AllocateFreeReg: the first register that is not busy.
FreeReg(ra) == REG(CHOOSE n \in 0 .. REGS_COUNT - 1 :
                     REG(n) \notin ra.busy /\ \A m \in 0 .. n - 1 : REG(m) \in ra.busy)

\* The uses of a value behind a point; a use at the point is no longer one.
UsesAfter(ra, v, point) == {p \in ra.use[v] : p > point}

\* GetUnusedIntervalToSpill: the last active value that has no use ahead, or
\* whose next use is not before any other looked at so far.
Unused(ra, point) ==
  LET next(v) == CHOOSE p \in UsesAfter(ra, v, point) :
                   \A q \in UsesAfter(ra, v, point) : p <= q
      look(acc, v) ==
        IF UsesAfter(ra, v, point) = {} THEN [acc EXCEPT !.v = v]
        ELSE IF next(v) >= acc.furthest THEN [v |-> v, furthest |-> next(v)]
        ELSE acc
  IN  FoldLeft(look, [v |-> Head(ra.active), furthest |-> 0], ra.active).v

\* SpillUnusedAndActivate: slots are never reused, and not counted against
\* the array that notes them.
Spill(ra, v, used, point) ==
  LET reg  == CurrentLocation(ra, v)
      trim == [ra EXCEPT !.use = [w \in DOMAIN ra.use |->
                 IF w \in ToSet(ra.active) THEN UsesAfter(ra, w, point) ELSE ra.use[w]]]
      activate(in, n, m) ==
        IF ra.slots >= SLOTS_COUNT THEN Crash(ra, "busy_slots_")
        ELSE InsertActive([SetFrom(SetFrom(in, used, m, reg), v, n, SLOT(ra.slots))
                             EXCEPT !.slots = @ + 1, !.active = Remove(@, v)], used)
  IN  ThenWith(SplitAt(trim, v, point - 1), LAMBDA out, n :
        ThenWith(SplitAt(out, used, point), LAMBDA in, m : activate(in, n, m)))
SpillUnusedAndActivate(ra, used, point) == Spill(ra, Unused(ra, point), used, point)

\* FillInputs: an input that is in a slot is brought back into a register.
FillInput(ra, v, ln) ==
  LET reg == FreeReg(ra)
      load(split, n) ==
        InsertActive([SetFrom(split, v, n, reg) EXCEPT !.busy = @ \cup {reg}], v)
  IN  IF v \notin DOMAIN ra.iv THEN Crash(ra, "at")
      ELSE IF CurrentLocation(ra, v)[1] = "REG" THEN ra
      ELSE IF CurrentLocation(ra, v) = UNDEF THEN Crash(ra, "at")
      ELSE IF Len(ra.active) = REGS_COUNT THEN SpillUnusedAndActivate(ra, v, ln)
      ELSE ThenWith(SplitAt(ra, v, ln - 1), load)

\* IsActive asserts that a value is active exactly when it is in a register,
\* or has just expired.
IsActiveAsserts(ra, v, ln) ==
  LET isReg == CurrentLocation(ra, v)[1] = "REG"
      found == v \in ToSet(ra.active)
  IN  found = isReg \/ (isReg /\ ~found /\ Endpoint(ra, v) = ln)

FillInputs(ra, i, ln) ==
  LET fill(acc, v) ==
        IF v \in DOMAIN acc.iv /\ ~IsActiveAsserts(acc, v, ln)
        THEN Crash(acc, "IsActive")
        ELSE FillInput(acc, v, ln)
  IN  IF IsPhi(ir, i) THEN ra ELSE FoldLeft(LAMBDA acc, v : Then(acc, LAMBDA r : fill(r, v)), ra, ir.inst[i].inputs)

\* One turn of RegAlloc::AllocateRegisters.
AllocateInst(ra, i, ln) ==
  LET define(filled) ==
        IF ~HasDst(ir, i) THEN filled
        ELSE IF i \notin DOMAIN filled.iv THEN Crash(filled, "contains")
        ELSE IF Len(filled.active) = REGS_COUNT
        THEN SpillUnusedAndActivate(filled, i, Startpoint(filled, i))
        ELSE InsertActive([SetFrom(filled, i, 1, FreeReg(filled))
                             EXCEPT !.busy = @ \cup {FreeReg(filled)}], i)
  IN  Then(FillInputs(ExpireOldIntervals(ra, ln), i, ln), define)

\* RegAlloc::AllocateRegisters: the phis of a block, then its instructions.
AllInsts(order) ==
  FlattenSeq([n \in 1 .. Len(order) - 1 |->
                ir.phis[order[n].block] \o ir.insts[order[n].block]])

LinearScan(lv, order) ==
  LET lns   == LifeNumbers(order)
      range(acc, r) == Append(acc, [b |-> r[1], e |-> r[2], loc |-> UNDEF])
      start == [iv |-> [v \in DOMAIN lv.iv |-> FoldLeft(range, <<>>, lv.iv[v])],
                use |-> lv.use, active |-> <<>>, busy |-> {}, slots |-> 0, failed |-> OK]
  IN  FoldLeft(LAMBDA acc, i : Then(acc, LAMBDA ra : AllocateInst(ra, i, lns[i])),
               start, AllInsts(order))

----------------------------------------------------------------------------
(* Phis *)

\* Mutant of ProcessPhiInput: a value that lives on stays where it is moved.
MoveForGood(ra, v, point, loc) ==
  LET move == SplitAt(ra, v, point - 1)
  IN  SetFrom(move.ra, v, move.n, loc)

\* ProcessPhiInput: the input is in the phi's register on the number before
\* point, the end of the block it comes from; a value that lives on returns.
ProcessPhiInput(ra, v, point, loc) ==
  LET return(back, n, m) ==
        LET kept == back.iv[v][n - 1].loc
        IN  IF kept = UNDEF THEN Crash(ra, "at")
            ELSE SetLoc(SetLoc(back, v, n, m - 1, loc), v, m, m, kept)
      move(split, n) ==
        IF split.iv[v][n].e = point THEN SetLoc(split, v, n, n, loc)
        ELSE ThenWith(SplitAt(split, v, point), LAMBDA back, m : return(back, n, m))
  IN  IF loc[1] # "REG" THEN Crash(ra, "phi") ELSE ThenWith(SplitAt(ra, v, point - 1), move)

\* Mutant of BlockEnd: the number at which the block begins.
BlockStart(order, bb) == order[CHOOSE n \in DOMAIN order : order[n].block = bb].ln + 2

\* GetBlockEndLN of the block an input comes from.
BlockEnd(order, bb) == order[1 + CHOOSE n \in DOMAIN order : order[n].block = bb].ln

\* MergePhis: each input of each phi, in the linear order.
MergePhis(ra, order) ==
  LET input(acc, m) ==
        Then(acc, LAMBDA r : ProcessPhiInput(r, m.v, m.point, FirstLocation(r, m.phi)))
      moves(phi) == [k \in DOMAIN ir.inst[phi].inputs |->
                       [phi |-> phi, v |-> ir.inst[phi].inputs[k],
                        point |-> BlockEnd(order, preds[ir.inst[phi].bb][k])]]
      phis == SelectSeq(AllInsts(order), LAMBDA i : IsPhi(ir, i))
  IN  FoldLeft(input, ra, FlattenSeq([n \in DOMAIN phis |-> moves(phis[n])]))

\* The constructor of RegAlloc.
RegAllocOf(lv, order) ==
  Then(LinearScan(lv, order), LAMBDA ra : MergePhis(ra, order))
=============================================================================
