---------------------------- MODULE MCCoreMemory ----------------------------
(* Bytes 1 and 2 lie in block x and byte 3 in block y.                     *)
EXTENDS CoreMemory

MCBlockOf == <<"x", "x", "y">>

Insn(op, a) == [op |-> op, access |-> <<a, a>>, base |-> 0, from |-> 0, slot |-> FALSE]
Ld(a) == Insn("Load", a)
St(a) == Insn("Store", a)
Membar == Insn("MEMBAR", {})
(* The address, or the value, depends on instruction d.                    *)
At(i, d, a) == [i EXCEPT !.base = d, !.access[2] = a]
From(i, d) == [i EXCEPT !.from = d]
InSlot(i) == [i EXCEPT !.slot = TRUE]

MCPrograms ==
  { << St({1, 2}), Ld({1}), Ld({2}) >>,
    << St({1}), InSlot(St({1})), Ld({1}) >>,
    << Membar, Ld({3}), At(St({1}), 2, {2}), Ld({1}) >>,
    << Membar, Ld({1}), From(St({3}), 2), Ld({3}) >>,
    << Ld({3}), Ld({1}), At(Ld({1}), 2, {3}) >>,
    << St({1}), Ld({1, 2}) >>,
    << St({3}), Membar, Ld({1}) >>,
    << Insn("RMW", {1}), Ld({1}) >>,
    << Insn("CAS", {1}), Ld({1}) >>,
    << St({1}), St({3}), St({2}) >>,
    << Ld({1, 2}), Ld({1}), Ld({1, 2}) >> }

(* The program of the run that is about one case.                          *)
MCOrderPrograms == { << St({1}), Ld({1, 2}), Ld({3}) >> }
=============================================================================
