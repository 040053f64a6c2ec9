-------------------------------- MODULE Jvm --------------------------------
(***************************************************************************)
(* The Java Virtual Machine a class file is written for, as far as the     *)
(* compiled code exercises it: the type-checking verifier of JVMS 4.10.1   *)
(* over one method and its stack-map frames, and the execution of its      *)
(* instructions.                                                           *)
(*                                                                         *)
(* A method is [code, frames, entry, maxStack, maxLocals]: code maps the   *)
(* pc of every instruction to [op, arg, next], frames maps an offset to    *)
(* [locals, stack], entry is the locals' types at the first instruction.   *)
(***************************************************************************)
EXTENDS Integers, Sequences, SequencesExt, FiniteSetsExt

LOCAL ZeroTests == {"ifeq", "ifne"}
LOCAL CompareTests == {"if_icmpeq", "if_icmpne"}

(* A frame lists a long once; the machine has a type per slot. *)
Slots(types, maxLocals) ==
  LET pair(ty) == IF ty = "Long" THEN <<"Long", "LongHigh">> ELSE <<ty>>
      append(out, ty) == out \o pair(ty)
      slots == FoldLeft(append, <<>>, types)
  IN [s \in 1..maxLocals |-> IF s <= Len(slots) THEN slots[s] ELSE "Top"]

TypeWords(types) ==
  LET add(n, ty) == n + (IF ty = "Long" THEN 2 ELSE 1) IN FoldLeft(add, 0, types)

TypeFits(have, want) == want = "Top" \/ have = want

FrameFits(state, frame, maxLocals) ==
  LET want == Slots(frame.locals, maxLocals)
  IN /\ TypeWords(frame.locals) <= maxLocals
     /\ \A s \in 1..maxLocals : TypeFits(state.locals[s], want[s])
     /\ state.stack = frame.stack

-----------------------------------------------------------------------------
(* One instruction on types: [ok, state].  The argument of println is a    *)
(* boolean or a string; both count as an Integer here.                     *)

Popped(i) ==
  CASE i.op = "istore" -> <<"Integer">>
    [] i.op = "lstore" -> <<"Long">>
    [] i.op \in ZeroTests -> <<"Integer">>
    [] i.op \in CompareTests \cup {"iand", "ior", "ixor"} -> <<"Integer", "Integer">>
    [] i.op = "invokevirtual" -> <<"Object", "Integer">>
    [] OTHER -> <<>>

Pushed(i) ==
  CASE i.op \in {"iconst_0", "iconst_1", "iload", "ldc", "iand", "ior", "ixor"} -> <<"Integer">>
    [] i.op = "lconst_0" -> <<"Long">>
    [] i.op = "getstatic" -> <<"Object">>
    [] OTHER -> <<>>

(* Storing half of a long destroys the other half. *)
StoreType(locals, slot, types) ==
  LET n == Len(types)
      broken(s) == \/ s = slot /\ locals[s] = "Long"
                   \/ s = slot + n + 1 /\ locals[s] = "LongHigh"
  IN [s \in DOMAIN locals |->
        IF s \in (slot + 1)..(slot + n) THEN types[s - slot]
        ELSE IF broken(s) THEN "Top" ELSE locals[s]]

TypeStep(method, state, i) ==
  LET popped == Popped(i)
      depth == Len(state.stack) - Len(popped)
      stack == SubSeq(state.stack, 1, depth) \o Pushed(i)
      stored == CASE i.op = "istore" -> <<"Integer">>
                  [] i.op = "lstore" -> <<"Long", "LongHigh">>
                  [] OTHER -> <<>>
  IN [ ok |-> /\ depth >= 0
              /\ SubSeq(state.stack, depth + 1, Len(state.stack)) = popped
              /\ TypeWords(stack) <= method.maxStack
              /\ i.op = "iload" => /\ i.arg < method.maxLocals
                                   /\ state.locals[i.arg + 1] = "Integer"
              /\ i.arg + Len(stored) <= method.maxLocals \/ stored = <<>>,
       state |-> [locals |-> StoreType(state.locals, i.arg, stored), stack |-> stack] ]

(* The linear pass: state is <<>> after an instruction that does not fall  *)
(* through, and the next instruction then needs a frame.                   *)
RECURSIVE Checks(_, _, _)
Checks(method, pc, state) ==
  LET i == method.code[pc]
      framed == pc \in DOMAIN method.frames
      frame == method.frames[pc]
      current == IF framed
                 THEN [locals |-> Slots(frame.locals, method.maxLocals), stack |-> frame.stack]
                 ELSE state[1]
      step == TypeStep(method, current, i)
      jumps == i.op \in ZeroTests \cup CompareTests \cup {"goto"}
      after == IF i.op \in {"goto", "return"} THEN <<>> ELSE <<step.state>>
      atEnd == i.next \notin DOMAIN method.code
  IN /\ framed \/ state # <<>>
     /\ framed /\ state # <<>> => FrameFits(state[1], frame, method.maxLocals)
     /\ step.ok
     /\ jumps => /\ i.arg \in DOMAIN method.frames
                 /\ FrameFits(step.state, method.frames[i.arg], method.maxLocals)
     /\ IF atEnd THEN after = <<>> ELSE Checks(method, i.next, after)

Verifies(method) ==
  /\ DOMAIN method.frames \subseteq DOMAIN method.code
  /\ TypeWords(method.entry) <= method.maxLocals
  /\ Checks(method, 0, <<[locals |-> Slots(method.entry, method.maxLocals),
                          stack |-> <<>>]>>)

-----------------------------------------------------------------------------
(* Execution: a machine is [pc, locals, stack, out, halted].  Values are   *)
(* integers; the value of an unwritten slot is Garbage, as the machine     *)
(* gives no guarantee of one.                                              *)

Garbage == 77

Boot(method) ==
  [pc |-> 0, locals |-> [s \in 1..method.maxLocals |-> Garbage],
   stack |-> <<>>, out |-> <<>>, halted |-> FALSE]

RunStep(method, m) ==
  LET i == method.code[m.pc]
      n == Len(m.stack)
      top == m.stack[n]
      under == m.stack[n - 1]
      pop(k) == SubSeq(m.stack, 1, n - k)
      fall == [m EXCEPT !.pc = i.next]
      push(v) == [fall EXCEPT !.stack = Append(@, v)]
      reduce(v) == [fall EXCEPT !.stack = Append(pop(2), v)]
      branch(k, taken) == [m EXCEPT !.pc = IF taken THEN i.arg ELSE i.next, !.stack = pop(k)]
  IN CASE i.op \in {"iconst_0", "lconst_0"} -> push(0)
       [] i.op = "iconst_1" -> push(1)
       [] i.op = "ldc" -> push(i.arg)
       [] i.op = "getstatic" -> push(Garbage)
       [] i.op = "iload" -> push(m.locals[i.arg + 1])
       [] i.op \in {"istore", "lstore"} ->
            [fall EXCEPT !.locals[i.arg + 1] = top, !.stack = pop(1)]
       [] i.op = "iand" -> reduce(top * under)
       [] i.op = "ior" -> reduce(IF top + under = 0 THEN 0 ELSE 1)
       [] i.op = "ixor" -> reduce((top + under) % 2)
       [] i.op = "ifeq" -> branch(1, top = 0)
       [] i.op = "ifne" -> branch(1, top # 0)
       [] i.op = "if_icmpeq" -> branch(2, top = under)
       [] i.op = "if_icmpne" -> branch(2, top # under)
       [] i.op = "goto" -> branch(0, TRUE)
       [] i.op = "invokevirtual" ->
            [fall EXCEPT !.out = Append(@, top), !.stack = pop(2)]
       [] i.op = "return" -> [m EXCEPT !.halted = TRUE]

=============================================================================
