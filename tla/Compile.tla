------------------------------ MODULE Compile ------------------------------
(***************************************************************************)
(* One compilation of njavac (lib.rs, codegen.rs and Emitter::finish), and *)
(* the life of the class it produces: semantic analysis, preflight,        *)
(* lowering, goto compaction, branch-mode selection, emission; then        *)
(* loading, verification and execution by the JVM.                         *)
(***************************************************************************)
EXTENDS Lowering, Jvm

CONSTANTS
  Programs,    \* the source programs
  CloseLine    \* the line of the method's closing brace

VARIABLES
  prog,        \* the program being compiled
  phase,       \* how far it got
  info,        \* MethodInfo: the analyzer after semantic analysis
  em,          \* the emitter
  original,    \* the stream saved before the narrow attempt
  mode,        \* the selected branch mode
  method,      \* the emitted method
  machine      \* the JVM running it

vars == <<prog, phase, info, em, original, mode, method, machine>>

NoMethod == <<>>
NoMachine == [out |-> <<>>]

Init ==
  /\ prog \in Programs
  /\ phase = "source"
  /\ info = NewAnalyzer
  /\ em = NewEmitter
  /\ original = NewEmitter
  /\ mode = "narrow"
  /\ method = NoMethod
  /\ machine = NoMachine

-----------------------------------------------------------------------------

Analyze ==
  /\ phase = "source"
  /\ info' = AnalyzeMethod(prog)
  /\ phase' = IF info'.ok THEN "analyzed" ELSE "rejected"
  /\ UNCHANGED <<prog, em, original, mode, method, machine>>

Preflight ==
  /\ phase = "analyzed"
  /\ phase' = IF PreflightRefuses(prog, info) THEN "refused" ELSE "planned"
  /\ UNCHANGED <<prog, info, em, original, mode, method, machine>>

Lower ==
  /\ phase = "planned"
  /\ em' = GenMethod(prog, info, CloseLine)
  /\ phase' = IF em'.panics = {} THEN "lowered" ELSE "panicked"
  /\ UNCHANGED <<prog, info, original, mode, method, machine>>

(* select_branch_mode first compacts for the narrow form... *)
CompactNarrow ==
  /\ phase = "lowered"
  /\ original' = em
  /\ em' = CompactGotos(em, TRUE)
  /\ phase' = "compacted"
  /\ UNCHANGED <<prog, info, mode, method, machine>>

KeepNarrow ==
  /\ phase = "compacted"
  /\ ~ NarrowBranchOverflows(em, Layout(em, "narrow"))
  /\ phase' = "laidOut"
  /\ UNCHANGED <<prog, info, em, original, mode, method, machine>>

(* ... and restores the saved stream and labels when a branch does not fit. *)
FallBackToFat ==
  /\ phase = "compacted"
  /\ NarrowBranchOverflows(em, Layout(em, "narrow"))
  /\ mode' = "fat"
  /\ em' = CompactGotos([em EXCEPT !.instructions = original.instructions,
                                   !.labels = original.labels], FALSE)
  /\ phase' = "laidOut"
  /\ UNCHANGED <<prog, info, original, method, machine>>

Emission ==
  /\ phase = "laidOut"
  /\ LET pcs == Layout(em, mode)
     IN IF pcs[End(em)] > CodeLimit
        THEN phase' = "panicked" /\ UNCHANGED <<em, method>>
        ELSE /\ phase' = "emitted"
             /\ em' = [em EXCEPT !.asserts =
                         FlagIf(@, ConflictingFrames(em, pcs, mode),
                                "conflicting frame states")]
             /\ method' = [ code |-> Encode(em, pcs, mode),
                            frames |-> ResolveFrames(em, pcs, mode),
                            lines |-> ResolveLines(em, pcs),
                            entry |-> EntryAnalyzer.cur,
                            maxStack |-> em.maxStack, maxLocals |-> info.maxLocals ]
  /\ UNCHANGED <<prog, info, original, mode, machine>>

-----------------------------------------------------------------------------

Load ==
  /\ phase = "emitted"
  /\ IF Verifies(method)
     THEN phase' = "running" /\ machine' = Boot(method)
     ELSE phase' = "verifyError" /\ UNCHANGED machine
  /\ UNCHANGED <<prog, info, em, original, mode, method>>

Run ==
  /\ phase = "running"
  /\ machine' = RunStep(method, machine)
  /\ phase' = IF machine'.halted THEN "finished" ELSE "running"
  /\ UNCHANGED <<prog, info, em, original, mode, method>>

Next == \/ Analyze \/ Preflight \/ Lower
        \/ CompactNarrow \/ KeepNarrow \/ FallBackToFat \/ Emission
        \/ Load \/ Run

Final == phase \in {"rejected", "refused", "panicked", "verifyError", "finished"}

(* The compiler and the JVM are sequential processes that keep running:    *)
(* this is WF_vars(Next), some step of Next being enabled in every phase   *)
(* that is not final.                                                      *)
Fairness == []<>Final \/ []<><<Next>>_vars

Spec == Init /\ [][Next]_vars /\ Fairness

-----------------------------------------------------------------------------
(* Properties. *)

Compiled == phase \in {"emitted", "running", "finished", "verifyError"}

(* The one type invariant: the phase decides which parts exist.  The       *)
(* compile pipeline of lib.rs hands each product on to the next phase.     *)
TypeOK ==
  /\ phase \in {"source", "analyzed", "rejected", "planned", "refused", "lowered",
               "panicked", "compacted", "laidOut", "emitted", "running",
               "verifyError", "finished"}
  /\ mode \in {"narrow", "fat"}
  /\ Compiled <=> method # NoMethod
  /\ phase \in {"running", "finished"} <=> machine # NoMachine
  /\ \A p \in 1..Count(em) : At(em, p) \in Instruction

(* Every class njavac writes passes the verifier: stack-map frames exist   *)
(* at every branch target, agree with the types that reach them and with   *)
(* max_stack and max_locals (codegen/assembler.rs, sema snapshots).        *)
Verified == phase # "verifyError"

(* Preflight refuses only what lowering really could not express: lowering *)
(* a refused program would trip the assert of gen_bool_value.              *)
PreflightPrecise ==
  phase = "refused" => GenMethod(prog, info, CloseLine).panics # {}

(* Semantic analysis accepts exactly the programs whose reads are all      *)
(* definitely assigned by the Java Language Specification.                 *)
SemaSound == phase # "source" => (info.ok <=> JavaAccepts(prog))

(* No program that preflight lets through trips an assertion of the        *)
(* emitter or of lowering.  Of those that stay in the release build (a     *)
(* boolean materialized above a live stack, an operand-stack underflow, an *)
(* oversized method) none fires; of the debug assertions three do on       *)
(* ordinary programs: frames at gotos (FramesOffGotos), and the chain of   *)
(* boolean x = (a == b), harmless as the stack is reset right after.       *)
ChainAssert == {"chain resolved with non-empty operand stack"}
GotoAsserts == {"frame requested at a goto", "frame at a deleted goto"}
FiringAsserts == ChainAssert \cup GotoAsserts
AssertsHold == phase # "panicked" /\ em.asserts \subseteq FiringAsserts

(* "frame requested at a goto" and "frame at a deleted goto"               *)
(* (assembler.rs) never fire.                                              *)
FramesOffGotos == em.asserts \cap GotoAsserts = {}

(* The line of a call is the line of the statement that makes it: a stack  *)
(* trace or a breakpoint in println points at the source statement.        *)
RowsBefore(lines, pc) == {k \in DOMAIN lines : lines[k][1] <= pc}
LinesAttributed ==
  phase = "running" /\ method.code[machine.pc].op = "invokevirtual" =>
    LET rows == RowsBefore(method.lines, machine.pc)
    IN /\ rows # {}
       /\ method.lines[Max(rows)][2] = Meaning(prog).lines[Len(machine.out) + 1]

(* Compiling and running a program turns it down or prints exactly what    *)
(* the Java source means and finishes: the whole pipeline implements       *)
(* SourceRun.                                                              *)
Status ==
  CASE phase \in {"rejected", "refused"} -> "turnedDown"
    [] phase \in {"running", "finished", "panicked", "verifyError"} -> phase
    [] OTHER -> "compiling"

Source == INSTANCE SourceRun WITH status <- Status, out <- machine.out
Implements == Source!Spec

=============================================================================
