------------------------------ MODULE StackMap ------------------------------
(***************************************************************************)
(* The StackMapTable encoding of classfile/writer.rs: each frame is        *)
(* written relative to the one before it, in the smallest form that fits.  *)
(*                                                                         *)
(* A verification type is "Top", "Integer", "Float", "Long", "Double" or   *)
(* the internal name of a class.  A physical frame is [tag, delta, locals, *)
(* stack]: what follows the tag byte in the file.                          *)
(***************************************************************************)
EXTENDS Integers, Sequences, SequencesExt

PrimitiveTypes == {"Top", "Integer", "Float", "Long", "Double"}
IsObject(vt) == vt \notin PrimitiveTypes

(* Mutant of ClassifyFrame: at most two locals are chopped.                *)
ClassifyFrameChopTwo(locals, stack, prev) ==
  CASE locals = prev /\ stack = <<>> -> "same"
    [] locals = prev /\ Len(stack) = 1 -> "same_locals_1"
    [] /\ locals # prev /\ stack = <<>>
       /\ IsPrefix(prev, locals) /\ Len(locals) - Len(prev) <= 3 -> "append"
    [] /\ locals # prev /\ stack = <<>>
       /\ IsPrefix(locals, prev) /\ Len(prev) - Len(locals) < 3 -> "chop"
    [] OTHER -> "full"

ClassifyFrame(locals, stack, prev) ==
  CASE locals = prev /\ stack = <<>> -> "same"
    [] locals = prev /\ Len(stack) = 1 -> "same_locals_1"
    [] /\ locals # prev /\ stack = <<>>
       /\ IsPrefix(prev, locals) /\ Len(locals) - Len(prev) <= 3 -> "append"
    [] /\ locals # prev /\ stack = <<>>
       /\ IsPrefix(locals, prev) /\ Len(prev) - Len(locals) <= 3 -> "chop"
    [] OTHER -> "full"

Shape(f, prev) == ClassifyFrame(f.locals, f.stack, prev)

(* The locals the frame before frame k leaves. *)
PrevLocals(frames, entryLocals, k) ==
  IF k = 1 THEN entryLocals ELSE frames[k - 1].locals

(* The types written for a frame, in order. *)
NewLocals(f, prev) ==
  CASE Shape(f, prev) = "append" -> SubSeq(f.locals, Len(prev) + 1, Len(f.locals))
    [] Shape(f, prev) = "full" -> f.locals
    [] OTHER -> <<>>

NewStack(f, prev) ==
  IF Shape(f, prev) \in {"same_locals_1", "full"} THEN f.stack ELSE <<>>

Physical(tag, delta, locals, stack) ==
  [tag |-> tag, delta |-> delta, locals |-> locals, stack |-> stack]

(* A delta above 63 does not fit the tag and takes the extended form.      *)
WriteFrame(f, delta, prev) ==
  LET tag == CASE Shape(f, prev) = "same" -> IF delta <= 63 THEN delta ELSE 251
               [] Shape(f, prev) = "same_locals_1" -> IF delta <= 63 THEN 64 + delta ELSE 247
               [] Shape(f, prev) = "append" -> 251 + Len(NewLocals(f, prev))
               [] Shape(f, prev) = "chop" -> 251 - (Len(prev) - Len(f.locals))
               [] OTHER -> 255
  IN Physical(tag, delta, NewLocals(f, prev), NewStack(f, prev))

Delta(frames, k) ==
  IF k = 1 THEN frames[1].offset ELSE frames[k].offset - frames[k - 1].offset - 1

WriteStackMapBody(frames, entryLocals) ==
  [k \in DOMAIN frames |->
     WriteFrame(frames[k], Delta(frames, k), PrevLocals(frames, entryLocals, k))]

ObjectsOf(types) ==
  FlattenSeq([k \in DOMAIN types |-> IF IsObject(types[k]) THEN <<types[k]>> ELSE <<>>])
WrittenObjects(f, prev) == ObjectsOf(NewLocals(f, prev) \o NewStack(f, prev))

(* Mutant of FrameObjectClasses: every frame is compared with the entry.   *)
FrameObjectClassesFromEntry(frames, entryLocals) ==
  FlattenSeq([k \in DOMAIN frames |-> WrittenObjects(frames[k], entryLocals)])

(* The classes interned ahead of writing, by the same classification.      *)
FrameObjectClasses(frames, entryLocals) ==
  FlattenSeq([k \in DOMAIN frames |->
                WrittenObjects(frames[k], PrevLocals(frames, entryLocals, k))])

-----------------------------------------------------------------------------
(* The reader, JVMS 4.7.4. *)

ReadDelta(p) ==
  CASE p.tag <= 63 -> p.tag
    [] p.tag \in 64..127 -> p.tag - 64
    [] OTHER -> p.delta

ReadLocals(p, prev) ==
  CASE p.tag = 255 -> p.locals
    [] p.tag \in 252..254 -> prev \o SubSeq(p.locals, 1, p.tag - 251)
    [] p.tag \in 248..250 -> SubSeq(prev, 1, Len(prev) - (251 - p.tag))
    [] OTHER -> prev

ReadStack(p) ==
  CASE p.tag = 255 -> p.stack
    [] p.tag \in 64..127 \cup {247} -> SubSeq(p.stack, 1, 1)
    [] OTHER -> <<>>

ReadFrame(p, base, prev) ==
  [offset |-> base + ReadDelta(p) + 1, locals |-> ReadLocals(p, prev), stack |-> ReadStack(p)]
ReadStackMap(physical, entryLocals) ==
  LET read[k \in 1..Len(physical)] ==
        IF k = 1 THEN ReadFrame(physical[1], -1, entryLocals)
        ELSE ReadFrame(physical[k], read[k - 1].offset, read[k - 1].locals)
  IN [k \in DOMAIN physical |-> read[k]]

=============================================================================
