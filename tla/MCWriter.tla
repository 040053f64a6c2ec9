------------------------------ MODULE MCWriter ------------------------------
(* Class files for ClassWriter: pairs of frames, and names that collide    *)
(* with the texts every class file needs.                                  *)
EXTENDS ClassWriter

Args == "[Ljava/lang/String;"
Str == "java/lang/String"
Obj == "java/lang/Object"
Unicode == "unicode"

Method(access, name, code, lines, entry, frames) ==
  [access |-> access, name |-> name, descriptor |-> "()V", maxStack |-> 1, maxLocals |-> 300,
   code |-> code, lines |-> lines, entryLocals |-> entry, frames |-> frames]
Return == 177
Plan(this, source, frames) ==
  [access |-> 32, this |-> this, super |-> Obj, source |-> source,
   methods |-> << Method(0, "<init>", <<Return>>, << <<0, 1>> >>, <<>>, <<>>),
                  Method(9, "main", [i \in 1..257 |-> i % 256], << <<0, 2>>, <<256, 770>> >>,
                         <<Args>>, frames) >>]

Frame(offset, locals, stack) == [offset |-> offset, locals |-> locals, stack |-> stack]

LocalStates ==
  { <<Args>>, <<Args, "Integer">>, <<Args, "Long">>, <<Args, Str>>,
    <<Args, "Integer", "Integer">>, <<Args, "Top", "Integer">>,
    <<Args, "Integer", "Integer", "Long", "Integer">> }
Stacks == { <<>>, <<"Integer">> }

(* All changes of state at a distance of 63, every state as the first one, *)
(* and all distances around 63 for some changes of state.                  *)
FramePairs ==
  {<<Frame(64, l, <<>>), Frame(128, m, t)>> :
     l \in LocalStates, m \in LocalStates, t \in Stacks}
  \cup {<<Frame(64, l, <<"Integer">>), Frame(128, l, <<>>)>> : l \in LocalStates}
  \cup
  {<<Frame(o, l, s), Frame(o + d, l, t)>> :
     o \in {63, 64}, d \in {1, 64, 65},
     l \in {<<Args, "Integer">>}, s \in Stacks, t \in Stacks}

FramePlans == {Plan("A", "A.java", fs) : fs \in FramePairs}

Full == <<Frame(7, <<Args, Str>>, <<>>), Frame(9, <<Args, "Top", Str>>, <<"Integer">>)>>
PoolPlans ==
  {Plan(this, source, fs) :
     this \in {"A", "Code", Str}, source \in {"A.java", "main"}, fs \in {<<>>, Full}}

ClassFileTexts ==
  { "A", "Code", "A.java", Str, Obj, Args, "main", "<init>", "()V", "LineNumberTable",
    "StackMapTable", "SourceFile", Unicode }

Ref(kind, owner, name) ==
  [kind |-> kind, owner |-> owner, name |-> name, descriptor |-> "()V"]
AllPlans == PoolPlans \cup FramePlans
AnyOperands == {Ref("Methodref", Obj, "<init>"), Ref("Fieldref", "A", "Code")}
AnyLiterals == {"SourceFile", Str, Unicode}

(* The literal at the boundaries of modified UTF-8.                        *)
TextUnits ==
  [s \in ClassFileTexts |->
     IF s = Unicode THEN <<0, 1, 127, 128, 2047, 2048, 55357, 56832, 65535>> ELSE Spelled(s)]

=============================================================================
