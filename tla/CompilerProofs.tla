--------------------------- MODULE CompilerProofs ---------------------------
(***************************************************************************)
(* Proofs about parse_public_interface: for every source file and every   *)
(* selector function, the two loops end with the outcome the reference    *)
(* definition ReferenceOutcome gives for the whole file.                   *)
(***************************************************************************)
EXTENDS Compiler, TLAPS

(* The selector of function i, and whether parameter k of it is rejected. *)
Sig(i) == Selector[RawSignature(Funcs[i])]
Bad(i, k) == ParamError(Funcs[i].params[k]) # "ok"

(* No parameter of an exported function before position (f, p) is bad.    *)
CleanBefore(f, p) ==
  \A i \in Exported : \A k \in DOMAIN Funcs[i].params :
    (i < f \/ (i = f /\ k < p)) => ~Bad(i, k)

(* publicInterface holds one entry per exported function before f, in     *)
(* source order, each with that function's selector.                       *)
Pushed(f) ==
  \E g \in [1..Len(iface) -> 1..Len(Funcs)] :
    /\ \A k, l \in 1..Len(iface) : k < l => g[k] < g[l]
    /\ {g[k] : k \in 1..Len(iface)} = {i \in Exported : i < f}
    /\ \A k \in 1..Len(iface) : iface[k].function_signature = Sig(g[k])

(* The selectors of the entries before position c are pairwise distinct.  *)
DistinctBefore(c) ==
  \A k, l \in 1..(c - 1) :
    k # l => iface[k].function_signature # iface[l].function_signature

(* The position the reference reports.                                    *)
FirstBad == CHOOSE b \in BadParams : \A c \in BadParams \ {b} : Earlier(b, c)

ErrorSet == {"isTuple", "isRestParameter", "isOptionalParameter",
             "isParameterProperty", "unsupportedArrayType", "unsupportedType"}

(* The inductive invariant: where each loop is, and what it has seen.      *)
CInv ==
  /\ Funcs \in Seq(FunctionRec)
  /\ fi \in 1..(Len(Funcs) + 1) /\ pi \in Nat \ {0} /\ ci \in Nat \ {0}
  /\ iface \in Seq([function_signature : {Sig(i) : i \in DOMAIN Funcs},
                    functionName : STRING])
  /\ pc \in {"params", "collisions", "hash collision", "generated"} \cup ErrorSet
  /\ Pushed(fi)
  /\ pc = "params" =>
       /\ ci = 1 /\ seen = {}
       /\ CleanBefore(fi, pi)
       /\ fi <= Len(Funcs) =>
            IF Funcs[fi].exported THEN pi <= Len(Funcs[fi].params) + 1 ELSE pi = 1
  /\ pc \in ErrorSet =>
       /\ fi <= Len(Funcs) /\ Funcs[fi].exported
       /\ pi \in DOMAIN Funcs[fi].params
       /\ pc = ParamError(Funcs[fi].params[pi])
       /\ CleanBefore(fi, pi)
  /\ pc \in {"collisions", "hash collision", "generated"} =>
       fi = Len(Funcs) + 1 /\ CleanBefore(fi, 1)
  /\ pc = "collisions" =>
       /\ ci <= Len(iface) + 1 /\ DistinctBefore(ci)
       /\ seen = {iface[k].function_signature : k \in 1..(ci - 1)}
  /\ pc = "hash collision" =>
       /\ ci <= Len(iface)
       /\ \E k \in 1..(ci - 1) : iface[k].function_signature = iface[ci].function_signature
  /\ pc = "generated" => ci = Len(iface) + 1 /\ DistinctBefore(ci)

-----------------------------------------------------------------------------
(* ParamError names one of the six errors, or "ok".                        *)
LEMMA ParamErrorRange ==
  ASSUME NEW p
  PROVE  ParamError(p) \in ErrorSet \cup {"ok"}
  BY DEF ParamError, ErrorSet

(* What a source file is made of.                                         *)
LEMMA FuncsFacts ==
  ASSUME Funcs \in Seq(FunctionRec)
  PROVE  /\ DOMAIN Funcs = 1..Len(Funcs)
         /\ \A i \in DOMAIN Funcs :
              /\ Funcs[i].exported \in BOOLEAN
              /\ Funcs[i].name \in STRING
              /\ Funcs[i].params \in Seq(ParamRec)
              /\ DOMAIN Funcs[i].params = 1..Len(Funcs[i].params)
  <1>1. DOMAIN Funcs = 1..Len(Funcs)
    OBVIOUS
  <1>2. ASSUME NEW i \in DOMAIN Funcs
        PROVE  /\ Funcs[i].exported \in BOOLEAN
               /\ Funcs[i].name \in STRING
               /\ Funcs[i].params \in Seq(ParamRec)
               /\ DOMAIN Funcs[i].params = 1..Len(Funcs[i].params)
    <2>1. Funcs[i] \in FunctionRec
      BY <1>1
    <2>2. Funcs[i].params \in Seq(ParamRec)
      BY <2>1, Zenon DEF FunctionRec
    <2>. QED
      BY <2>1, <2>2 DEF FunctionRec
  <1>. QED
    BY <1>1, <1>2

LEMMA InitCInv == Init => CInv
  <1>. SUFFICES ASSUME Init PROVE CInv
    OBVIOUS
  <1>1. Funcs \in Seq(FunctionRec)
    BY CompilerAssumption DEF Init
  <1>2. Pushed(fi)
    <2>. DEFINE g == [k \in 1..Len(iface) |-> 1]
    <2>1. Len(iface) = 0 /\ fi = 1
      BY DEF Init
    <2>2. {i \in Exported : i < fi} = {}
      BY <1>1, <2>1, FuncsFacts DEF Exported
    <2>3. g \in [1..Len(iface) -> 1..Len(Funcs)]
      BY <2>1
    <2>4. /\ \A k, l \in 1..Len(iface) : k < l => g[k] < g[l]
          /\ {g[k] : k \in 1..Len(iface)} = {i \in Exported : i < fi}
          /\ \A k \in 1..Len(iface) : iface[k].function_signature = Sig(g[k])
      BY <2>1, <2>2
    <2>. QED
      BY <2>3, <2>4, Zenon DEF Pushed
  <1>3. CleanBefore(fi, pi)
    BY <1>1, FuncsFacts DEF Init, CleanBefore, Exported
  <1>. QED
    BY <1>1, <1>2, <1>3, FuncsFacts DEF Init, CInv, ErrorSet

(* A function that is not exported is passed over, and adds nothing.      *)
LEMMA SkipFunctionCInv ==
  ASSUME CInv, SkipFunction
  PROVE  CInv'
  <1>0. /\ Funcs \in Seq(FunctionRec) /\ Funcs' = Funcs
        /\ pc = "params" /\ pc' = pc /\ fi \in 1..Len(Funcs) /\ fi' = fi + 1
        /\ ~Funcs[fi].exported /\ pi = 1
        /\ UNCHANGED <<pi, iface, ci, seen>>
    BY DEF CInv, SkipFunction
  <1>1. fi \notin Exported
    BY <1>0 DEF Exported
  <1>2. Pushed(fi + 1)
    <2>1. {i \in Exported : i < fi + 1} = {i \in Exported : i < fi}
      BY <1>0, <1>1, FuncsFacts DEF Exported
    <2>. QED
      BY <2>1 DEF CInv, Pushed
  <1>3. Pushed(fi)'
    BY <1>0, <1>2 DEF Pushed, Exported, Sig
  <1>4. CleanBefore(fi + 1, 1)
    BY <1>0, <1>1, FuncsFacts DEF CInv, CleanBefore, Exported
  <1>5. CleanBefore(fi, pi)'
    BY <1>0, <1>4 DEF CleanBefore, Exported, Bad
  <1>6. (fi <= Len(Funcs) =>
           IF Funcs[fi].exported THEN pi <= Len(Funcs[fi].params) + 1 ELSE pi = 1)'
    BY <1>0, FuncsFacts
  <1>7. (iface \in Seq([function_signature : {Sig(i) : i \in DOMAIN Funcs},
                        functionName : STRING]))'
    BY <1>0 DEF CInv, Sig
  <1>8. fi' \in 1..(Len(Funcs') + 1) /\ pi' \in Nat \ {0} /\ ci' \in Nat \ {0}
    BY <1>0 DEF CInv
  <1>. QED
    BY <1>0, <1>3, <1>5, <1>6, <1>7, <1>8 DEF CInv, ErrorSet

(* A step that leaves the file, the function loop and publicInterface     *)
(* alone keeps what Pushed and the type say of them.                       *)
LEMMA FrameCInv ==
  ASSUME CInv, UNCHANGED <<Funcs, fi, iface>>
  PROVE  /\ Pushed(fi)'
         /\ (iface \in Seq([function_signature : {Sig(i) : i \in DOMAIN Funcs},
                             functionName : STRING]))'
         /\ Funcs' \in Seq(FunctionRec) /\ fi' \in 1..(Len(Funcs') + 1)
  <1>1. Pushed(fi)
    BY DEF CInv
  <1>2. Pushed(fi)'
    BY <1>1, Zenon DEF Pushed, Exported, Sig
  <1>3. (iface \in Seq([function_signature : {Sig(i) : i \in DOMAIN Funcs},
                        functionName : STRING]))'
    BY DEF CInv, Sig
  <1>. QED
    BY <1>2, <1>3 DEF CInv

(* One parameter is checked: it passes and the forEach moves on, or the   *)
(* loop throws its error.                                                  *)
LEMMA CheckParamCInv ==
  ASSUME CInv, CheckParam
  PROVE  CInv'
  <1>0. /\ Funcs \in Seq(FunctionRec) /\ UNCHANGED <<Funcs, fi, iface, ci, seen>>
        /\ pc = "params" /\ fi \in 1..Len(Funcs) /\ Funcs[fi].exported
        /\ pi \in 1..Len(Funcs[fi].params) /\ ci = 1 /\ seen = {}
        /\ CleanBefore(fi, pi)
    BY FuncsFacts DEF CInv, CheckParam
  <1>1. fi \in Exported /\ pi \in DOMAIN Funcs[fi].params
    BY <1>0, FuncsFacts DEF Exported
  <1>2. CASE ParamError(Funcs[fi].params[pi]) = "ok"
    <2>1. pi' = pi + 1 /\ pc' = pc
      BY <1>2 DEF CheckParam
    <2>2. CleanBefore(fi, pi + 1)
      <3>. SUFFICES ASSUME NEW i \in Exported, NEW k \in DOMAIN Funcs[i].params,
                          i < fi \/ (i = fi /\ k < pi + 1)
                   PROVE  ~Bad(i, k)
        BY DEF CleanBefore
      <3>1. k \in Nat /\ i \in Nat
        BY <1>0, FuncsFacts DEF Exported
      <3>2. CASE i = fi /\ k = pi
        BY <1>2, <3>2 DEF Bad
      <3>3. CASE ~(i = fi /\ k = pi)
        BY <1>0, <3>1, <3>3 DEF CleanBefore
      <3>. QED
        BY <3>2, <3>3
    <2>3. CleanBefore(fi, pi)'
      BY <1>0, <2>1, <2>2 DEF CleanBefore, Exported, Bad
    <2>4. pi' <= Len(Funcs[fi].params) + 1 /\ pi' \in Nat \ {0}
      BY <1>0, <2>1
    <2>. QED
      BY <1>0, <2>1, <2>3, <2>4, FrameCInv DEF CInv, ErrorSet
  <1>3. CASE ParamError(Funcs[fi].params[pi]) # "ok"
    <2>1. pc' = ParamError(Funcs[fi].params[pi]) /\ pi' = pi
      BY <1>3 DEF CheckParam
    <2>2. pc' \in ErrorSet
      BY <1>3, <2>1, ParamErrorRange
    <2>3. pc' \notin {"params", "collisions", "hash collision", "generated"}
      BY <2>2 DEF ErrorSet
    <2>4. CleanBefore(fi, pi)'
      BY <1>0, <2>1 DEF CleanBefore, Exported, Bad
    <2>5. (/\ fi <= Len(Funcs) /\ Funcs[fi].exported
           /\ pi \in DOMAIN Funcs[fi].params
           /\ pc = ParamError(Funcs[fi].params[pi]))'
      BY <1>0, <1>1, <2>1
    <2>6. pi' \in Nat \ {0} /\ ci' \in Nat \ {0}
      BY <1>0, <2>1
    <2>. QED
      BY <1>0, <2>2, <2>3, <2>4, <2>5, <2>6, FrameCInv DEF CInv
  <1>. QED
    BY <1>2, <1>3

(* After the forEach, the function's entry is pushed: publicInterface now  *)
(* covers the exported functions up to and including this one.            *)
LEMMA PushFunctionCInv ==
  ASSUME CInv, PushFunction
  PROVE  CInv'
  <1>. DEFINE e == [function_signature |-> Sig(fi), functionName |-> Funcs[fi].name]
              n == Len(iface)
  <1>0. /\ Funcs \in Seq(FunctionRec) /\ UNCHANGED <<Funcs, pc, ci, seen>>
        /\ pc = "params" /\ fi \in 1..Len(Funcs) /\ Funcs[fi].exported
        /\ pi \in Nat /\ pi > Len(Funcs[fi].params) /\ ci = 1 /\ seen = {}
        /\ CleanBefore(fi, pi)
        /\ iface' = Append(iface, e) /\ fi' = fi + 1 /\ pi' = 1
    BY FuncsFacts DEF CInv, PushFunction, Sig
  <1>1. /\ iface \in Seq([function_signature : {Sig(i) : i \in DOMAIN Funcs},
                          functionName : STRING])
        /\ e \in [function_signature : {Sig(i) : i \in DOMAIN Funcs},
                   functionName : STRING]
    BY <1>0, FuncsFacts DEF CInv
  <1>2. /\ Len(iface') = n + 1
        /\ \A k \in 1..n : iface'[k] = iface[k]
        /\ iface'[n + 1] = e
        /\ iface' \in Seq([function_signature : {Sig(i) : i \in DOMAIN Funcs},
                           functionName : STRING])
    BY <1>0, <1>1
  <1>3. fi \in Exported
    BY <1>0, FuncsFacts DEF Exported
  <1>4. Pushed(fi)'
    <2>1. PICK g \in [1..n -> 1..Len(Funcs)] :
            /\ \A k, l \in 1..n : k < l => g[k] < g[l]
            /\ {g[k] : k \in 1..n} = {i \in Exported : i < fi}
            /\ \A k \in 1..n : iface[k].function_signature = Sig(g[k])
      BY DEF CInv, Pushed
    <2>. DEFINE g2 == [k \in 1..(n + 1) |-> IF k <= n THEN g[k] ELSE fi]
    <2>2. g2 \in [1..Len(iface') -> 1..Len(Funcs')]
      BY <1>0, <1>2, <2>1
    <2>3. \A k, l \in 1..Len(iface') : k < l => g2[k] < g2[l]
      <3>1. \A k \in 1..n : g[k] < fi
        BY <2>1
      <3>. QED
        BY <1>2, <2>1, <3>1
    <2>4. {g2[k] : k \in 1..Len(iface')} = {i \in Exported : i < fi + 1}
      <3>1. {g2[k] : k \in 1..Len(iface')} = {g[k] : k \in 1..n} \cup {fi}
        BY <1>2
      <3>2. {i \in Exported : i < fi + 1} = {i \in Exported : i < fi} \cup {fi}
        BY <1>0, <1>3, FuncsFacts DEF Exported
      <3>. QED
        BY <2>1, <3>1, <3>2
    <2>5. \A k \in 1..Len(iface') : iface'[k].function_signature = Sig(g2[k])
      BY <1>2, <2>1
    <2>. QED
      <3>1. Pushed(fi)' <=>
              \E h \in [1..Len(iface') -> 1..Len(Funcs)] :
                /\ \A k, l \in 1..Len(iface') : k < l => h[k] < h[l]
                /\ {h[k] : k \in 1..Len(iface')} = {i \in Exported : i < fi + 1}
                /\ \A k \in 1..Len(iface') : iface'[k].function_signature = Sig(h[k])
        BY <1>0 DEF Pushed, Exported, Sig
      <3>. QED
        BY <2>2, <2>3, <2>4, <2>5, <3>1, <1>0, Zenon
  <1>5. CleanBefore(fi, pi)'
    <2>1. CleanBefore(fi + 1, 1)
      <3>. SUFFICES ASSUME NEW i \in Exported, NEW k \in DOMAIN Funcs[i].params,
                          i < fi + 1 \/ (i = fi + 1 /\ k < 1)
                   PROVE  ~Bad(i, k)
        BY DEF CleanBefore
      <3>1. i \in Nat /\ k \in 1..Len(Funcs[i].params) /\ i < fi + 1
        BY <1>0, FuncsFacts DEF Exported
      <3>. QED
        BY <1>0, <3>1 DEF CleanBefore
    <2>. QED
      BY <1>0, <2>1 DEF CleanBefore, Exported, Bad
  <1>6. fi' \in 1..(Len(Funcs') + 1) /\ pi' \in Nat \ {0} /\ ci' \in Nat \ {0}
    BY <1>0
  <1>7. (fi <= Len(Funcs) =>
           IF Funcs[fi].exported THEN pi <= Len(Funcs[fi].params) + 1 ELSE pi = 1)'
    BY <1>0, FuncsFacts
  <1>8. (iface \in Seq([function_signature : {Sig(i) : i \in DOMAIN Funcs},
                        functionName : STRING]))'
    BY <1>0, <1>2 DEF Sig
  <1>9. (pc = "params" /\ ci = 1 /\ seen = {} /\ Funcs \in Seq(FunctionRec))'
    BY <1>0
  <1>. QED
    BY <1>4, <1>5, <1>6, <1>7, <1>8, <1>9 DEF CInv, ErrorSet

(* The function loop ends with every parameter checked.                    *)
LEMMA EndFunctionsCInv ==
  ASSUME CInv, EndFunctions
  PROVE  CInv'
  <1>0. /\ Funcs \in Seq(FunctionRec) /\ UNCHANGED <<Funcs, fi, pi, iface, ci, seen>>
        /\ pc' = "collisions" /\ fi = Len(Funcs) + 1 /\ ci = 1 /\ seen = {}
        /\ CleanBefore(fi, pi)
    BY DEF CInv, EndFunctions
  <1>1. CleanBefore(fi, 1)
    <2>1. \A i \in Exported : i < fi
      BY <1>0, FuncsFacts DEF Exported
    <2>. QED
      BY <1>0, <2>1 DEF CleanBefore
  <1>2. CleanBefore(fi, 1)'
    BY <1>0, <1>1 DEF CleanBefore, Exported, Bad
  <1>3. (/\ ci <= Len(iface) + 1 /\ DistinctBefore(ci)
         /\ seen = {iface[k].function_signature : k \in 1..(ci - 1)})'
    BY <1>0 DEF DistinctBefore
  <1>4. pi' \in Nat \ {0} /\ ci' \in Nat \ {0}
    BY <1>0 DEF CInv
  <1>. QED
    BY <1>0, <1>2, <1>3, <1>4, FrameCInv DEF CInv, ErrorSet

(* One iteration of the collision loop: a selector seen before stops it,  *)
(* any other is recorded.                                                  *)
LEMMA CheckCollisionCInv ==
  ASSUME CInv, CheckCollision
  PROVE  CInv'
  <1>. DEFINE sig(k) == iface[k].function_signature
  <1>0. /\ UNCHANGED <<Funcs, fi, pi, iface>>
        /\ pc = "collisions" /\ ci \in 1..Len(iface)
        /\ fi = Len(Funcs) + 1 /\ CleanBefore(fi, 1)
        /\ DistinctBefore(ci)
        /\ seen = {sig(k) : k \in 1..(ci - 1)}
        /\ pi \in Nat \ {0}
    <2>1. pc = "collisions" /\ ci <= Len(iface) /\ UNCHANGED <<Funcs, fi, pi, iface>>
      BY DEF CheckCollision
    <2>2. iface \in Seq([function_signature : {Sig(i) : i \in DOMAIN Funcs},
                        functionName : STRING])
          /\ ci \in Nat \ {0} /\ pi \in Nat \ {0}
      BY DEF CInv
    <2>3. /\ fi = Len(Funcs) + 1 /\ CleanBefore(fi, 1)
          /\ DistinctBefore(ci)
          /\ seen = {iface[k].function_signature : k \in 1..(ci - 1)}
      BY <2>1 DEF CInv
    <2>. QED
      BY <2>1, <2>2, <2>3
  <1>1. (fi = Len(Funcs) + 1 /\ CleanBefore(fi, 1))'
    BY <1>0 DEF CleanBefore, Exported, Bad
  <1>2. CASE sig(ci) \in seen
    <2>1. pc' = "hash collision" /\ ci' = ci /\ seen' = seen
      BY <1>2 DEF CheckCollision
    <2>2. PICK k \in 1..(ci - 1) : sig(k) = sig(ci)
      BY <1>0, <1>2
    <2>3. (/\ ci <= Len(iface)
           /\ \E k2 \in 1..(ci - 1) :
                iface[k2].function_signature = iface[ci].function_signature)'
      <3>1. iface' = iface /\ ci' = ci
        BY <1>0, <2>1
      <3>2. /\ ci <= Len(iface)
            /\ \E k2 \in 1..(ci - 1) :
                 iface[k2].function_signature = iface[ci].function_signature
        BY <1>0, <2>2 DEF sig
      <3>. QED
        BY <3>1, <3>2
    <2>. QED
      BY <1>0, <1>1, <2>1, <2>3, FrameCInv DEF CInv, ErrorSet
  <1>3. CASE sig(ci) \notin seen
    <2>1. pc' = pc /\ ci' = ci + 1 /\ seen' = seen \cup {sig(ci)}
      BY <1>3 DEF CheckCollision
    <2>2. DistinctBefore(ci + 1)
      BY <1>0, <1>3 DEF DistinctBefore
    <2>3. (/\ ci <= Len(iface) + 1 /\ DistinctBefore(ci)
           /\ seen = {iface[k].function_signature : k \in 1..(ci - 1)})'
      BY <1>0, <2>1, <2>2 DEF DistinctBefore
    <2>. QED
      BY <1>0, <1>1, <2>1, <2>3, FrameCInv DEF CInv, ErrorSet
  <1>. QED
    BY <1>2, <1>3

(* The collision loop ends without a collision: the bindings are written. *)
LEMMA GenerateCInv ==
  ASSUME CInv, Generate
  PROVE  CInv'
  <1>0. /\ UNCHANGED <<Funcs, fi, pi, iface, ci, seen>>
        /\ pc' = "generated" /\ ci = Len(iface) + 1 /\ DistinctBefore(ci)
        /\ fi = Len(Funcs) + 1 /\ CleanBefore(fi, 1) /\ pi \in Nat \ {0}
    BY DEF CInv, Generate
  <1>1. (fi = Len(Funcs) + 1 /\ CleanBefore(fi, 1))'
    BY <1>0 DEF CleanBefore, Exported, Bad
  <1>2. (ci = Len(iface) + 1 /\ DistinctBefore(ci))'
    BY <1>0 DEF DistinctBefore
  <1>. QED
    BY <1>0, <1>1, <1>2, FrameCInv DEF CInv, ErrorSet

(* The rejected parameters, position by position.                          *)
LEMMA BadParamsMembers ==
  \A b : b \in BadParams <=>
          \E i \in Exported : \E k \in DOMAIN Funcs[i].params : b = <<i, k>> /\ Bad(i, k)
  BY DEF BadParams, Bad

(* With no bad parameter anywhere, the reference rejects nothing.          *)
LEMMA NoBadParams ==
  ASSUME Funcs \in Seq(FunctionRec), CleanBefore(Len(Funcs) + 1, 1)
  PROVE  BadParams = {}
  <1>1. \A i \in Exported : i < Len(Funcs) + 1
    BY FuncsFacts DEF Exported
  <1>. QED
    BY <1>1, BadParamsMembers DEF CleanBefore

(* The loops stop at the outcome of the reference.                         *)
LEMMA CInvCorrect == CInv => CompileMatchesReference
  <1>. SUFFICES ASSUME CInv, Terminated PROVE pc = ReferenceOutcome
    BY DEF CompileMatchesReference
  <1>0. Funcs \in Seq(FunctionRec)
    BY DEF CInv
  <1>1. CASE pc \in ErrorSet
    <2>. DEFINE Least(b) == \A c \in BadParams \ {b} : Earlier(b, c)
    <2>0. /\ fi \in 1..(Len(Funcs) + 1) /\ fi <= Len(Funcs) /\ Funcs[fi].exported
          /\ pi \in DOMAIN Funcs[fi].params
          /\ pc = ParamError(Funcs[fi].params[pi])
          /\ CleanBefore(fi, pi)
      BY <1>1 DEF CInv
    <2>1. /\ fi \in Exported /\ pi \in DOMAIN Funcs[fi].params
          /\ pc = ParamError(Funcs[fi].params[pi])
          /\ CleanBefore(fi, pi)
      BY <1>0, <2>0, FuncsFacts DEF Exported
    <2>2. <<fi, pi>> \in BadParams
      BY <1>1, <2>1, BadParamsMembers DEF ErrorSet, Bad
    <2>3. Least(<<fi, pi>>)
      <3>. SUFFICES ASSUME NEW i \in Exported, NEW k \in DOMAIN Funcs[i].params,
                          Bad(i, k), <<i, k>> # <<fi, pi>>
                   PROVE  Earlier(<<fi, pi>>, <<i, k>>)
        BY BadParamsMembers
      <3>1. i \in Nat /\ k \in Nat /\ fi \in Nat /\ pi \in Nat
        BY <1>0, <2>1, FuncsFacts DEF Exported
      <3>. QED
        BY <2>1, <3>1 DEF CleanBefore, Earlier
    <2>4. \A b \in BadParams : Least(b) => b = <<fi, pi>>
      <3>. SUFFICES ASSUME NEW i \in Exported, NEW k \in DOMAIN Funcs[i].params,
                          Bad(i, k), Least(<<i, k>>)
                   PROVE  <<i, k>> = <<fi, pi>>
        BY BadParamsMembers
      <3>1. i \in Nat /\ k \in Nat /\ fi \in Nat /\ pi \in Nat
        BY <1>0, <2>1, FuncsFacts DEF Exported
      <3>. QED
        BY <2>1, <2>2, <3>1 DEF CleanBefore, Earlier
    <2>5. (CHOOSE b \in BadParams : \A c \in BadParams \ {b} : Earlier(b, c)) = <<fi, pi>>
      BY <2>2, <2>3, <2>4
    <2>6. ReferenceOutcome = ParamError(Funcs[fi].params[pi])
      <3>1. BadParams # {}
        BY <2>2
      <3>2. ReferenceOutcome = ParamError(Funcs[FirstBad[1]].params[FirstBad[2]])
        BY <3>1, Zenon DEF ReferenceOutcome, FirstBad
      <3>3. FirstBad = <<fi, pi>>
        BY <2>5, Zenon DEF FirstBad
      <3>4. FirstBad[1] = fi /\ FirstBad[2] = pi
        BY <3>3
      <3>. QED
        BY <3>2, <3>4
    <2>. QED
      BY <2>1, <2>6
  <1>2. CASE pc = "hash collision"
    <2>1. BadParams = {}
      BY <1>0, <1>2, NoBadParams DEF CInv
    <2>2. PICK g \in [1..Len(iface) -> 1..Len(Funcs)] :
            /\ \A k, l \in 1..Len(iface) : k < l => g[k] < g[l]
            /\ {g[k] : k \in 1..Len(iface)} = {i \in Exported : i < fi}
            /\ \A k \in 1..Len(iface) : iface[k].function_signature = Sig(g[k])
      BY DEF CInv, Pushed
    <2>3. PICK k \in 1..(ci - 1) :
            iface[k].function_signature = iface[ci].function_signature
      BY <1>2 DEF CInv
    <2>4. ci \in 1..Len(iface) /\ k \in 1..Len(iface) /\ k < ci
      <3>1. ci \in Nat \ {0} /\ ci <= Len(iface)
        BY <1>2 DEF CInv
      <3>. QED
        BY <2>3, <3>1
    <2>5. g[k] \in Exported /\ g[ci] \in Exported /\ g[k] < g[ci]
      BY <2>2, <2>4
    <2>6. Sig(g[k]) = Sig(g[ci])
      BY <2>2, <2>3, <2>4
    <2>. QED
      BY <1>2, <2>1, <2>5, <2>6 DEF ReferenceOutcome, Sig
  <1>3. CASE pc = "generated"
    <2>1. BadParams = {}
      BY <1>0, <1>3, NoBadParams DEF CInv
    <2>2. PICK g \in [1..Len(iface) -> 1..Len(Funcs)] :
            /\ \A k, l \in 1..Len(iface) : k < l => g[k] < g[l]
            /\ {g[k] : k \in 1..Len(iface)} = {i \in Exported : i < fi}
            /\ \A k \in 1..Len(iface) : iface[k].function_signature = Sig(g[k])
      BY DEF CInv, Pushed
    <2>3. {g[k] : k \in 1..Len(iface)} = Exported
      <3>1. fi = Len(Funcs) + 1
        BY <1>3 DEF CInv
      <3>2. {i \in Exported : i < fi} = Exported
        BY <1>0, <3>1, FuncsFacts DEF Exported
      <3>. QED
        BY <2>2, <3>2
    <2>4. ASSUME NEW i \in Exported, NEW j \in Exported, i < j
          PROVE  Sig(i) # Sig(j)
      <3>1. PICK k \in 1..Len(iface) : g[k] = i
        BY <2>3
      <3>2. PICK l \in 1..Len(iface) : g[l] = j
        BY <2>3
      <3>3. k # l
        BY <2>4, <3>1, <3>2
      <3>4. DistinctBefore(Len(iface) + 1)
        BY <1>3 DEF CInv
      <3>. QED
        BY <2>2, <3>1, <3>2, <3>3, <3>4 DEF DistinctBefore
    <2>. QED
      BY <1>3, <2>1, <2>4 DEF ReferenceOutcome, Sig
  <1>. QED
    BY <1>1, <1>2, <1>3 DEF CInv, Terminated

LEMMA NextCInv == CInv /\ [Next]_cvars => CInv'
  <1>. SUFFICES ASSUME CInv, [Next]_cvars PROVE CInv'
    OBVIOUS
  <1>1. CASE UNCHANGED cvars
    <2>1. /\ Funcs' = Funcs /\ pc' = pc /\ fi' = fi /\ pi' = pi
          /\ iface' = iface /\ ci' = ci /\ seen' = seen
      BY <1>1 DEF cvars
    <2>2. /\ CleanBefore(fi, pi)' = CleanBefore(fi, pi)
          /\ CleanBefore(fi, 1)' = CleanBefore(fi, 1)
      BY <2>1 DEF CleanBefore, Exported, Bad
    <2>3. DistinctBefore(ci)' = DistinctBefore(ci)
      BY <2>1 DEF DistinctBefore
    <2>. QED
      BY <2>1, <2>2, <2>3, FrameCInv DEF CInv
  <1>. QED
    BY <1>1, SkipFunctionCInv, CheckParamCInv, PushFunctionCInv, EndFunctionsCInv,
       CheckCollisionCInv, GenerateCInv DEF Next

(* For every source file and every selector function, when                *)
(* parse_public_interface stops it has thrown the error of the first      *)
(* rejected parameter in source order, or "hash collision" exactly when    *)
(* two exported functions share a selector, or generated the bindings.     *)
THEOREM CompileMatchesReferenceTheorem == Spec => []CompileMatchesReference
  <1>1. Init => CInv
    BY InitCInv
  <1>2. CInv /\ [Next]_cvars => CInv'
    BY NextCInv
  <1>3. CInv => CompileMatchesReference
    BY CInvCorrect
  <1>. QED
    BY <1>1, <1>2, <1>3, PTL DEF Spec

=============================================================================
