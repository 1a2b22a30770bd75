------------------------------ MODULE Compiler ------------------------------
(***************************************************************************)
(* parse_public_interface of the bindings generator (src/compiler/         *)
(* compiler.ts): it walks the functions of an application's source file,  *)
(* checks every parameter of an exported one, builds its raw signature    *)
(* name(types) and its selector (the first 4 bytes of keccak256), rejects *)
(* the file when two selectors are equal, and generates a dispatcher that *)
(* calls a function when the call's "signature" field equals its name.     *)
(*                                                                         *)
(* A function is a record [exported, name, params]; a parameter is the     *)
(* record getParameterTypes returns (compiler.ts:268-303).  keccak256 is   *)
(* the constant Selector, from raw signatures to a set of selectors small  *)
(* enough for collisions to happen.                                        *)
(***************************************************************************)
EXTENDS Naturals, Sequences

CONSTANTS Inputs,    \* the source files: sequences of functions
          Selector   \* the selector of a raw signature

(* What getParameterTypes returns for a parameter, and a function as the  *)
(* loop reads it: isExported(), getName() and its parameters, in order.    *)
ParamRec == [typeText : STRING, arrayType : STRING, isArray : BOOLEAN,
             isTuple : BOOLEAN, isRestParameter : BOOLEAN,
             isOptionalParameter : BOOLEAN, isParameterProperty : BOOLEAN]
FunctionRec == [exported : BOOLEAN, name : STRING, params : Seq(ParamRec)]

ASSUME CompilerAssumption == Inputs \subseteq Seq(FunctionRec)

(* The keys of supportedParameterTypes, and the keys an object literal     *)
(* inherits from Object.prototype, whose values are truthy functions.      *)
Supported == {"u32", "u64", "i32", "i64", "string", "boolean"}
Inherited == {"constructor", "toString", "valueOf", "hasOwnProperty",
              "isPrototypeOf", "propertyIsEnumerable", "toLocaleString", "__proto__"}

(* supportedParameterTypes[key] is truthy.                                 *)
IsSupported(key) == key \in Supported \cup Inherited

(* The raw signature `${functionName}(${param_sig})`, as its name and the  *)
(* sequence of the parameters' type texts.                                 *)
RawSignature(f) == [name |-> f.name, types |-> [k \in DOMAIN f.params |-> f.params[k].typeText]]

(* The error the checks of one parameter throw, in their order            *)
(* (compiler.ts:97-127), or "ok".                                          *)
ParamError(p) ==
  CASE p.isTuple             -> "isTuple"
    [] p.isRestParameter     -> "isRestParameter"
    [] p.isOptionalParameter -> "isOptionalParameter"
    [] p.isParameterProperty -> "isParameterProperty"
    [] p.isArray /\ ~IsSupported(p.arrayType) -> "unsupportedArrayType"
    [] ~p.isArray /\ ~IsSupported(p.typeText) -> "unsupportedType"
    [] OTHER -> "ok"

VARIABLES Funcs,   \* sourceFile.getFunctions(), in order
          pc,      \* "params", "collisions", "generated" or an error
          fi,      \* the function the for loop is at
          pi,      \* the parameter the forEach is at
          iface,   \* publicInterface
          ci,      \* the entry the collision loop is at
          seen     \* the keys of seenSigs

cvars == <<Funcs, pc, fi, pi, iface, ci, seen>>

Init ==
  /\ Funcs \in Inputs
  /\ pc = "params" /\ fi = 1 /\ pi = 1
  /\ iface = << >> /\ ci = 1 /\ seen = {}

(* A function that is not exported is passed over.                         *)
SkipFunction ==
  /\ pc = "params" /\ fi <= Len(Funcs)
  /\ ~Funcs[fi].exported
  /\ fi' = fi + 1
  /\ UNCHANGED <<Funcs, pc, pi, iface, ci, seen>>

(* One iteration of parameters.forEach: the checks, then the type text    *)
(* is appended to param_sig (kept as the prefix Funcs[fi].params[1..pi]).  *)
CheckParam ==
  /\ pc = "params" /\ fi <= Len(Funcs)
  /\ Funcs[fi].exported /\ pi <= Len(Funcs[fi].params)
  /\ LET err == ParamError(Funcs[fi].params[pi]) IN
       IF err = "ok" THEN pi' = pi + 1 /\ UNCHANGED pc
                     ELSE pc' = err /\ UNCHANGED pi
  /\ UNCHANGED <<Funcs, fi, iface, ci, seen>>

(* After the forEach: the raw signature and its selector are pushed onto   *)
(* publicInterface (compiler.ts:134-143).                                  *)
PushFunction ==
  /\ pc = "params" /\ fi <= Len(Funcs)
  /\ Funcs[fi].exported /\ pi > Len(Funcs[fi].params)
  /\ iface' = Append(iface, [function_signature |-> Selector[RawSignature(Funcs[fi])],
                             functionName |-> Funcs[fi].name])
  /\ fi' = fi + 1 /\ pi' = 1
  /\ UNCHANGED <<Funcs, pc, ci, seen>>

EndFunctions ==
  /\ pc = "params" /\ fi > Len(Funcs)
  /\ pc' = "collisions"
  /\ UNCHANGED <<Funcs, fi, pi, iface, ci, seen>>

(* Mutant: seenSigs.set runs before seenSigs.has.                          *)
CheckCollisionSetFirst ==
  /\ pc = "collisions" /\ ci <= Len(iface)
  /\ IF iface[ci].function_signature \in seen \cup {iface[ci].function_signature}
       THEN pc' = "hash collision" /\ UNCHANGED <<ci, seen>>
       ELSE /\ seen' = seen \cup {iface[ci].function_signature}
            /\ ci' = ci + 1 /\ UNCHANGED pc
  /\ UNCHANGED <<Funcs, fi, pi, iface>>

(* One iteration of the collision loop (compiler.ts:148-159): a selector   *)
(* already seen breaks out and throws "hash collision".                    *)
CheckCollision ==
  /\ pc = "collisions" /\ ci <= Len(iface)
  /\ IF iface[ci].function_signature \in seen
       THEN pc' = "hash collision" /\ UNCHANGED <<ci, seen>>
       ELSE /\ seen' = seen \cup {iface[ci].function_signature}
            /\ ci' = ci + 1 /\ UNCHANGED pc
  /\ UNCHANGED <<Funcs, fi, pi, iface>>

(* No collision: the bindings are generated and the file written.          *)
Generate ==
  /\ pc = "collisions" /\ ci > Len(iface)
  /\ pc' = "generated"
  /\ UNCHANGED <<Funcs, fi, pi, iface, ci, seen>>

Next == SkipFunction \/ CheckParam \/ PushFunction \/ EndFunctions
          \/ CheckCollision \/ Generate

Spec == Init /\ [][Next]_cvars

-----------------------------------------------------------------------------
(***************************************************************************)
(* The reference: what the generator should answer for Funcs, stated over *)
(* the whole input rather than loop by loop.                               *)
(***************************************************************************)
Exported == {i \in DOMAIN Funcs : Funcs[i].exported}

(* The positions (function, parameter) of rejected parameters.             *)
BadParams == {b \in UNION {{<<i, k>> : k \in DOMAIN Funcs[i].params} : i \in Exported} :
                ParamError(Funcs[b[1]].params[b[2]]) # "ok"}

Earlier(a, b) == a[1] < b[1] \/ (a[1] = b[1] /\ a[2] < b[2])

ReferenceOutcome ==
  IF BadParams # {}
    THEN LET b == CHOOSE b \in BadParams : \A c \in BadParams \ {b} : Earlier(b, c)
         IN  ParamError(Funcs[b[1]].params[b[2]])
  ELSE IF \E i, j \in Exported :
            i < j /\ Selector[RawSignature(Funcs[i])] = Selector[RawSignature(Funcs[j])]
    THEN "hash collision"
  ELSE "generated"

Terminated == pc \notin {"params", "collisions"}

(* The loops end with the outcome of the reference: the first rejected    *)
(* parameter in source order throws its own error, and otherwise the file *)
(* is rejected exactly when two exported functions share a selector.       *)
CompileMatchesReference == Terminated => pc = ReferenceOutcome

(* The dispatcher generated for an accepted file reads every parameter     *)
(* with one of the types listed in the error message "Supported types     *)
(* (u32, u64, i32, i64, string, boolean)", or an array of one.             *)
SupportedTypesOnly ==
  pc = "generated" =>
    \A i \in Exported : \A k \in DOMAIN Funcs[i].params :
      LET p == Funcs[i].params[k] IN
      IF p.isArray THEN p.arrayType \in Supported ELSE p.typeText \in Supported

=============================================================================
