---------------------------- MODULE MCCompiler ----------------------------
EXTENDS Compiler

(* A parameter as getParameterTypes returns it.                            *)
Param(typeText, arrayType, isArray, isTuple, isRest, isOptional) ==
  [typeText |-> typeText, arrayType |-> arrayType, isArray |-> isArray,
   isTuple |-> isTuple, isRestParameter |-> isRest,
   isOptionalParameter |-> isOptional, isParameterProperty |-> FALSE]

(* u64, string[], number, an optional u64, a type named constructor, a    *)
(* tuple and a rest u64[].                                                 *)
MCParams ==
  { Param("u64", "", FALSE, FALSE, FALSE, FALSE),
    Param("string[]", "string", TRUE, FALSE, FALSE, FALSE),
    Param("number", "", FALSE, FALSE, FALSE, FALSE),
    Param("u64", "", FALSE, FALSE, FALSE, TRUE),
    Param("constructor", "", FALSE, FALSE, FALSE, FALSE),
    Param("[u64, u64]", "", FALSE, TRUE, FALSE, FALSE),
    Param("u64[]", "u64", TRUE, FALSE, TRUE, FALSE) }

MCNames == {"create_post", "create_post_reply"}

MCParamLists == {<< >>} \cup [1..1 -> MCParams] \cup [1..2 -> MCParams]

MCFunctions == [exported : BOOLEAN, name : MCNames, params : MCParamLists]

(* Source files of up to two functions; TypeScript rejects two functions  *)
(* of the same name.                                                       *)
MCInputs == {<< >>} \cup [1..1 -> MCFunctions]
              \cup {s \in [1..2 -> MCFunctions] : s[1].name # s[2].name}

(* Two selectors: signatures with one parameter share one, the others the *)
(* other, so distinct signatures collide.                                  *)
MCSelector ==
  [s \in [name : MCNames, types : UNION {[1..n -> {p.typeText : p \in MCParams}] : n \in 0..2}]
     |-> IF Len(s.types) = 1 THEN "0x1" ELSE "0x2"]

=============================================================================
