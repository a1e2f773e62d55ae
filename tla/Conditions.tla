----------------------------- MODULE Conditions -----------------------------
(***************************************************************************)
(* Structured predicates over a payload, a context and a plugin config:    *)
(* src/internal/router/conditions.                                         *)
(*                                                                         *)
(* A JSON object is kept flat, as a function from paths (sequences of      *)
(* segment names) to scalar values; a path is an object of it when it is a *)
(* proper prefix of a path in its domain.  Empty objects do not occur.     *)
(* Regular expressions are literal patterns, and letter case is left out.  *)
(***************************************************************************)
EXTENDS Integers, Sequences, SequencesExt

EmptyMap == [p \in {} |-> 0]

Num(n) == [t |-> "num", n |-> n, s |-> <<>>]
Str(s) == [t |-> "str", n |-> 0, s |-> s]
Nil == [t |-> "nil", n |-> 0, s |-> <<>>]
Object == [t |-> "obj", n |-> 0, s |-> <<>>]

(* A condition: an atomic predicate, or one of all, any, not. *)
Blank == [path |-> <<>>, op |-> "", value |-> Nil, list |-> <<>>,
          all |-> <<>>, any |-> <<>>, not |-> <<>>]
Atom(path, op, value) == [Blank EXCEPT !.path = path, !.op = op, !.value = value]
InList(path, list) == [Blank EXCEPT !.path = path, !.op = "in", !.list = list]
AllOf(cs) == [Blank EXCEPT !.all = cs]
AnyOf(cs) == [Blank EXCEPT !.any = cs]
NotOf(c) == [Blank EXCEPT !.not = <<c>>]

Roots == {"payload", "context", "config"}
NumericOps == {"gt", "gte", "lt", "lte"}
StringOps == {"contains", "startswith", "endswith", "regex"}
SupportedOps == {"exists", "eq", "neq", "in"} \union NumericOps \union StringOps

MaxDepthDefault == 3
MaxPredicatesDefault == 20

---------------------------------------------------------------------------
(* What a dotted path yields in a scope: a scalar, an object, nothing, or an
   error when its root is none of the three. *)
ResolvePath(scope, path) ==
  IF path = <<>> \/ Head(path) \notin Roots
    THEN [err |-> TRUE, present |-> FALSE, value |-> Nil]
    ELSE LET m == scope[Head(path)]
             rest == Tail(path)
             inner == \E p \in DOMAIN m : IsStrictPrefix(rest, p)
         IN [err |-> FALSE,
             present |-> rest = <<>> \/ rest \in DOMAIN m \/ inner,
             value |-> IF rest \in DOMAIN m THEN m[rest]
                       ELSE IF rest = <<>> \/ inner THEN Object ELSE Nil]

Truth(b) == IF b THEN "true" ELSE "false"

compareNumbers(op, l, r) ==
  CASE op = "gt" -> l > r [] op = "gte" -> l >= r
    [] op = "lt" -> l < r [] op = "lte" -> l <= r

compareStrings(op, l, r) ==
  CASE op = "contains" -> \E i \in 0..Len(l) : IsPrefix(r, SubSeq(l, i + 1, Len(l)))
    [] op = "startswith" -> IsPrefix(r, l)
    [] op = "endswith" -> IsSuffix(r, l)
    [] op = "regex" -> l = r

(* One predicate: eq and neq compare an absent path as nil, the ordering and
   string operators fail on a value of the wrong type, an absent one included. *)
evalAtomic(c, scope) ==
  LET got == ResolvePath(scope, c.path)
      v == got.value
  IN CASE got.err -> "error"
       [] ~got.err /\ c.op = "exists" -> Truth(got.present)
       [] ~got.err /\ c.op = "eq" -> Truth(v = c.value)
       [] ~got.err /\ c.op = "neq" -> Truth(v # c.value)
       [] ~got.err /\ c.op = "in" -> Truth(\E i \in DOMAIN c.list : c.list[i] = v)
       [] ~got.err /\ c.op \in NumericOps ->
            IF v.t # "num" \/ c.value.t # "num" THEN "error"
            ELSE Truth(compareNumbers(c.op, v.n, c.value.n))
       [] ~got.err /\ c.op \in StringOps ->
            IF v.t # "str" \/ c.value.t # "str" THEN "error"
            ELSE Truth(compareStrings(c.op, v.s, c.value.s))
       [] OTHER -> "error"

(* The first result of rs that settles a conjunction or a disjunction. *)
FirstOther(rs, neutral) ==
  LET k == {i \in DOMAIN rs : rs[i] # neutral}
  IN IF k = {} THEN neutral ELSE rs[CHOOSE i \in k : \A j \in k : i <= j]

(* Evaluation is left to right and stops at the first result that decides. *)
RECURSIVE Eval(_, _)
Eval(c, scope) ==
  CASE c.all # <<>> -> FirstOther([i \in DOMAIN c.all |-> Eval(c.all[i], scope)], "true")
    [] c.all = <<>> /\ c.any # <<>> ->
         FirstOther([i \in DOMAIN c.any |-> Eval(c.any[i], scope)], "false")
    [] c.all = <<>> /\ c.any = <<>> /\ c.not # <<>> ->
         LET r == Eval(c.not[1], scope)
         IN IF r = "error" THEN r ELSE Truth(r = "false")
    [] OTHER -> evalAtomic(c, scope)

(* Whether some predicate of the tree reads from the given root. *)
RECURSIVE ReferencesRoot(_, _)
ReferencesRoot(c, root) ==
  \/ c.path # <<>> /\ Head(c.path) = root
  \/ \E s \in Range(c.all) \union Range(c.any) \union Range(c.not) : ReferencesRoot(s, root)

RECURSIVE CountPredicates(_)
CountPredicates(c) ==
  LET subs == c.all \o c.any \o c.not
  IN 1 + FoldSeq(LAMBDA s, n : n + CountPredicates(s), 0, subs)

validatePath(path) == Len(path) >= 2 /\ Head(path) \in Roots

RECURSIVE ValidTree(_, _)
ValidTree(c, depth) ==
  LET atomic == c.path # <<>> \/ c.op # "" \/ c.value # Nil \/ c.list # <<>>
      modes == <<atomic, c.all # <<>>, c.any # <<>>, c.not # <<>> >>
  IN /\ depth <= MaxDepthDefault
     /\ \E i \in DOMAIN modes : modes[i] /\ \A j \in DOMAIN modes : modes[j] => i = j
     /\ \A s \in Range(c.all \o c.any \o c.not) : ValidTree(s, depth + 1)
     /\ atomic => /\ validatePath(c.path)
                  /\ c.op \in SupportedOps
                  /\ c.op = "exists" => c.value = Nil /\ c.list = <<>>
                  /\ c.op = "in" => c.value = Nil
                  /\ c.op \notin {"exists", "in"} => c.value # Nil
                  /\ c.op \in StringOps => c.value.t = "str"

(* Accepted at load time: the shape, the limits, the operands of each operator. *)
Validate(c) == ValidTree(c, 1) /\ CountPredicates(c) <= MaxPredicatesDefault
=============================================================================
