------------------------------ MODULE Formula ------------------------------
(***************************************************************************)
(* The price formula a company types: how it is cut into tokens, evaluated *)
(* and written out again with figures in place of names.                   *)
(*                                                                         *)
(* A text is a sequence of lexemes: a run of digits, a name, a unit, a     *)
(* sign or a space.  Three digits make a group of `Thousand`, so a comma   *)
(* between runs either groups digits or separates the values of a call.    *)
(* Values are fractions <<n, d>>, d > 0; decimal points, the aliases of a  *)
(* name and the two words "base price" are left out.                       *)
(*                                                                         *)
(* The module builds formulas as trees; the value of a tree is the         *)
(* reference for what its text evaluates to.                               *)
(***************************************************************************)
EXTENDS Integers, Sequences, FiniteSets, SequencesExt

CONSTANTS
  Thousand,      \* what three digits can count to
  Numbers,       \* the numbers that occur in a formula
  Scope,         \* the value of each name
  Given,         \* the names written out as figures
  GroupInCalls,  \* whether a call may hold a number of a thousand or more
  None

VARIABLE tree, done

vars == <<tree, done>>
Names == DOMAIN Scope
Functions == {"max", "min", "round", "floor", "ceil", "abs"}

-----------------------------------------------------------------------------
(* Fractions.                                                              *)

Int2(n) == <<n, 1>>
Plus(a, b) == <<a[1] * b[2] + b[1] * a[2], a[2] * b[2]>>
Neg(a) == <<-a[1], a[2]>>
Times(a, b) == <<a[1] * b[1], a[2] * b[2]>>
Over(a, b) == IF b[1] < 0 THEN <<-a[1] * b[2], -a[2] * b[1]>>
              ELSE <<a[1] * b[2], a[2] * b[1]>>
Less(a, b) == a[1] * b[2] < b[1] * a[2]
Same(a, b) == IF None \in {a, b} THEN a = b ELSE a[1] * b[2] = b[1] * a[2]
Floor(a) == Int2(a[1] \div a[2])
Abs(a) == IF a[1] < 0 THEN Neg(a) ELSE a
HalfUp(a) == LET up == Floor(Plus(Abs(a), <<1, 2>>))
             IN IF a[1] < 0 THEN Neg(up) ELSE up

Apply(op, a, b) ==
  IF None \in {a, b} THEN None
  ELSE CASE op = "+" -> Plus(a, b)
         [] op = "-" -> Plus(a, Neg(b))
         [] op = "/" -> IF b[1] = 0 THEN None ELSE Over(a, b)
         [] OTHER -> Times(a, b)

Call(f, args) ==
  IF \E i \in DOMAIN args : args[i] = None THEN None
  ELSE CASE f = "max" -> FoldLeft(LAMBDA x, y : IF Less(x, y) THEN y ELSE x,
                                  args[1], args)
         [] f = "min" -> FoldLeft(LAMBDA x, y : IF Less(y, x) THEN y ELSE x,
                                  args[1], args)
         [] f = "round" -> HalfUp(args[1])
         [] f = "floor" -> Floor(args[1])
         [] f = "ceil" -> Neg(Floor(Neg(args[1])))
         [] OTHER -> Abs(args[1])

-----------------------------------------------------------------------------
(* The text.  A run of digits knows whether it is three long.              *)

Digits(n, three) == [k |-> "digits", n |-> n, three |-> three]
Sign(s) == [k |-> "op", o |-> s]
Name(x) == [k |-> "id", x |-> x]
Space == [k |-> "space"]
Unit == [k |-> "unit"]

Plain(n) == <<Digits(n, n < Thousand /\ n * 10 >= Thousand)>>

(* formatValue: the digits in groups of three.                             *)
RECURSIVE Grouped(_)
Grouped(n) ==
  IF n < Thousand THEN Plain(n)
  ELSE Grouped(n \div Thousand) \o <<Sign(","), Digits(n % Thousand, TRUE)>>

Is(t, i, kind) == i \in DOMAIN t /\ t[i].k = kind
IsOp(t, i, ops) == Is(t, i, "op") /\ t[i].o \in ops

(* The number whose digits so far end at i: a comma groups only before     *)
(* exactly three digits, and never among the values of a call.             *)
JoinsAlways(text, i, inArgs) ==
  IsOp(text, i + 1, {","}) /\ Is(text, i + 2, "digits") /\ text[i + 2].three
Joins(text, i, inArgs) ==
  ~inArgs /\ IsOp(text, i + 1, {","}) /\ Is(text, i + 2, "digits")
  /\ text[i + 2].three

RECURSIVE NumberAt(_, _, _, _)
NumberAt(text, i, inArgs, n) ==
  IF Joins(text, i, inArgs)
  THEN NumberAt(text, i + 2, inArgs, n * Thousand + text[i + 2].n)
  ELSE [n |-> n, end |-> IF Is(text, i + 1, "unit") THEN i + 1 ELSE i]

IsFunction(t, i) == Is(t, i, "id") /\ t[i].x \in Functions

(* Tokens from lexeme i on; `parens` tells, innermost last, which open     *)
(* brackets are a call's.                                                  *)
RECURSIVE Tokenize(_, _, _, _)
Tokenize(text, i, parens, toks) ==
  IF i > Len(text) THEN toks
  ELSE CASE Is(text, i, "space") -> Tokenize(text, i + 1, parens, toks)
         [] Is(text, i, "digits") ->
              LET inArgs == parens # <<>> /\ Last(parens) = "fn"
                  num == NumberAt(text, i, inArgs, text[i].n)
              IN Tokenize(text, num.end + 1, parens,
                          Append(toks, [k |-> "num", n |-> num.n]))
         [] OTHER ->
              LET opens == IF IsFunction(toks, Len(toks)) THEN "fn" ELSE "group"
                  after == CASE IsOp(text, i, {"("}) -> Append(parens, opens)
                             [] IsOp(text, i, {")"}) /\ parens # <<>> -> Front(parens)
                             [] OTHER -> parens
              IN Tokenize(text, i + 1, after, Append(toks, text[i]))

Tokens(text) == Tokenize(text, 1, <<>>, <<>>)

-----------------------------------------------------------------------------
(* The parser: each level returns the value it read, None for a problem,   *)
(* and the token after it.                                                 *)

At(v, i) == [v |-> v, at |-> i]

RECURSIVE Expression(_, _), Term(_, _), Unary(_, _), Primary(_, _),
          MoreTerms(_, _), MoreFactors(_, _), Args(_, _, _)

Expression(t, i) == MoreTerms(t, Term(t, i))
MoreTerms(t, left) ==
  IF ~IsOp(t, left.at, {"+", "-"}) THEN left
  ELSE LET right == Term(t, left.at + 1)
       IN MoreTerms(t, At(Apply(t[left.at].o, left.v, right.v), right.at))

(* Two factors side by side are multiplied.                                *)
StartsFactor(t, i) == Is(t, i, "num") \/ Is(t, i, "id") \/ IsOp(t, i, {"("})

Term(t, i) == MoreFactors(t, Unary(t, i))

MoreFactors(t, left) ==
  IF IsOp(t, left.at, {"*", "/"})
  THEN LET right == Unary(t, left.at + 1)
       IN MoreFactors(t, At(Apply(t[left.at].o, left.v, right.v), right.at))
  ELSE IF StartsFactor(t, left.at)
  THEN LET right == Unary(t, left.at)
       IN MoreFactors(t, At(Apply("*", left.v, right.v), right.at))
  ELSE left

Unary(t, i) ==
  CASE IsOp(t, i, {"-"}) ->
         LET a == Unary(t, i + 1)
         IN At(IF a.v = None THEN None ELSE Neg(a.v), a.at)
    [] IsOp(t, i, {"+"}) -> Unary(t, i + 1)
    [] OTHER -> Primary(t, i)

(* A bracket that is not closed is a problem.                              *)
Closed(t, v, i) == IF IsOp(t, i, {")"}) THEN At(v, i + 1) ELSE At(None, i)

Args(t, i, read) ==
  LET a == Expression(t, i)
      all == Append(read, a.v)
  IN IF IsOp(t, a.at, {","}) THEN Args(t, a.at + 1, all)
     ELSE [all |-> all, at |-> a.at]

Primary(t, i) ==
  CASE Is(t, i, "num") -> At(Int2(t[i].n), i + 1)
    [] IsOp(t, i, {"("}) ->
         LET a == Expression(t, i + 1) IN Closed(t, a.v, a.at)
    [] IsFunction(t, i) /\ IsOp(t, i + 1, {"("}) ->
         LET args == Args(t, i + 2, <<>>)
         IN Closed(t, Call(t[i].x, args.all), args.at)
    [] Is(t, i, "id") /\ t[i].x \in Names -> At(Int2(Scope[t[i].x]), i + 1)
    [] OTHER -> At(None, i + 1)

Evaluate(text) ==
  LET t == Tokens(text)
      whole == Expression(t, 1)
  IN IF whole.at <= Len(t) THEN None ELSE whole.v

-----------------------------------------------------------------------------
(* The formula written out again, the given names as figures.              *)

TokenText(tok) ==
  CASE tok.k = "num" -> Grouped(tok.n)
    [] tok.k = "id" /\ tok.x \in Given -> Grouped(Scope[tok.x])
    [] OTHER -> <<tok>>

(* A sign with nothing, an operator or an open bracket before it.          *)
IsUnary(t, i) ==
  IsOp(t, i, {"-", "+"}) /\ (i = 1 \/ (Is(t, i - 1, "op") /\ ~IsOp(t, i - 1, {")"})))

Tight(t, i) ==
  \/ i = 1 \/ IsUnary(t, i) \/ IsUnary(t, i - 1)
  \/ IsOp(t, i, {")", ","}) \/ IsOp(t, i - 1, {"("})
  \/ IsOp(t, i, {"("}) /\ IsFunction(t, i - 1)

RenderFormula(t) ==
  FlattenSeq([i \in DOMAIN t |->
    (IF Tight(t, i) THEN <<>> ELSE <<Space>>) \o TokenText(t[i])])

-----------------------------------------------------------------------------
(* Formulas as trees, their value, and how a person writes them: brackets  *)
(* where the precedence asks for them, a space or * between factors.       *)

Leaf ==
  {e \in [k : {"num"}, n : Numbers, style : {"plain", "grouped", "unit"}] :
     (e.style = "grouped" => e.n >= Thousand) /\ (e.style = "unit" => e.n < Thousand)}
  \cup [k : {"name"}, x : Names]

RECURSIVE Value(_)
Value(e) ==
  CASE e.k = "num" -> Int2(e.n)
    [] e.k = "name" -> Int2(Scope[e.x])
    [] e.k = "neg" -> LET v == Value(e.a) IN IF v = None THEN None ELSE Neg(v)
    [] e.k = "bin" -> Apply(e.op, Value(e.a), Value(e.b))
    [] OTHER -> Call(e.f, [i \in DOMAIN e.args |-> Value(e.args[i])])

Level(e) ==
  CASE e.k = "bin" /\ e.op \in {"+", "-"} -> 1
    [] e.k = "bin" -> 2
    [] e.k = "neg" -> 3
    [] OTHER -> 4

(* In a call a person writes no separators: there a comma means something else. *)
RECURSIVE Write(_, _)
Write(e, inCall) ==
  LET in(x, level) == IF Level(x) >= level THEN Write(x, inCall)
                      ELSE <<Sign("(")>> \o Write(x, FALSE) \o <<Sign(")")>>
      number == IF e.style = "grouped" /\ ~inCall THEN Grouped(e.n) ELSE Plain(e.n)
  IN CASE e.k = "num" -> number \o (IF e.style = "unit" THEN <<Unit>> ELSE <<>>)
       [] e.k = "name" -> <<Name(e.x)>>
       [] e.k = "neg" -> <<Sign("-")>> \o in(e.a, 3)
       [] e.k = "bin" /\ Level(e) = 1 -> in(e.a, 1) \o <<Sign(e.op)>> \o in(e.b, 2)
       [] e.k = "bin" /\ e.op = "beside" -> in(e.a, 2) \o <<Space>> \o in(e.b, 4)
       [] e.k = "bin" -> in(e.a, 2) \o <<Sign(e.op)>> \o in(e.b, 3)
       [] OTHER ->
            <<Name(e.f), Sign("(")>>
            \o FlattenSeq([i \in DOMAIN e.args |->
                 (IF i = 1 THEN <<>> ELSE <<Sign(",")>>) \o Write(e.args[i], TRUE)])
            \o <<Sign(")")>>

Bin(a, b) == {[k |-> "bin", op |-> op, a |-> a, b |-> b] :
              op \in {"+", "-", "*", "/", "beside"}}
Calls(a, b) == {[k |-> "call", f |-> f, args |-> <<a, b>>] : f \in {"max", "min"}}
               \cup {[k |-> "call", f |-> f, args |-> <<a>>] :
                     f \in Functions \ {"max", "min"}}

Of(a, b) == Bin(a, b) \cup Calls(a, b) \cup {[k |-> "neg", a |-> a]}

Init ==
  /\ \E a, b \in Leaf : tree \in {a} \cup Of(a, b)
  /\ done = FALSE

(* A leaf, or an operation on two numbers.                                 *)
Others ==
  LET a == CHOOSE e \in Leaf : e.k = "num"
      b == CHOOSE e \in Leaf : e.k = "name"
  IN  Leaf \cup Bin(a, b)

(* The formula becomes a part of a longer one.                             *)
Extend ==
  /\ ~done
  /\ done' = TRUE
  /\ \E other \in Others : tree' \in Of(tree, other) \cup Of(other, tree)

Next == Extend
Spec == Init /\ [][Next]_vars

-----------------------------------------------------------------------------
(* Properties                                                              *)

(* Whether a call holds, somewhere in it, a figure written in two groups.  *)
RECURSIVE Big(_), BigCall(_)
Big(e) ==
  CASE e.k = "num" -> e.n >= Thousand
    [] e.k = "name" -> e.x \in Given /\ Scope[e.x] >= Thousand
    [] e.k = "neg" -> Big(e.a)
    [] e.k = "bin" -> Big(e.a) \/ Big(e.b)
    [] OTHER -> \E i \in DOMAIN e.args : Big(e.args[i])
BigCall(e) ==
  CASE e.k \in {"num", "name"} -> FALSE
    [] e.k = "neg" -> BigCall(e.a)
    [] e.k = "bin" -> BigCall(e.a) \/ BigCall(e.b)
    [] OTHER -> Big(e)

(* A formula evaluates to what it says: precedence, the sign, factors side *)
(* by side, separators and units are read the way they are written, and a  *)
(* division by zero anywhere in it is refused (evaluateFormula).           *)
ReadsAsWritten == Same(Evaluate(Write(tree, FALSE)), Value(tree))

(* Written out with figures for names it is still a formula of the same    *)
(* value (renderFormula): the working printed beside a price gives it.     *)
RenderKeepsValue ==
  GroupInCalls \/ ~BigCall(tree) =>
    Same(Evaluate(RenderFormula(Tokens(Write(tree, FALSE)))), Value(tree))
=============================================================================
