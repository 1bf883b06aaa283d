-------------------------- MODULE SymbolOwnership --------------------------
(***************************************************************************)
(* Who owns which reference while a symbolic expression is debugged        *)
(* (symbll.py) and the shell's definitions change under it (bllsh: def,    *)
(* undef, debug, step).  Values are left to SymbolicMachine; operators,    *)
(* partial and a handle references as they do for bll (module Ownership).  *)
(*                                                                         *)
(* A table of symbols is a counted cell of its own: its values are its     *)
(* children, each with the name it is found by.  A function has two, its   *)
(* parameters and its body.  The global table is the shell's and is lent   *)
(* to the work item; the dummy one is the work item's.                     *)
(***************************************************************************)
EXTENDS Ownership

CONSTANTS Exprs,        \* what is debugged, as a tree; an if has a proper list of arguments
          Sessions,     \* sequences of what def was given before
          Definitions,  \* what def is given: [name, params, body], the last two trees
          MostEdits,    \* how often def and undef are given while there is a work item
          MostOverruns  \* how often a step ends over a limit

ASSUME EditsAssumption == MostEdits \in Nat /\ MostOverruns \in Nat

VARIABLES
    session,     \* a configuration
    debugging, edits, overruns     \* debugging: "before", a work item is "held", "after"

sessionVars == <<session, debugging, edits, overruns>>

(***************************************************************************)
(* Tables.                                                                 *)
(***************************************************************************)
Table == Cell("table", <<>>, <<>>)

\* The places of a name among a table's children.
Places(cell, name) == {k \in DOMAIN cell.kids : cell.n[k] = name}
Has(c, t, name)    == Places(c.heap[t], name) # {}
Found(c, t, name)  ==
    LET cell == c.heap[t]
        zip  == [k \in DOMAIN cell.kids |-> <<cell.n[k], cell.kids[k]>>]
        hits == SelectSeq(zip, LAMBDA e : e[1] = name)
    IN  [k \in DOMAIN hits |-> hits[k][2]]

Removed(c, t, name) ==
    LET cell == c.heap[t]
        zip  == [k \in DOMAIN cell.kids |-> <<cell.n[k], cell.kids[k]>>]
        rest == SelectSeq(zip, LAMBDA e : e[1] # name)
    IN  [c EXCEPT !.heap[t] = [@ EXCEPT !.n    = [k \in DOMAIN rest |-> rest[k][1]],
                                        !.kids = [k \in DOMAIN rest |-> rest[k][2]]]]

unset(c, t, name) == Drop(Removed(c, t, name), Found(c, t, name))

\* Takes the elements over and releases what the name stood for before.
set(c, t, name, els) ==
    LET c1 == unset(c, t, name)
    IN  [c1 EXCEPT !.heap[t].n = @ \o [k \in DOMAIN els |-> name], !.heap[t].kids = @ \o els]

\* A new table of the values in a list, the first of a name; the list is consumed.
RECURSIVE FromList(_, _, _)
FromList(c, t, list) ==
    LET v    == Kid(c, list, 1)
        c1   == Steal(c, list)
        name == Number(c, Kid(c, v, 2))
        c2   == IF Has(c1, t, name) THEN c1
                ELSE set(Bump(c1, <<Kid(c, v, 1)>>), t, name, <<Kid(c, v, 1)>>)
    IN  IF IsCons(c, list) THEN FromList(Drop(c2, <<v>>), t, Kid(c, list, 2))
        ELSE Drop(c, <<list>>)
from_list(c, list) == LET c1 == New(c, Table) IN Delivers(FromList(c1, Latest(c1), list), Latest(c1))

(***************************************************************************)
(* What the handlers are written with; c also has globals and dummy.       *)
(***************************************************************************)
IsFuncCell(c, el) == IsFunc(c, el) \/ Kind(c, el) \in {"if", "userfunc", "report", "symeval"}
IsSymbol(c, el)   == Kind(c, el) = "symbol"

Push(c, fn, args, env) == [c EXCEPT !.stack = Append(@, Frame(fn, args, env))]
PushNew(c, kind, state, args, env) ==     \* takes the state over
    LET c1 == Func(c, kind, 0, state) IN Push(c1, Latest(c1), args, env)

sym_eval(c, expr, env) == PushNew(Bump(c, <<Nil>>), "symeval", Nil, expr, env)
sym_fin(c, value)      == PushNew(Bump(c, <<Nil, c.dummy>>), "fin", Nil, value, c.dummy)
sym_error(c)           == LET c1 == New(c, Cell("error", 0, <<>>)) IN sym_fin(c1, Latest(c1))

\* The first of the arguments is evaluated, the frame waiting for it below.
SymNextArg(c, kind, state, args, env) ==
    LET c1 == PushNew(Steal(c, args), kind, state, Kid(c, args, 2), env)
    IN  sym_eval(Bump(c1, <<env>>), Kid(c, args, 1), env)

\* Mutant: the table's own references are handed out.
UserFuncLent(c, params, body) ==
    LET c1 == New(Bump(c, <<Nil>>), Cons(params, Nil))
        c2 == New(c1, Cons(body, Latest(c1)))
    IN  DeliversNew(Func(c2, "userfunc", 0, Latest(c2)))

\* (BODY PARAMS . SATISFIED), nothing satisfied yet.
UserFunc(c, params, body) ==
    LET c1 == New(Bump(c, <<body, params, Nil>>), Cons(params, Nil))
        c2 == New(c1, Cons(body, Latest(c1)))
    IN  DeliversNew(Func(c2, "userfunc", 0, Latest(c2)))

BuiltIn == [if |-> "if", q |-> "quote", report |-> "report"]

\* Built-in names, then local ones, then global ones.
ResolveSymbol(c, local, name) ==
    LET global == Found(c, c.globals, name)
    IN  IF name \in DOMAIN BuiltIn THEN DeliversNew(Func(Bump(c, <<Nil>>), BuiltIn[name], 0, Nil))
        ELSE IF Has(c, local, name) THEN Shared(c, Found(c, local, name)[1])
        ELSE IF global # <<>> THEN UserFunc(c, global[1], global[2])
        ELSE Nothing(c)

(***************************************************************************)
(* The handlers.                                                           *)
(***************************************************************************)
SymEvalStep(c0, f) ==
    LET c    == Drop(c0, <<f.state>>)
        e    == f.args
        op   == Kid(c, e, 1)
        args == Kid(c, e, 2)
        c1   == Steal(c, e)
        r    == ResolveSymbol(c1, f.env, Number(c, op))
        v    == ResolveSymbol(c, f.env, Number(c, e))
        bad  == sym_error(Drop(c1, <<op, args, f.env>>))
    IN  CASE Kind(c, e) \in {"atom", "error"} -> sym_fin(Drop(c, <<f.env>>), e)
          [] IsSymbol(c, e) -> IF v.el = None THEN sym_error(Drop(c, <<e, f.env>>))
                               ELSE Drop(sym_fin(v.c, v.el), <<e, f.env>>)
          [] IsCons(c, e) ->
                IF ~IsSymbol(c, op) THEN bad
                ELSE IF r.el = None THEN bad
                ELSE IF IsFuncCell(r.c, r.el) THEN Drop(Push(r.c, r.el, args, f.env), <<op>>)
                ELSE sym_error(Drop(r.c, <<r.el, args, f.env, op>>))
          [] OTHER -> sym_error(Drop(c, <<e, f.env>>))

IfStep(c, f) ==
    IF IsCons(c, f.args) THEN SymNextArg(c, "if", f.state, f.args, f.env)
    ELSE sym_error(Drop(c, <<f.state, f.args, f.env>>))

IfTakes(c, value, yes, no, env) ==
    Drop(IF IsNil(c, value) THEN sym_eval(Drop(c, <<yes>>), no, env)
         ELSE sym_eval(Drop(c, <<no>>), yes, env),
         <<value>>)

\* Takes the head off a list of arguments; one that is missing is an atom.
Branch(c, args, missing) ==
    IF IsCons(c, args) THEN [c |-> Steal(c, args), el |-> Kid(c, args, 1), rest |-> Kid(c, args, 2)]
    ELSE [c |-> Bump(c, <<missing>>), el |-> missing, rest |-> args]

IfBranches(first, second, f, value) ==
    LET c == second.c
    IN  IF IsNil(c, second.rest)
        THEN IfTakes(Drop(c, <<second.rest>>), value, first.el, second.el, f.env)
        ELSE sym_error(Drop(c, <<first.el, second.el, value, second.rest, f.env>>))

\* A branch that is missing is true or nil; the arguments are a proper list.
IfFeedback(c, f, value) ==
    LET first == Branch(Drop(c, <<f.state>>), f.args, One)
    IN  IfBranches(first, Branch(first.c, first.rest, Nil), f, value)

\* The first value reported is the last of the list, and the report's value.
RECURSIVE LastReported(_, _)
LastReported(c, state) == IF ~IsCons(c, state) THEN state
                          ELSE IF IsCons(c, Kid(c, state, 2)) THEN LastReported(c, Kid(c, state, 2))
                          ELSE Kid(c, state, 1)

ReportStep(c, f) ==
    LET last == LastReported(c, f.state)
    IN  IF IsNil(c, f.args)
        THEN sym_fin(Drop(Bump(c, <<last>>), <<f.env, f.state, f.args>>), last)
        ELSE IF IsCons(c, f.args) THEN SymNextArg(c, "report", f.state, f.args, f.env)
        ELSE sym_error(Drop(c, <<f.env, f.state, f.args>>))

ReportFeedback(c, f, value) ==
    LET c1 == New(c, Cons(value, f.state)) IN PushNew(c1, "report", Latest(c1), f.args, f.env)

\* The state taken apart: the body, the parameters to come and those satisfied.
Parts(c, state) == LET rest == Kid(c, state, 2)
                   IN  <<Kid(c, state, 1), Kid(c, rest, 1), Kid(c, rest, 2)>>
Apart(c, state) == Steal(Steal(c, state), Kid(c, state, 2))
\* Takes the three over again.
Together(c, parts) == LET c1 == New(c, Cons(parts[2], parts[3])) IN New(c1, Cons(parts[1], Latest(c1)))

UserStep(c0, f) ==
    LET parts    == Parts(c0, f.state)
        c        == Apart(c0, f.state)
        dangling == parts[2]
        c1       == Drop(c, <<f.env, f.args, dangling>>)
        local    == from_list(c1, parts[3])
        again    == Together(c, parts)
        refuse   == sym_error(Drop(c, parts \o <<f.args, f.env>>))
    IN  IF IsNil(c, f.args)
        THEN IF IsNil(c, dangling) THEN sym_eval(local.c, parts[1], local.el) ELSE refuse
        ELSE IF ~IsCons(c, f.args) \/ IsNil(c, dangling) THEN refuse
        ELSE IF IsCons(c, dangling) /\ IsSymbol(c, Kid(c, dangling, 1))
        THEN SymNextArg(again, "userfunc", Latest(again), f.args, f.env)
        ELSE refuse

\* The value goes to the first parameter to come.
UserFeedback(c0, f, value) ==
    LET parts == Parts(c0, f.state)
        c     == Apart(c0, f.state)
        name  == Kid(c, parts[2], 1)
        rest  == Kid(c, parts[2], 2)
        c1    == New(Steal(c, parts[2]), Cons(value, name))
        c2    == New(c1, Cons(Latest(c1), parts[3]))
        again == Together(c2, <<parts[1], rest, Latest(c2)>>)
    IN  PushNew(again, "userfunc", Latest(again), f.args, f.env)

WaitingFed(c, f, value) ==
    CASE f.fn = "if"       -> IfFeedback(c, f, value)
      [] f.fn = "report"   -> ReportFeedback(c, f, value)
      [] f.fn = "userfunc" -> UserFeedback(c, f, value)

\* An error releases every frame; the last value finishes.
sym_feedback(c, value) ==
    IF IsError(c, value) THEN sym_fin(unwind(c), value)
    ELSE IF c.stack = <<>> THEN sym_fin(c, value)
    ELSE WaitingFed(Popped(c), Taken(c), value)

SymHandle(c, f) ==
    CASE f.fn \in {"fin", "quote"} -> sym_feedback(Drop(c, <<f.state, f.env>>), f.args)
      [] f.fn = "symeval"  -> SymEvalStep(c, f)
      [] f.fn = "if"       -> IfStep(c, f)
      [] f.fn = "report"   -> ReportStep(c, f)
      [] f.fn = "userfunc" -> UserStep(c, f)

(***************************************************************************)
(* The shell.                                                              *)
(***************************************************************************)
\* A symbol holds its name where an atom holds its number.
RECURSIVE Parse(_, _)
Parse(c, tree) ==
    LET l == Parse(c, tree.l)
        r == Parse(l.c, tree.r)
    IN  IF tree.l # <<>> THEN DeliversNew(New(r.c, Cons(l.el, r.el)))
        ELSE IF tree.name # "" THEN DeliversNew(New(c, Cell("symbol", tree.name, <<>>)))
        ELSE Counter(c, tree.n)

\* Name and parameters are read as one expression, the body as another.
do_def(c, d) ==
    LET name   == New(c, Cell("symbol", d.name, <<>>))
        params == Parse(name, d.params)
        head   == New(params.c, Cons(Latest(name), params.el))
        body   == Parse(head, d.body)
        given  == Bump(body.c, <<params.el, body.el>>)
    IN  Drop(set(given, c.globals, d.name, <<params.el, body.el>>), <<Latest(head), body.el>>)

\* The global table comes right after the interned atoms.
NoSymbols == [heap |-> Interned \o <<Table>>, stack |-> <<>>, left |-> 0, guards |-> 0,
              breach |-> FALSE, over |-> "no", globals |-> 3, dummy |-> None]

Defined(ds) == LET after[k \in 0..Len(ds)] == IF k = 0 THEN NoSymbols ELSE do_def(after[k-1], ds[k])
               IN  after[Len(ds)]

SessionInit ==
    /\ \E ds \in Sessions : session = Defined(ds)
    /\ debugging = "before" /\ edits = 0 /\ overruns = 0

do_debug ==
    /\ debugging = "before"
    /\ \E expr \in Exprs :
          LET e  == Parse(session, expr)
              c1 == New(e.c, Table)
              c2 == [c1 EXCEPT !.dummy = Latest(c1)]
          IN  session' = sym_eval(Bump(c2, <<c2.dummy>>), e.el, c2.dummy)
    /\ debugging' = "held"
    /\ UNCHANGED <<edits, overruns>>

OverLimit(c, over) == IF over THEN sym_error(c) ELSE c

\* A step over the cost limit ends in an error unless it delivers a value, one
\* over the memory limit in any case.
do_step ==
    /\ debugging = "held" /\ ~finished(session)
    /\ LET after == SymHandle(Popped(session), Taken(session))
       IN  \E over \in {0} \cup (IF overruns < MostOverruns THEN {1} ELSE {}) :
              /\ overruns' = overruns + over
              /\ session' = OverLimit(after, over = 1)
    /\ UNCHANGED <<debugging, edits>>

\* The result is shown and released, an error in its place if it is not bll.
do_step_finished ==
    /\ debugging = "held" /\ finished(session)
    /\ LET value == Top(session).args
           c1    == Drop(Bump(session, <<value>>), <<Top(session).fn, value, Top(session).env>>)
           c2    == [c1 EXCEPT !.stack = <<>>]
           gated == New(Drop(c2, <<value>>), Cell("error", 0, <<>>))
       IN  session' = IF IsBll(session, value) \/ IsError(session, value) THEN Drop(c2, <<value>>)
                   ELSE Drop(gated, <<Latest(gated)>>)
    /\ debugging' = "after"
    /\ UNCHANGED <<edits, overruns>>

Edit ==
    /\ debugging = "held" /\ edits < MostEdits /\ edits' = edits + 1
    /\ \/ \E d \in Definitions : session' = do_def(session, d)
       \/ \E d \in Definitions : session' = unset(session, session.globals, d.name)
    /\ UNCHANGED <<debugging, overruns>>

SessionNext == do_debug \/ do_step \/ do_step_finished \/ Edit

SessionSpec == SessionInit /\ [][SessionNext]_sessionVars

-----------------------------------------------------------------------------
FromShell(el) == Times(<<session.globals>> \o (IF session.dummy = None THEN <<>> ELSE <<session.dummy>>), el)

\* Of every element and every table of symbols the count is the number of
\* references to it from elements, tables, frames and the shell, whatever is
\* defined or undefined between two steps and wherever a limit is passed; so
\* nobody but the shell holds the table that def changes, as its assertion says.
EverySymbolOwned ==
    \A el \in DOMAIN session.heap :
        session.heap[el].rc = FromCells(session.heap, el) + FromClass(el) + FromFrames(session, el) + FromShell(el)

Underway(c) == UNION {{c.stack[k].fn, c.stack[k].args, c.stack[k].env} : k \in DOMAIN c.stack}

\* A call under way keeps the body and the parameters it began with: def and
\* undef neither release nor change anything its frames reach.
KeepsCalls ==
    edits' # edits =>
        \A el \in Reached(session.heap, Underway(session)) :
            session'.heap[el].rc > 0 /\ session'.heap[el].kids = session.heap[el].kids
=============================================================================
