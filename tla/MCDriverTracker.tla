---------------------------- MODULE MCDriverTracker ----------------------------
(***************************************************************************)
(* Designs for DriverTracker.                                              *)
(***************************************************************************)
EXTENDS DriverTracker

Symbol(kind, net, ref, init, body) ==
    [kind |-> kind, net |-> net, static |-> TRUE, refPort |-> ref, init |-> init, body |-> body,
     lo |-> 0, hi |-> 3]

Var == Symbol("Variable", "", FALSE, FALSE, "top")

InitializedVar == Symbol("Variable", "", FALSE, TRUE, "top")

Net(net) == Symbol("Net", net, FALSE, FALSE, "top")

Modport == Symbol("ModportPort", "", FALSE, FALSE, "top")

RefPort(body) == Symbol("Variable", "", TRUE, FALSE, body)

Procedural(id, sym, lo, hi, source, container, via) ==
    [id |-> id, sym |-> sym, lo |-> lo, hi |-> hi, kind |-> "Procedural", flags |-> {},
     source |-> source, container |-> container, via |-> via]

Continuous(id, sym, lo, hi, flags, container, via) ==
    [id |-> id, sym |-> sym, lo |-> lo, hi |-> hi, kind |-> "Continuous", flags |-> flags,
     source |-> "Other", container |-> container, via |-> via]

NoNode == "no symbol"

-------------------------------------------------------------------------------
(***************************************************************************)
(* A module m with instances i1 (canonical), i2 and i3, and a module n     *)
(* with two instances inside of m: n1 (canonical) and n2.                  *)
(*                                                                         *)
(* The interface port of n is connected to the one of m, which is          *)
(* connected to ia in i1, to ib in i2 and to nothing in i3: an assignment  *)
(* to x in n leaves both bodies.  m drives the modport port mp, which      *)
(* stands for x.  The ref port r of n is connected to x in n1 and to the   *)
(* variable y in n2.                                                       *)
(* The ref port q of m has an internal expression no driver touches, so    *)
(* that a driver of q expands to itself.                                   *)
(*                                                                         *)
(* And competing drivers: an input net port, a uwire and a user-defined    *)
(* net driven from two sides, a clocking variable with two clocking        *)
(* blocks, an assignment and a procedure, a variable with an initializer   *)
(* and procedures of several kinds, a vector driven at [0:1], [1:2] and    *)
(* [2:3].  AllowDupInitialDrivers is set.                                  *)
(*                                                                         *)
(* Procedures of top meet side effects that came through a port: of the    *)
(* always_comb procedure of n in y, which is not reported, and of the task *)
(* of m in ib_x, which is, since neither has its source any more.          *)
(***************************************************************************)
SharedSymbols ==
    [ia_x |-> InitializedVar, ib_x |-> Var, ia_mp |-> Modport, ib_mp |-> Modport,
     n1_r |-> RefPort("n"), n2_r |-> RefPort("n"), i1_q |-> RefPort("m"), i2_q |-> RefPort("m"),
     i3_q |-> RefPort("m"), y |-> Var,
     in1 |-> Net("wire"), uw |-> Net("uwire"), ud |-> Net("udnt"), cv |-> Var,
     var |-> InitializedVar, vec |-> Var]

SharedBodies == {"m", "n"}

SharedBodyOf == [i2 |-> "m", i3 |-> "m", n2 |-> "n"]

SharedScopes ==
    {"top", "i2", "i3", "n2", "m", "n", "p1", "p2", "p3", "p4", "m_ff", "m_task", "n_comb", "n_assign",
     "cb1", "cb2"}

SharedProcedureKind ==
    [p1 |-> "Initial", p2 |-> "AlwaysFF", p4 |-> "Always", m_ff |-> "AlwaysFF", n_comb |-> "AlwaysComb"]

SharedSubroutines == {"p3", "m_task"}

SharedRetarget ==
    [x \in (DOMAIN SharedSymbols) \X {"i2", "i3", "n2"} |->
        CASE x = <<"ia_x", "i2">> -> "ib_x"
          [] x = <<"ia_x", "n2">> -> "ia_x"
          [] x = <<"ia_mp", "i2">> -> "ib_mp"
          [] x = <<"n1_r", "n2">> -> "n2_r"
          [] x = <<"i1_q", "i2">> -> "i2_q"
          [] x = <<"i1_q", "i3">> -> "i3_q"
          [] OTHER -> NoNode]

SharedExpand ==
    [s \in DOMAIN SharedSymbols |->
        CASE s = "ia_mp" -> {[sym |-> "ia_x", via |-> <<>>]}
          [] s = "ib_mp" -> {[sym |-> "ib_x", via |-> <<>>]}
          [] s = "n1_r" -> {[sym |-> "ia_x", via |-> <<"m">>]}
          [] s = "n2_r" -> {[sym |-> "y", via |-> <<>>]}
          [] s \in {"i1_q", "i2_q", "i3_q"} -> {[sym |-> s, via |-> <<>>]}
          [] OTHER -> {}]

SharedIds ==
    {"n drives x", "m drives mp", "n drives r", "m drives q", "top drives ib_x", "initializer",
     "port", "assign", "clockvar", "initial", "always_ff", "task", "always"}

\* What a task adds in several calls, the last one with side effects, is one call here.
SharedCalls ==
    {<<Procedural("initial", "var", 1, 1, "Initial", "p1", <<>>),
       Procedural("initial", "vec", 0, 1, "Initial", "p1", <<>>),
       Continuous("clockvar", "cv", 0, 3, {"ClockVar"}, "cb1", <<>>),
       Continuous("port", "in1", 0, 3, {"InputPort"}, "m", <<>>),
       Continuous("port", "uw", 0, 1, {"OutputPort"}, "m", <<>>),
       Continuous("port", "ud", 0, 1, {"OutputPort"}, "m", <<>>),
       Procedural("n drives x", "ia_x", 0, 0, "AlwaysComb", "n_comb", <<"n", "m">>),
       Procedural("n drives r", "n1_r", 2, 2, "AlwaysComb", "n_comb", <<>>)>>,
     <<Procedural("always_ff", "var", 1, 2, "AlwaysFF", "p2", <<>>),
       Procedural("always_ff", "vec", 1, 2, "AlwaysFF", "p2", <<>>),
       Procedural("always_ff", "cv", 0, 0, "AlwaysFF", "p2", <<>>),
       Procedural("always_ff", "ib_x", 1, 1, "AlwaysFF", "p2", <<>>),
       Procedural("m drives mp", "ia_mp", 0, 1, "Subroutine", "m_task", <<"m">>),
       Procedural("m drives q", "i1_q", 3, 3, "AlwaysFF", "m_ff", <<>>)>>,
     <<Continuous("top drives ib_x", "ib_x", 2, 2, {}, "top", <<>>),
       Continuous("assign", "in1", 1, 1, {}, "top", <<>>),
       Continuous("assign", "uw", 1, 2, {}, "top", <<>>),
       Continuous("assign", "ud", 1, 1, {}, "top", <<>>),
       Continuous("assign", "cv", 1, 1, {}, "top", <<>>),
       Continuous("clockvar", "cv", 0, 3, {"ClockVar"}, "cb2", <<>>),
       Procedural("task", "var", 0, 3, "Subroutine", "p3", <<>>),
       Procedural("always", "vec", 2, 3, "Always", "p4", <<>>),
       Procedural("always", "y", 2, 2, "Always", "p4", <<>>)>>}

SharedElaboration ==
    {<<"n drives x", "ia_x">>, <<"n drives x", "ib_x">>, <<"m drives mp", "ia_x">>,
     <<"m drives mp", "ib_x">>, <<"n drives r", "ia_x">>, <<"n drives r", "ib_x">>,
     <<"n drives r", "y">>, <<"top drives ib_x", "ib_x">>,
     <<"port", "in1">>, <<"port", "uw">>, <<"port", "ud">>, <<"assign", "in1">>,
     <<"assign", "uw">>, <<"assign", "ud">>, <<"assign", "cv">>, <<"clockvar", "cv">>,
     <<"initial", "var">>, <<"initial", "vec">>, <<"always_ff", "var">>, <<"always_ff", "vec">>,
     <<"always_ff", "cv">>, <<"task", "var">>, <<"always", "vec">>, <<"always", "y">>,
     <<"always_ff", "ib_x">>}

-------------------------------------------------------------------------------
(***************************************************************************)
(* interface I; logic l; endinterface                                      *)
(* module n(I i); assign i.l = 1; endmodule                                *)
(* module m(I p, I q); n n1(p); n n2(q); endmodule                         *)
(* module top; I a(), b(), c(), d(); m i1(a, b), i2(c, d); endmodule       *)
(***************************************************************************)
NestedSymbols == [a_l |-> Var, b_l |-> Var, c_l |-> Var, d_l |-> Var]

NestedBodyOf == [i2 |-> "m", n2 |-> "n"]

NestedRetarget ==
    [x \in (DOMAIN NestedSymbols) \X {"i2", "n2"} |->
        CASE x = <<"a_l", "n2">> -> "b_l"
          [] x = <<"a_l", "i2">> -> "c_l"
          [] x = <<"b_l", "i2">> -> "d_l"
          [] OTHER -> NoNode]

NestedExpand == [s \in DOMAIN NestedSymbols |-> {}]

NestedIds == {"n drives l", "initializer"}

NestedCalls == {<<Continuous("n drives l", "a_l", 0, 0, {}, "n_assign", <<"n", "m">>)>>}

NestedElaboration == {"n drives l"} \X DOMAIN NestedSymbols
===============================================================================
