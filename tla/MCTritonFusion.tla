-------------------------- MODULE MCTritonFusion --------------------------
(* Small graphs for the automatic fusion pass, one for each way a subgraph  *)
(* can grow, be refused, fail or end up in the graph.                      *)
EXTENDS TritonFusion

Node(name, op, args, attr, shape) ==
    [name |-> name, op |-> op, args |-> args, attr |-> attr, shapes |-> <<shape>>]
Family2(name, op, args, attr, shape) ==
    [name |-> name, op |-> op, args |-> args, attr |-> attr, shapes |-> <<shape, shape>>]
Input(name, shape) == Node(name, "placeholder", <<>>, <<>>, shape)
Unary(name, x, shape) == Node(name, "pointwise", <<x>>, <<>>, shape)
Extern(name, args, shape) == Node(name, "extern", args, <<>>, shape)
Result(args) == [name |-> "out", op |-> "output", args |-> args, attr |-> <<>>, shapes |-> <<>>]

Of(nodes) ==
    [order |-> [i \in DOMAIN nodes |-> nodes[i].name],
     node |-> [n \in {nodes[i].name : i \in DOMAIN nodes} |->
                  LET r == nodes[CHOOSE i \in DOMAIN nodes : nodes[i].name = n]
                  IN [op |-> r.op, args |-> r.args, attr |-> r.attr, shapes |-> r.shapes]]]

\* Two branches joined, and a user of the join.
Join == Of(<<Input("x", <<2, 3>>), Input("y", <<2, 3>>), Unary("a", "x", <<2, 3>>), Unary("b", "y", <<2, 3>>),
             Node("c", "cat", <<"a", "b">>, <<1>>, <<2, 6>>), Unary("r", "c", <<2, 6>>), Result(<<"r">>)>>)

\* A linear layer whose rows are summed.
Linear == Of(<<Input("x", <<2, 3>>), Input("w", <<3, 4>>), Input("y", <<4>>),
               Node("m", "addmm", <<"y", "x", "w">>, <<>>, <<2, 4>>), Unary("r", "m", <<2, 4>>),
               Node("s", "sum", <<"r">>, <<1>>, <<2>>), Result(<<"s">>)>>)

\* A product that comes back by way of an operator that is not supported.
Detour == Of(<<Input("x", <<2, 3>>), Input("w", <<3, 4>>), Node("m", "mm", <<"x", "w">>, <<>>, <<2, 4>>),
               Extern("e", <<"m">>, <<2, 4>>), Node("p", "pointwise", <<"m", "e">>, <<>>, <<2, 4>>),
               Unary("r", "p", <<2, 4>>), Result(<<"r">>)>>)

\* A normalisation: both outputs are used with the operand.
Normal == Of(<<Input("x", <<2, 3>>), Unary("a", "x", <<2, 3>>),
               Family2("v", "var_mean", <<"a">>, <<1>>, <<2, 1>>),
               Node("g", "getitem", <<"v">>, <<0>>, <<2, 1>>), Node("h", "getitem", <<"v">>, <<1>>, <<2, 1>>),
               Node("p", "pointwise", <<"a", "h">>, <<>>, <<2, 3>>),
               Node("r", "pointwise", <<"p", "g">>, <<>>, <<2, 3>>), Result(<<"r">>)>>)

\* One input needed in two orientations.
Both == Of(<<Input("x", <<3, 3>>), Unary("a", "x", <<3, 3>>), Node("t", "permute", <<"x">>, <<1, 0>>, <<3, 3>>),
             Node("c", "cat", <<"a", "t">>, <<0>>, <<6, 3>>), Result(<<"c">>)>>)

\* A join whose branch reduces the dimension the other one is tiled along.
Keep == Of(<<Input("x", <<2, 3>>), Input("y", <<2, 1>>), Family2("m", "max", <<"x">>, <<1>>, <<2, 1>>),
             Node("g", "getitem", <<"m">>, <<0>>, <<2, 1>>), Node("h", "getitem", <<"m">>, <<1>>, <<2, 1>>),
             Node("c", "cat", <<"g", "y">>, <<0>>, <<4, 1>>), Result(<<"c", "h">>)>>)

\* A user of the first output stands before the second.
Between == Of(<<Input("x", <<2, 3>>), Input("w", <<3, 4>>), Node("m", "mm", <<"x", "w">>, <<>>, <<2, 4>>),
                Extern("e", <<"m">>, <<2, 4>>), Unary("r", "m", <<2, 4>>), Result(<<"e", "r">>)>>)

\* An operand of the second node, and what it needs, stands behind the first.
Behind2 == Of(<<Input("x", <<2, 3>>), Input("w", <<3, 4>>), Input("y", <<2, 4>>),
                Node("m", "mm", <<"x", "w">>, <<>>, <<2, 4>>), Extern("d", <<"y">>, <<2, 4>>),
                Extern("e", <<"d">>, <<2, 4>>), Node("p", "pointwise", <<"m", "e">>, <<>>, <<2, 4>>),
                Result(<<"p", "m">>)>>)

\* A symbolic batch.
Batch == Of(<<Input("x", <<5, 3>>), Input("y", <<5, 1>>), Unary("a", "x", <<5, 3>>),
              Node("c", "cat", <<"a", "y">>, <<1>>, <<5, 4>>),
              Node("s", "sum", <<"c">>, <<0>>, <<4>>), Result(<<"c", "s">>)>>)

\* Dimensions added, exchanged, merged and dropped.
Views == Of(<<Input("x", <<2, 3>>), Input("y", <<2, 1, 3>>), Node("u", "unsqueeze", <<"x">>, <<1>>, <<2, 1, 3>>),
              Node("c", "cat", <<"u", "y">>, <<1>>, <<2, 2, 3>>), Node("t", "permute", <<"c">>, <<2, 0, 1>>, <<3, 2, 2>>),
              Node("r", "reshape", <<"c">>, <<>>, <<2, 6>>), Result(<<"t", "r">>)>>)
Column == Of(<<Input("x", <<2, 3>>), Input("y", <<1, 3>>), Node("s", "sum", <<"x">>, <<0>>, <<3>>),
               Node("u", "unsqueeze", <<"s">>, <<0>>, <<1, 3>>), Node("c", "cat", <<"u", "y">>, <<0>>, <<2, 3>>),
               Node("p", "slice", <<"c">>, <<0>>, <<1, 3>>), Node("q", "squeeze", <<"p">>, <<0>>, <<3>>),
               Result(<<"q">>)>>)

\* Parts picked and repeated.
Picks == Of(<<Input("x", <<2, 3>>), Input("i", <<2, 1>>), Node("p", "slice", <<"x">>, <<1>>, <<2, 3>>),
              Node("g", "gather", <<"p", "i">>, <<1>>, <<2, 1>>), Node("r", "repeat", <<"x">>, <<1, 2>>, <<2, 6>>),
              Node("c", "cat", <<"r", "g">>, <<1>>, <<2, 7>>), Node("s", "select", <<"c">>, <<0>>, <<7>>),
              Result(<<"s">>)>>)

\* Slices of one tensor, on the way back and on the way forward.
Split == Of(<<Input("x", <<2, 2, 3>>), Input("w", <<3, 2>>), Family2("v", "unbind", <<"x">>, <<0>>, <<2, 3>>),
              Node("g", "getitem", <<"v">>, <<0>>, <<2, 3>>), Node("h", "getitem", <<"v">>, <<1>>, <<2, 3>>),
              Node("p", "pointwise", <<"g", "h">>, <<>>, <<2, 3>>), Node("m", "mm", <<"p", "w">>, <<>>, <<2, 2>>),
              Family2("u", "unbind", <<"m">>, <<0>>, <<2>>), Node("a", "getitem", <<"u">>, <<0>>, <<2>>),
              Node("b", "getitem", <<"u">>, <<1>>, <<2>>), Result(<<"a", "b">>)>>)

\* A batch of products and a constant.
Heads == Of(<<Input("x", <<2, 2, 3>>), Input("w", <<2, 3, 2>>), Node("m", "bmm", <<"x", "w">>, <<>>, <<2, 2, 2>>),
              Node("f", "full", <<>>, <<>>, <<2, 2, 2>>), Node("p", "pointwise", <<"m", "f">>, <<>>, <<2, 2, 2>>),
              Result(<<"p">>)>>)

\* A value with two users that agree, or do not.
Agree == Of(<<Input("x", <<3, 3>>), Unary("a", "x", <<3, 3>>), Unary("b", "a", <<3, 3>>), Unary("d", "a", <<3, 3>>),
              Node("c", "cat", <<"b", "d">>, <<0>>, <<6, 3>>), Result(<<"c">>)>>)
Differ == Of(<<Input("x", <<3, 3>>), Unary("a", "x", <<3, 3>>), Unary("b", "a", <<3, 3>>),
               Node("t", "permute", <<"a">>, <<1, 0>>, <<3, 3>>), Node("c", "cat", <<"b", "t">>, <<0>>, <<6, 3>>),
               Result(<<"c">>)>>)

\* Getitems of which the second does not fit when it is reached.
Second == Of(<<Input("x", <<3, 2>>), Node("c", "cat", <<"x", "x">>, <<1>>, <<3, 4>>),
               Family2("m", "max", <<"c">>, <<1>>, <<3>>), Node("g", "getitem", <<"m">>, <<0>>, <<3>>),
               Node("h", "getitem", <<"m">>, <<1>>, <<3>>), Result(<<"g", "h">>)>>)

\* A row repeated in front.
Grown == Of(<<Input("x", <<3>>), Input("y", <<1, 3>>), Node("r", "repeat", <<"x">>, <<1, 1>>, <<1, 3>>),
              Node("c", "cat", <<"r", "y">>, <<0>>, <<2, 3>>), Result(<<"c">>)>>)

\* A bias that is squared on the way.
Squared == Of(<<Input("x", <<2, 3>>), Input("w", <<3, 2>>), Input("y", <<2>>),
                Node("m", "mm", <<"x", "w">>, <<>>, <<2, 2>>),
                Node("p", "pointwise", <<"m", "y", "y">>, <<>>, <<2, 2>>), Result(<<"p">>)>>)

\* A symbolic batch that is summed up before anything is fused.
Pooled == Of(<<Input("x", <<5, 3>>), Input("y", <<1, 3>>), Node("s", "sum", <<"x">>, <<0>>, <<1, 3>>),
               Node("c", "cat", <<"s", "y">>, <<0>>, <<2, 3>>), Result(<<"c">>)>>)

\* A node that could join either of two others.
Shares == Of(<<Input("x", <<2, 3>>), Input("w", <<3, 2>>), Input("y", <<2, 1>>),
               Node("m", "mm", <<"x", "w">>, <<>>, <<2, 2>>), Unary("r", "m", <<2, 2>>),
               Node("c", "cat", <<"r", "y">>, <<1>>, <<2, 3>>), Result(<<"c">>)>>)

\* Two places to start.
Layers == Of(<<Input("x", <<2, 3>>), Input("w", <<3, 3>>), Input("y", <<3, 2>>),
               Node("m", "mm", <<"x", "w">>, <<>>, <<2, 3>>), Extern("e", <<"m">>, <<2, 3>>),
               Node("p", "mm", <<"e", "y">>, <<>>, <<2, 2>>), Unary("r", "p", <<2, 2>>), Result(<<"r">>)>>)

\* Of two results of one node, one is fused with it and the other is left for a later start.
Rest2 == Of(<<Input("x", <<2, 3>>), Input("w", <<3, 4>>), Node("e", "mm", <<"x", "w">>, <<>>, <<2, 4>>),
              Input("y", <<2, 2>>), Node("c", "cat", <<"y", "y">>, <<1>>, <<2, 4>>), Unary("a", "c", <<2, 4>>),
              Unary("r", "a", <<2, 4>>), Family2("m", "max", <<"r">>, <<1>>, <<2, 1>>),
              Node("g", "getitem", <<"m">>, <<0>>, <<2, 1>>), Node("h", "getitem", <<"m">>, <<1>>, <<2, 1>>),
              Node("p", "pointwise", <<"e", "h">>, <<>>, <<2, 4>>), Result(<<"g", "p">>)>>)

Roomy == [arch |-> 6, nram |-> 200, wram |-> 100, sm |-> 200, promote |-> TRUE, cores |-> 2]
Tight == [arch |-> 5, nram |-> 14, wram |-> 4, sm |-> 20, promote |-> TRUE, cores |-> 2]
Tight6 == [arch |-> 6, nram |-> 12, wram |-> 6, sm |-> 20, promote |-> FALSE, cores |-> 2]

Plain(G) == [graph |-> G, chip |-> Roomy, minNodes |-> 1, maxNodes |-> 99, skipped |-> {}, reserved |-> {}]

MCCases ==
    {Plain(G) : G \in {Join, Linear, Detour, Normal, Both, Keep, Between, Behind2, Batch, Views, Column,
                       Picks, Split, Heads, Agree, Differ, Grown, Squared, Pooled, Layers}}
      \cup {[Plain(G) EXCEPT !.chip = Tight] : G \in {Join, Normal, Second}}
      \cup {[Plain(G) EXCEPT !.chip = Tight6] : G \in {Linear, Views}}
      \cup {[Plain(Join) EXCEPT !.maxNodes = 2], [Plain(Rest2) EXCEPT !.maxNodes = 5], [Plain(Shares) EXCEPT !.maxNodes = 2],
           [Plain(Normal) EXCEPT !.minNodes = 3, !.maxNodes = 4],
            [Plain(Join) EXCEPT !.skipped = {"cat"}], [Plain(Detour) EXCEPT !.reserved = {"p"}]}

MCNames == {"x", "y", "w", "i", "a", "b", "c", "d", "e", "f", "g", "h", "m", "p", "q", "r", "s", "t", "u", "v",
            "out", "k1", "k2", "k3", "k4", "k5", "k6"}
MCFresh == <<"k1", "k2", "k3", "k4", "k5", "k6">>
MCStartOps == {"cat", "mm", "addmm", "bmm", "var_mean"}
=============================================================================
