---------------------------- MODULE MCDeviceTree ----------------------------
(***************************************************************************)
(* Blobs for DeviceTree: trees with their properties, and what the parser  *)
(* must refuse.                                                            *)
(***************************************************************************)
EXTENDS DeviceTree, SequencesExt

Tok(kind) == [kind |-> kind, name |-> "other", value |-> <<>>]
Prop(name, value) == [kind |-> "FDT_PROP", name |-> name, value |-> value]

BEGIN == Tok("FDT_BEGIN_NODE")
END   == Tok("FDT_END_NODE")
NOP   == Tok("FDT_NOP")
FIN   == Tok("FDT_END")

Blob(tokens) ==
  [magic |-> TRUE, base |-> 2, size |-> 6, reserved |-> <<>>, tokens |-> tokens]

(* The shapes of trees with n nodes: the depths of the nodes in the order  *)
(* of their tokens.                                                        *)
Shapes(n) ==
  {d \in [1 .. n -> 0 .. n - 1] :
     d[1] = 0 /\ \A i \in 2 .. n : d[i] >= 1 /\ d[i] <= d[i - 1] + 1}

(* The tokens of a tree whose i-th node has depth d[i] and properties l[i]. *)
Tree(d, l) ==
  LET n == Len(d)
      closed(i) == IF i = n THEN d[i] + 1 ELSE d[i] + 1 - d[i + 1]
  IN FlattenSeq([i \in 1 .. n |-> <<BEGIN>> \o l[i] \o [j \in 1 .. closed(i) |-> END]]) \o <<FIN>>

(* No properties; cells for the children, in two orders; addresses of one  *)
(* pair of 2 + 1 cells, or of two pairs of 1 + 1 cells.                    *)
Lists ==
  { <<>>,
    <<Prop("#address-cells", <<1>>), Prop("compatible", <<"a", "b">>), Prop("#size-cells", <<0>>)>>,
    <<Prop("reg", <<1, 2, 3>>), Prop("#size-cells", <<1>>), NOP, Prop("#address-cells", <<1>>)>>,
    <<Prop("reg", <<1, 2, 3, 4>>)>> }

SmallTrees == UNION {{Tree(d, l) : d \in Shapes(n), l \in [1 .. n -> Lists]} : n \in 1 .. 3}

(* Enough nodes for the array of nodes to move twice. *)
LargeTrees ==
  UNION {{Tree(d, [i \in 1 .. n |-> IF i \in own THEN <<Prop("other", <<7>>)>> ELSE <<>>]) :
            d \in Shapes(n), own \in {{}, {1, 2}, {3, n}}} : n \in 4 .. 6}

(* One property of each kind, good and bad. *)
Singles ==
  {Prop("model", <<"m">>), Prop("model", <<>>), Prop("device_type", <<"d">>),
   Prop("phandle", <<5>>), Prop("phandle", <<>>), Prop("linux,phandle", <<5>>), Prop("linux,phandle", <<>>),
   Prop("#address-cells", <<4>>), Prop("#size-cells", <<3>>),
   Prop("dma-coherent", <<>>), Prop("dma-noncoherent", <<>>), Prop("ranges", <<>>), Prop("ranges", <<1, 2, 3, 4, 5>>),
   Prop("dma-ranges", <<1, 2, 3, 4, 5, 6, 7, 8, 9, 10>>), Prop("compatible", <<>>), Prop("reg", <<>>),
   Prop("reg", <<1, 2, 3, 4, 5, 6>>), Prop("status", <<>>)}
  \cup {Prop("status", <<v>>) : v \in {"okay", "disabled", "reserved", "fail", "fail-", "?"}}

SingleTrees == {<<BEGIN, p, END, FIN>> : p \in Singles}

NoCells == <<BEGIN, Prop("#address-cells", <<0>>), Prop("#size-cells", <<0>>), BEGIN>>

(* Addresses of three cells, as on a PCI bus. *)
WideCells == <<BEGIN, Prop("#address-cells", <<3>>), BEGIN>>

(* A bus with a + s cells in a space of b + t: an entry of each kind has a *)
(* + b + s cells, and there are two of them.                               *)
Bus(a, s, b, t) ==
  LET value == [i \in 1 .. 2 * (a + b + s) |-> i]
      cells == <<Prop("#address-cells", <<a>>), Prop("#size-cells", <<s>>)>>
  IN <<BEGIN, Prop("#size-cells", <<t>>), Prop("#address-cells", <<b>>), BEGIN>>
       \o <<Prop("ranges", value)>> \o cells \o <<Prop("dma-ranges", value), END, END, FIN>>

(* The same cells on both sides, and PCI's three and two, among others. *)
BusTrees == {Bus(a, s, b, t) : a \in 1 .. 3, s \in 1 .. 2, b \in 1 .. 2, t \in 1 .. 2}

OddTrees ==
  { <<FIN>>, <<NOP, BEGIN, NOP, END, NOP, FIN>>, <<BEGIN, BEGIN, END, FIN>>, <<BEGIN, Tok("unknown")>>,
    <<Prop("reg", <<7>>), FIN>>, <<END, FIN>>, <<BEGIN, END, BEGIN, END, FIN>>,
    NoCells \o <<Prop("ranges", <<>>), END, END, FIN>>,
    NoCells \o <<Prop("reg", <<7>>), END, END, FIN>>,
    WideCells \o <<Prop("reg", <<1, 2, 3, 4, 5, 6, 7, 8>>), END, END, FIN>>,
    WideCells \o <<Prop("ranges", <<1, 2, 3, 4, 5, 6, 7>>), END, END, FIN>> }

Simple == <<BEGIN, Prop("reg", <<7, 7, 7>>), BEGIN, END, END, FIN>>

Headers ==
  {[magic |-> TRUE, base |-> b, size |-> n, reserved |-> <<>>, tokens |-> Simple] :
     b \in 4 .. 7, n \in 1 .. 9}
  \cup {[Blob(Simple) EXCEPT !.magic = FALSE],
        [Blob(Simple) EXCEPT !.reserved = <<<<3, 1>>>>],
        [Blob(Simple) EXCEPT !.reserved = <<<<0, 1>>>>]}

MCBlobs ==
  {Blob(t) : t \in SmallTrees \cup LargeTrees \cup SingleTrees \cup BusTrees \cup OddTrees} \cup Headers

(* One reserved region. *)
ReservingBlobs == {[Blob(Simple) EXCEPT !.reserved = <<<<3, 1>>>>]}

MCBudgets == {0, 1, 2, 4, 12}
=============================================================================
