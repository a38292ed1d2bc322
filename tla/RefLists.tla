------------------------------ MODULE RefLists ------------------------------
(***************************************************************************)
(* The reference picture lists the decoder builds from the buffer for the  *)
(* next slice (init_lists_p_slice, init_lists_b_slice and                  *)
(* reorder_ref_pic_list of ldecod/mbuffer.c), and the commands with which  *)
(* the encoder asks for another order (lencod/list_reorder.c).             *)
(*                                                                         *)
(* A slice is given by its picture: structure, frame_num and POC.  An entry*)
(* of a list is a picture <<i, v>>: the view v of store i.                 *)
(***************************************************************************)
EXTENDS Dpb

NoReferencePicture == <<0, "none">>

(* Indexes of stores by a key of each, ascending.                           *)
IndexesBy(S, key) == SetToSortSeq(S, LAMBDA i, j : key[i] < key[j])

Negated(key) == [i \in DOMAIN key |-> -key[i]]

(* compare_pic_by_pic_num_desc and compare_fs_by_frame_num_desc: the picture*)
(* numbers of frames and the numbers of stores order them alike.            *)
WrapOf(d, p) == [i \in ShortList(d) |-> FrameNumWrap(d[i], p)]
NewestFirst(d, p) == IndexesBy(ShortList(d), Negated(WrapOf(d, p)))

(* The stores at or before the slice in output order, the nearest first, and*)
(* those behind it.                                                         *)
PocOf(d) == [i \in DOMAIN d |-> d[i].poc]
PastFirst(d, p) == IndexesBy({i \in ShortList(d) : d[i].poc <= p.poc}, Negated(PocOf(d)))
FutureFirst(d, p) == IndexesBy({i \in ShortList(d) : d[i].poc > p.poc}, PocOf(d))

ByFrameIdx(d) == IndexesBy(LongList(d), [i \in LongList(d) |-> d[i].idx])

-----------------------------------------------------------------------------
(* The views of the stores in order, v at a time, that are short-term or    *)
(* long-term references: is_short_ref and is_long_ref.  Of a long-term frame*)
(* only the one mark is asked.                                              *)
IsListed(fs, v, long) ==
  /\ v \in PicturesOf(fs)
  /\ v \in fs.plt <=> long
  /\ v \in fs.pref \/ (long /\ v = "frame")

ViewsOf(d, order, v, long) ==
  LET listed == SelectSeq(order, LAMBDA i : IsListed(d[i], v, long))
  IN [n \in DOMAIN listed |-> <<listed[n], v>>]

(* gen_pic_list_from_frame_list: fields of the slice's own parity and of the*)
(* other take turns; when one kind is used up the rest of the other follows.*)
TakeTurns(a, b) ==
  LET turn(s, n) == IF n \in DOMAIN s THEN <<s[n]>> ELSE <<>>
      longest == IF Len(a) < Len(b) THEN Len(b) ELSE Len(a)
  IN FlattenSeq([n \in 1 .. longest |-> turn(a, n) \o turn(b, n)])

ListFrom(d, order, p, long) ==
  IF p.struct = "frame" THEN ViewsOf(d, order, "frame", long)
  ELSE TakeTurns(ViewsOf(d, order, p.struct, long),
                 ViewsOf(d, order, Opposite(p.struct), long))

LongTail(d, p) == ListFrom(d, ByFrameIdx(d), p, TRUE)

(* init_lists_p_slice                                                       *)
InitListP(d, p) == ListFrom(d, NewestFirst(d, p), p, FALSE) \o LongTail(d, p)

(* init_lists_b_slice.  If the two lists are the same, the first two entries*)
(* of list 1 change places.                                                 *)
InitList0(d, p) ==
  ListFrom(d, PastFirst(d, p) \o FutureFirst(d, p), p, FALSE) \o LongTail(d, p)

ListsMayAgree(d, p) ==   (* Mutant of InitList1. *)
  ListFrom(d, FutureFirst(d, p) \o PastFirst(d, p), p, FALSE) \o LongTail(d, p)
InitList1(d, p) ==
  LET list == ListFrom(d, FutureFirst(d, p) \o PastFirst(d, p), p, FALSE) \o LongTail(d, p)
  IN IF Len(list) > 1 /\ list = InitList0(d, p)
       THEN <<list[2], list[1]>> \o SubSeq(list, 3, Len(list))
       ELSE list

-----------------------------------------------------------------------------
MaxPicNum(p) == IF p.struct = "frame" THEN MaxFrameNum ELSE 2 * MaxFrameNum
CurrPicNum(p) == IF p.struct = "frame" THEN p.num ELSE 2 * p.num + 1

(* picNumLXNoWrap after a command [idc, n], n being abs_diff_pic_num_minus1.*)
PicNumNoWrap(p, pred, c) ==
  LET x == IF c.idc = 0 THEN pred - (c.n + 1) ELSE pred + (c.n + 1)
  IN IF x < 0 THEN x + MaxPicNum(p) ELSE IF x >= MaxPicNum(p) THEN x - MaxPicNum(p) ELSE x

PicNumWrapped(p, x) == IF x > CurrPicNum(p) THEN x - MaxPicNum(p) ELSE x

(* get_short_term_pic                                                       *)
ShortTermPic(d, p, x) ==
  LET views == IF p.struct = "frame" THEN {"frame"} ELSE Fields
      hits == {e \in ShortList(d) \X views :
                 /\ IF e[2] = "frame" THEN d[e[1]].ref = Fields ELSE e[2] \in d[e[1]].ref
                 /\ e[2] \notin d[e[1]].plt
                 /\ PicNum(d[e[1]], e[2], p) = x}
  IN IF hits = {} THEN NoReferencePicture ELSE CHOOSE e \in hits : TRUE

(* reorder_short_term: the picture goes to place at, and is taken out from  *)
(* the places behind it.                                                    *)
InsertShortTerm(list, at, pic) ==   (* Mutant of ReorderShortTerm. *)
  SubSeq(SubSeq(list, 1, at - 1) \o <<pic>> \o SubSeq(list, at, Len(list)), 1, Len(list))
ReorderShortTerm(list, at, pic) ==
  LET behind == SelectSeq(SubSeq(list, at, Len(list)), LAMBDA e : e # pic)
  IN SubSeq(SubSeq(list, 1, at - 1) \o <<pic>> \o behind, 1, Len(list))

(* reorder_ref_pic_list, for commands that name short-term pictures.        *)
ReorderRefPicList(d, p, list, commands) ==
  LET step(s, c) ==
        LET x == PicNumNoWrap(p, s.pred, c)
        IN [pred |-> x, at |-> s.at + 1,
            list |-> ReorderShortTerm(s.list, s.at, ShortTermPic(d, p, PicNumWrapped(p, x)))]
  IN FoldLeft(step, [pred |-> CurrPicNum(p), at |-> 1, list |-> list], commands).list

-----------------------------------------------------------------------------
(* The encoder's commands that name the pictures of target one after the    *)
(* other.  reorder_against_default_ref_pic_lists names all of a list that is*)
(* not the default one; poc_ref_pic_reorder_frame_default stops when the    *)
(* rest agrees.                                                             *)
PicNumDiffCommand(p, diff) ==
  [idc |-> IF diff <= 0 THEN 0 ELSE 1,
   n   |-> IF diff = 0 THEN MaxPicNum(p) - 1 ELSE IF diff < 0 THEN -diff - 1 ELSE diff - 1]

ReorderCommands(d, p, default, target) ==
  LET step(s, e) ==
        LET c == PicNumDiffCommand(p, PicNum(d[e[1]], e[2], p) - s.pred)
        IN [pred |-> PicNumNoWrap(p, s.pred, c), cmds |-> Append(s.cmds, c)]
  IN IF target = default THEN <<>>
     ELSE FoldLeft(step, [pred |-> CurrPicNum(p), cmds |-> <<>>], target).cmds

-----------------------------------------------------------------------------
(* The slices the stream may give next.  A frame_num that a short-term frame*)
(* has already is only that of its second field.                            *)
NextSlices ==
  IF pc # "idle" \/ ~stream.started THEN {}
  ELSE {NewPicture(s, k, FALSE, stream.seq) :
          s \in IF Waiting THEN Structures ELSE {}, k \in (0 .. MaxK) \ stream.ks}
       \cup
       (IF stream.first = NoPicture THEN {}
        ELSE {[stream.first EXCEPT !.struct = Opposite(@), !.poc = @ + 1]})

Legal(p) ==
  \A i \in ShortList(dpb) :
    dpb[i].num = p.num => i = last /\ p.struct = Opposite(stream.first.struct)

(* The references by the marks of the buffer: bits only.  A frame of which  *)
(* one field alone is long-term is a short-term frame to this code.         *)
MarkedViews(p, long) ==
  IF p.struct = "frame"
    THEN {<<i, "frame">> : i \in {j \in DOMAIN dpb : /\ dpb[j].ref = Fields
                                                     /\ dpb[j].lt = Fields <=> long}}
    ELSE UNION {{<<i, f>> : f \in {g \in dpb[i].ref : g \in dpb[i].lt <=> long}} : i \in DOMAIN dpb}

ListsAll(list, S) == IsInjective(list) /\ Range(list) = S

(* Of two entries of one parity the earlier is better.                      *)
Ordered(list, better(_, _)) ==
  \A m, n \in DOMAIN list :
    m < n /\ list[m][2] = list[n][2] => better(list[m][1], list[n][1])

(* Two entries of one parity follow each other only when the other parity   *)
(* has no more.                                                             *)
Alternate(list, p) ==
  p.struct # "frame" =>
    /\ \A n \in 2 .. Len(list) :
         list[n][2] = list[n - 1][2] => \A m \in n .. Len(list) : list[m][2] = list[n][2]
    /\ list # <<>> /\ list[1][2] # p.struct => \A n \in DOMAIN list : list[n][2] = list[1][2]

PListRight(p) ==
  LET list == InitListP(dpb, p)
      shorts == Cardinality(MarkedViews(p, FALSE))
      head == SubSeq(list, 1, shorts)
      tail == SubSeq(list, shorts + 1, Len(list))
  IN /\ ListsAll(head, MarkedViews(p, FALSE)) /\ ListsAll(tail, MarkedViews(p, TRUE))
     /\ Ordered(head, LAMBDA i, j : i > j)
     /\ Ordered(tail, LAMBDA i, j : dpb[i].idx < dpb[j].idx)
     /\ Alternate(head, p) /\ Alternate(tail, p)

(* The list of a P slice has every picture the buffer marks as a reference, *)
(* once: the short-term ones, the last decoded first though the sort is by  *)
(* FrameNumWrap, then the long-term ones by index; fields alternate.        *)
ReferencesListed == \A p \in NextSlices : Legal(p) => PListRight(p)

(* The nearest of S in output order, before or after place k.               *)
Before(S, k) == {e \in S : dpb[e[1]].id.k <= k}
NearestBefore(e, S, k) == \A f \in Before(S, k) : dpb[f[1]].id.k <= dpb[e[1]].id.k
NearestAfter(e, S, k) == \A f \in S \ Before(S, k) : dpb[f[1]].id.k >= dpb[e[1]].id.k

BListsRight(p) ==
  LET zero == InitList0(dpb, p)
      one == InitList1(dpb, p)
      S == MarkedViews(p, FALSE)
  IN /\ ListsAll(zero, S \cup MarkedViews(p, TRUE)) /\ ListsAll(one, S \cup MarkedViews(p, TRUE))
     /\ Before(S, p.id.k) # {} => zero[1] \in Before(S, p.id.k) /\ NearestBefore(zero[1], S, p.id.k)
     /\ S \ Before(S, p.id.k) # {} =>
          one[1] \notin Before(S, p.id.k) /\ NearestAfter(one[1], S, p.id.k)
     /\ Len(zero) > 1 => zero[1] # one[1]

(* The lists of a B frame start with its neighbours in output order, and    *)
(* with two different pictures if there are two.                            *)
BFramesBetweenNeighbours ==
  \A p \in NextSlices : p.struct = "frame" => BListsRight(p)

(* The places of a list that may be named first.                            *)
NamedFirst(list) ==
  UNION {{t \in [1 .. m -> Range(list)] : IsInjective(t)} : m \in 1 .. Len(list)}

(* Whatever short-term pictures the encoder prefers for a P slice, all of   *)
(* its list or some, its commands put them first in the decoder's list and  *)
(* leave the order of the others, across the wrap of frame_num and for      *)
(* fields as for frames.                                                    *)
OrderUnderstood ==
  \A p \in NextSlices :
    LET whole == InitListP(dpb, p)
    IN Legal(p) /\ MarkedViews(p, TRUE) = {} =>
         \A n \in 1 .. Len(whole) :
           LET list == SubSeq(whole, 1, n)
           IN \A target \in NamedFirst(whole) : Len(target) <= n =>
                ReorderRefPicList(dpb, p, list, ReorderCommands(dpb, p, list, target))
                  = SubSeq(target \o SelectSeq(list, LAMBDA e : e \notin Range(target)), 1, n)
=============================================================================
