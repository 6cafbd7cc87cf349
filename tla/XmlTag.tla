----------------------------- MODULE XmlTag -----------------------------
(***************************************************************************)
(* ATXmlTag of libnano2: a tag is its name, attributes, depth and nodes, a *)
(* node being a tag or a character of text.  A pointer to a tag within a   *)
(* tree is its address: which child to take at each level, <<>> the root.  *)
(*                                                                         *)
(* XML is a sequence of pieces, the units that the writer puts together:   *)
(* a tag's beginning, an attribute, an end of either kind, a character as  *)
(* it is or as an entity.                                                  *)
(***************************************************************************)
EXTENDS Integers, Sequences, SequencesExt

Tag(name, attrs, depth) ==
  [type |-> "tag", name |-> name, attrs |-> attrs, depth |-> depth, nodes |-> <<>>]
Char(c) == [type |-> "text", data |-> c]

InsertNode(t, node) == [t EXCEPT !.nodes = Append(@, node)]

Children(t) == SelectSeq(t.nodes, LAMBDA node : node.type = "tag")

\* clear()
Cleared(t) == [t EXCEPT !.nodes = <<>>]

\* getCharacterData(): the text of the tag itself, not of the tags in it.
CharactersOf(t) == SelectSeq(t.nodes, LAMBDA node : node.type = "text")

\* attributes_t::setAttribute(): the last value counts.
WithAttribute(attrs, name, v) == (name :> v) @@ attrs

RECURSIVE At(_, _)
At(t, p) == IF p = <<>> THEN t ELSE At(Children(t)[Head(p)], Tail(p))

(***************************************************************************)
(* Looking for tags.  Each operator gives the address of what it finds.    *)
(***************************************************************************)
Nowhere == <<0>>

\* The first child of t's tag p with the name, behind the i-th child.
ChildBehind(t, p, i, name) ==
  LET kids == Children(At(t, p))
      with == {j \in DOMAIN kids : j > i /\ kids[j].name = name}
  IN  IF with = {} THEN Nowhere ELSE Append(p, CHOOSE j \in with : \A k \in with : j <= k)

FirstChild(t, p, name) == ChildBehind(t, p, 0, name)

NextChild(t, p, name, from) ==
  IF from # <<>> /\ Front(from) = p THEN ChildBehind(t, p, Last(from), name) ELSE Nowhere

HasChild(p, tag) == IsStrictPrefix(p, tag)

RECURSIVE FindIn(_, _, _, _), Find(_, _, _), FindNext(_, _, _, _)

\* child and those of its name behind it, until one holds the rest of the path.
FindIn(t, p, path, child) ==
  IF child = Nowhere THEN Nowhere
  ELSE LET result == Find(t, child, Tail(path))
       IN  IF result # Nowhere THEN result
           ELSE FindIn(t, p, path, NextChild(t, p, Head(path), child))

Find(t, p, path) ==
  LET child == FirstChild(t, p, Head(path))
  IN  IF Len(path) = 1 THEN child ELSE FindIn(t, p, path, child)

\* A bug: the search goes on in the same child only.
FindNextHere(t, p, path, from) ==
  LET holder == Append(p, from[Len(p) + 1])
  IN  IF Len(path) = 1 THEN NextChild(t, p, path[1], from)
      ELSE IF HasChild(holder, from) THEN NextChild(t, holder, path[2], from) ELSE Nowhere

FindNext(t, p, path, from) ==
  IF Len(path) = 1 THEN NextChild(t, p, Head(path), from)
  ELSE LET kids    == Children(At(t, p))
           holders == {j \in DOMAIN kids : /\ kids[j].name = Head(path)
                                           /\ HasChild(Append(p, j), from)}
           holder  == Append(p, CHOOSE j \in holders : TRUE)
           result  == FindNext(t, holder, Tail(path), from)
       IN  CASE holders = {}      -> Nowhere
             [] result # Nowhere  -> result
             [] OTHER -> FindIn(t, p, path, NextChild(t, p, Head(path), holder))

(***************************************************************************)
(* TagHelper: a tag, and the address of one in it that a path leads to.    *)
(***************************************************************************)
\* t with another tag at p.
RECURSIVE Put(_, _, _)
Put(t, p, tag) ==
  IF p = <<>> THEN tag
  ELSE LET i == CHOOSE j \in DOMAIN t.nodes :
                  /\ t.nodes[j].type = "tag"
                  /\ Len(Children([t EXCEPT !.nodes = SubSeq(@, 1, j)])) = Head(p)
       IN  [t EXCEPT !.nodes[i] = Put(@, Tail(p), tag)]

\* A new tag of the name is inserted into the tag p.
Inserted(t, p, name) == Put(t, p, InsertNode(At(t, p), Tag(name, << >>, 0)))

\* A bug: a tag is made whether there is one or not.
ChildMadeAnew(t, p, name) ==
  LET made == Inserted(t, p, name)
  IN  [tag |-> made, at |-> Append(p, Len(Children(At(made, p))))]

\* The first child of the name, which is made if there is none.
ChildMade(t, p, name) ==
  LET made == Inserted(t, p, name)
  IN  IF FirstChild(t, p, name) # Nowhere
        THEN [tag |-> t, at |-> FirstChild(t, p, name)]
        ELSE [tag |-> made, at |-> FirstChild(made, p, name)]

\* operator [] takes the first child of each name in turn and never goes back.
Helper(t, path) ==
  FoldLeft(LAMBDA h, name : ChildMade(h.tag, h.at, name), [tag |-> t, at |-> <<>>], path)

\* operator = clears the tag and gives it a text.
Assigned(t, p, c) == Put(t, p, InsertNode(Cleared(At(t, p)), Char(c)))

(***************************************************************************)
(* What a search must find: the tags at the end of the path, in the order  *)
(* of the document, each once.                                             *)
(***************************************************************************)
Matches(t, path) ==
  LET RECURSIVE Below(_, _)
      Below(p, rest) ==
        IF rest = <<>> THEN {p}
        ELSE UNION {Below(Append(p, j), Tail(rest)) :
                      j \in {i \in DOMAIN Children(At(t, p)) :
                               Children(At(t, p))[i].name = Head(rest)}}
  IN  Below(<<>>, path)

Before(p, q) == \E i \in DOMAIN p : p[i] < q[i] /\ \A j \in 1..(i - 1) : p[j] = q[j]

RECURSIVE FoundFrom(_, _, _)
FoundFrom(t, path, p) ==
  IF p = Nowhere THEN <<>> ELSE <<p>> \o FoundFrom(t, path, FindNext(t, <<>>, path, p))

Found(t, path) == FoundFrom(t, path, Find(t, <<>>, path))

(***************************************************************************)
(* Pieces of XML, and a tag as a string.                                   *)
(***************************************************************************)
Begin(name)    == [kind |-> "begin", name |-> name]
End(name)      == [kind |-> "end", name |-> name]
Plain(c)       == [kind |-> "char", data |-> c]
Entity(c)      == [kind |-> "entity", data |-> c]
Attr(name, v)  == [kind |-> "attr", name |-> name, value |-> v]
Gt             == [kind |-> "gt"]
SlashGt        == [kind |-> "slashgt"]
Declaration    == [kind |-> "declaration"]

Special == {"<", ">", "&", "quot"}

Escape(c) == IF c \in Special THEN Entity(c) ELSE Plain(c)

Attributes(attrs) == [i \in DOMAIN SetToSeq(DOMAIN attrs) |->
                        LET n == SetToSeq(DOMAIN attrs)[i] IN Attr(n, Escape(attrs[n]))]

\* A bug: text is put down as it is.
RECURSIVE AsStringRaw(_)
AsStringRaw(node) ==
  IF node.type = "text" THEN <<Plain(node.data)>>
  ELSE <<Begin(node.name)>> \o Attributes(node.attrs)
         \o (IF node.nodes = <<>> THEN <<SlashGt>>
             ELSE <<Gt>> \o FlattenSeq([i \in DOMAIN node.nodes |-> AsStringRaw(node.nodes[i])])
                    \o <<End(node.name)>>)

RECURSIVE AsString(_)
AsString(node) ==
  IF node.type = "text" THEN <<Escape(node.data)>>
  ELSE <<Begin(node.name)>> \o Attributes(node.attrs)
         \o (IF node.nodes = <<>> THEN <<SlashGt>>
             ELSE <<Gt>> \o FlattenSeq([i \in DOMAIN node.nodes |-> AsString(node.nodes[i])])
                    \o <<End(node.name)>>)

(***************************************************************************)
(* A tag as what happens in it, in order: the measure of every comparison. *)
(***************************************************************************)
Started(name, attrs, depth) ==
  [kind |-> "start", name |-> name, attrs |-> attrs, depth |-> depth]
Text(c) == [kind |-> "text", data |-> c]
Ended   == [kind |-> "end"]

RECURSIVE Story(_)
Story(node) ==
  IF node.type = "text" THEN <<Text(node.data)>>
  ELSE <<Started(node.name, node.attrs, node.depth)>>
         \o FlattenSeq([i \in DOMAIN node.nodes |-> Story(node.nodes[i])]) \o <<Ended>>

WithoutDepth(story) ==
  [i \in DOMAIN story |-> IF story[i].kind = "start" THEN [story[i] EXCEPT !.depth = 0]
                          ELSE story[i]]
=============================================================================
