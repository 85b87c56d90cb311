---------------------------- MODULE ImplicitIndex -----------------------------
(***************************************************************************)
(* The inductive invariant of the block index of an implicit producer.     *)
(*                                                                         *)
(* The blocks are numbered by the elements they are for, and the number of *)
(* the last one that has an entry (Top) tells which entry belongs to each  *)
(* of the others (Home).  A block is live until all its elements are       *)
(* marked empty and its entry is cleared.  ImplicitInv says that a live    *)
(* block has its home to itself, with its key, its block and the right     *)
(* count, that no other entry has a block, and that a consumer that counts *)
(* from the position it once loaded, in a header that may have been        *)
(* replaced since, from an entry that may have been taken back, comes to   *)
(* the home of its block.  Its parts take the state as parameters, so that *)
(* a step is a change of arguments.                                        *)
(***************************************************************************)
EXTENDS SubQueue

(* A consumer that has claimed its elements.                               *)
Reading == {"locate", "find", "read", "empty", "clear", "release"}

(* BlocksNeeded of a call that begins at index tail.                       *)
Needs(tail, count) == (Base(tail + count - 1) - Base(tail - 1)) \div BLOCK_SIZE

(* The number of the block of an index, and the indices of a block.        *)
Num(i) == i \div BLOCK_SIZE
Span(n) == BLOCK_SIZE * n .. BLOCK_SIZE * n + BLOCK_SIZE - 1

(* The elements that consumer k has claimed and not yet marked empty, and  *)
(* those it has not yet read.                                              *)
Rest(k) == CASE k.pc \in {"locate", "find", "read", "empty"} -> k.index .. k.last - 1
             [] k.pc \in {"clear", "release"} -> End(k) .. k.last - 1
             [] OTHER -> {}
Unread(k) == CASE k.pc \in {"locate", "find", "read"} -> k.index .. k.last - 1
               [] k.pc \in {"empty", "clear", "release"} -> End(k) .. k.last - 1
               [] OTHER -> {}

(* The elements of block n that are still to be marked empty; those to be  *)
(* read.  A block is live as long as there are some of the first kind or   *)
(* a consumer is about to take it out of the index.                        *)
Undone(n, head, cs) == {i \in Span(n) : i >= head \/ \E c \in Consumers : i \in Rest(cs[c])}
ToRead(i, head, cs) == i >= head \/ \E c \in Consumers : i \in Unread(cs[c])
Clears(k, n) == k.pc = "clear" /\ Num(k.index) = n
Live(n, top, head, cs) ==
  n \in 0 .. top /\ (Undone(n, head, cs) # {} \/ \E c \in Consumers : Clears(cs[c], n))

(* The last block that has an entry in the index, and the last one that    *)
(* has a block in its entry.                                               *)
ChainOf(p) == IF p.pc = "idle" THEN <<>> ELSE p.chain
Given(tail, p) == Num(tail - 1) + Len(ChainOf(p))
Top(tail, p) == IF p.pc = "block" THEN Given(tail, p) + 1 ELSE Given(tail, p)

(* The entry at a distance from a position of a header, and the entry of   *)
(* block n in the current header, whose tail is the entry of block top.    *)
SlotOf(h, pos, d) == h.index[(pos + d) % h.capacity]
Home(h, top, n) == SlotOf(h, h.tail, n - top)

HeaderOK(h, size) ==
  /\ DOMAIN h = {"capacity", "tail", "index"}
  /\ h.capacity \in Nat \ {0, 1} /\ h.tail \in 0 .. h.capacity - 1
  /\ h.index \in [0 .. h.capacity - 1 -> 1 .. size]
  /\ \A i, j \in 0 .. h.capacity - 1 : i # j => h.index[i] # h.index[j]

(* The block index and the call of the producer.                           *)
Entry == [key : Int, value : Blocks \union {NoBlock}]
ImplicitFields == {"pc", "count", "need", "chain"}

ImplicitCallOK(p, tail) ==
  /\ p.pc \in {"idle", "insert", "block", "fill"}
  /\ p.pc # "idle" =>
       /\ DOMAIN p = ImplicitFields
       /\ p.count \in Nat \ {0} /\ p.need \in Nat /\ p.chain \in Seq(Blocks)
       /\ Len(p.chain) + p.need = Needs(tail, p.count)
       /\ p.pc \in {"insert", "block"} => p.need # 0
       /\ p.pc = "fill" => p.need = 0

IndexOK(tail, p, hs, es, ecd, els) ==
  /\ tail \in Nat
  /\ es \in Seq(Entry)
  /\ Len(hs) \in Nat \ {0} /\ DOMAIN hs = 1 .. Len(hs)
  /\ \A g \in 1 .. Len(hs) : HeaderOK(hs[g], Len(es))
  /\ ImplicitCallOK(p, tail)
  /\ ecd \in [Blocks -> Nat]
  /\ els \in [Blocks -> [Slots -> Int]]

(* The entries of the live blocks in the current header: it has room for   *)
(* them, their keys tell them, and so do those of all the later ones; each *)
(* has its block, which counts the elements that are marked empty.         *)
LiveOK(n, top, given, head, cs, h, es, ecd) ==
  Live(n, top, head, cs) =>
    /\ top - n < h.capacity
    /\ \A m \in n .. top : es[Home(h, top, m)].key = BLOCK_SIZE * m
    /\ n > given => es[Home(h, top, n)].value = NoBlock
    /\ n <= given =>
         /\ es[Home(h, top, n)].value \in Blocks
         /\ ecd[es[Home(h, top, n)].value] = BLOCK_SIZE - Cardinality(Undone(n, head, cs))

AllLiveOK(top, given, head, cs, h, es, ecd) ==
  \A n \in Nat : LiveOK(n, top, given, head, cs, h, es, ecd)

(* A block in an entry is that of a live block.                            *)
OnlyLive(e, top, given, head, cs, h, es) ==
  es[e].value # NoBlock =>
    \E n \in 0 .. given : Live(n, top, head, cs) /\ Home(h, top, n) = e
AllOnlyLive(top, given, head, cs, h, es) ==
  \A e \in 1 .. Len(es) : OnlyLive(e, top, given, head, cs, h, es)

(* Every block has one owner.                                              *)
Releases(k, b) == k.pc = "release" /\ k.block = b
OwnersOK(free, es, cs) ==
  /\ free \subseteq Blocks
  /\ \A e, f \in 1 .. Len(es) : e # f /\ es[e].value = es[f].value => es[e].value = NoBlock
  /\ \A e \in 1 .. Len(es) : es[e].value \notin free
  /\ \A e \in 1 .. Len(es), c \in Consumers : es[e].value \in Blocks => ~Releases(cs[c], es[e].value)
  /\ \A b \in Blocks, c, d \in Consumers : Releases(cs[c], b) /\ Releases(cs[d], b) => c = d
  /\ \A b \in free, c \in Consumers : ~Releases(cs[c], b)
  /\ \A b \in Blocks : \/ b \in free
                       \/ \E e \in 1 .. Len(es) : es[e].value = b
                       \/ \E c \in Consumers : Releases(cs[c], b)

(* The blocks that the producer knows: those of its call, and the one that *)
(* it fills.                                                               *)
ProducerKnows(tail, p, tb, h, es) ==
  /\ \A j \in 1 .. Len(ChainOf(p)) :
       ChainOf(p)[j] = es[Home(h, Top(tail, p), Num(tail - 1) + j)].value
  /\ tail % BLOCK_SIZE # 0 => tb = es[Home(h, Top(tail, p), Num(tail - 1))].value

(* The elements that are still to be read are in the blocks of their       *)
(* numbers.                                                                *)
ElementsOK(tail, top, head, cs, h, es, els) ==
  \A i \in 0 .. tail - 1 :
    ToRead(i, head, cs) => els[es[Home(h, top, Num(i))].value][i % BLOCK_SIZE] = i

(* A consumer that has claimed elements, and one that looks for its blocks *)
(* or has found them, possibly through an old header.                      *)
Finding == {"find", "read", "empty", "clear", "release"}
Finds(k, hs, top, p, m) == SlotOf(hs[k.hdr], k.pos, m - p) = Home(hs[Len(hs)], top, m)
FindsFrom(k, hs, top, n) == \A m \in n .. Num(k.last - 1) : Finds(k, hs, top, Num(k.index), m)

ReaderOK(k, head) ==
  /\ k.pc = "claim" => k.actual # 0
  /\ k.pc \in Reading => k.index \in Nat /\ k.last \in Nat /\ k.index < k.last /\ k.last <= head

(* The entry at pos is that of a block p, not before the blocks of k; what *)
(* is after the last block of the index has been taken back.               *)
FindOK(k, top, hs, es, p) ==
  /\ es[hs[k.hdr].index[k.pos]].key = BLOCK_SIZE * p
  /\ Num(k.last - 1) <= p /\ p - Num(k.index) < hs[Len(hs)].capacity
  /\ \A m \in (Num(k.index) .. Num(k.last - 1)) \union {p} : Finds(k, hs, top, p, m)
  /\ \A n \in top + 1 .. p : es[Home(hs[Len(hs)], top, n)].value = NoBlock

FinderOK(k, top, hs, es) ==
  /\ k.pc \in {"find", "read"} => DOMAIN k = {"pc", "index", "last", "hdr", "pos"}
  /\ k.pc \in {"empty", "clear", "release"} => DOMAIN k = {"pc", "index", "last", "hdr", "pos", "block"}
  /\ k.pc \in Finding => k.hdr \in 1 .. Len(hs) /\ k.pos \in 0 .. hs[k.hdr].capacity - 1
  /\ k.pc = "find" => \E p \in Nat : FindOK(k, top, hs, es, p)
  /\ k.pc \in {"read", "empty", "clear"} =>
       FindsFrom(k, hs, top, Num(k.index))
  /\ k.pc = "release" =>
       FindsFrom(k, hs, top, Num(k.index) + 1)
  /\ k.pc \in {"empty", "clear"} => k.block = es[Home(hs[Len(hs)], top, Num(k.index))].value
  /\ k.pc = "release" => k.block \in Blocks

AllReaders(top, head, cs, hs, es) ==
  \A c \in Consumers : ReaderOK(cs[c], head) /\ FinderOK(cs[c], top, hs, es)

(* No element is claimed twice, and who takes a block out of the index is  *)
(* the only one, and the last.                                             *)
Apart(k, l) == Rest(k) \intersect Rest(l) = {}
ClaimsOK(head, cs) ==
  /\ \A c, d \in Consumers : c # d => Apart(cs[c], cs[d])
  /\ \A c \in Consumers, n \in Nat : Clears(cs[c], n) => Undone(n, head, cs) = {}
  /\ \A c, d \in Consumers, n \in Nat : Clears(cs[c], n) /\ Clears(cs[d], n) => c = d

Indexed(tail, head, p, cs, tb, hs, es, ecd, els, free) ==
  /\ IndexOK(tail, p, hs, es, ecd, els)
  /\ AllLiveOK(Top(tail, p), Given(tail, p), head, cs, hs[Len(hs)], es, ecd)
  /\ AllOnlyLive(Top(tail, p), Given(tail, p), head, cs, hs[Len(hs)], es)
  /\ OwnersOK(free, es, cs)
  /\ ProducerKnows(tail, p, tb, hs[Len(hs)], es)
  /\ ElementsOK(tail, Top(tail, p), head, cs, hs[Len(hs)], es, els)
  /\ AllReaders(Top(tail, p), head, cs, hs, es)
  /\ ClaimsOK(head, cs)

ImplicitInv ==
  Indexed(tailIndex, headIndex, producer, consumer, tailBlock, headers, entries,
          elementsCompletelyDequeued, elements, pool)
=============================================================================
