----------------------------- MODULE LinkedList -----------------------------
(***************************************************************************)
(* The database-backed list index of chain/src/linked_list.rs              *)
(* (MultiIndex): per commitment a list of increasing positions, newest     *)
(* first.  `db' is what the index keeps in the database: `list' maps a     *)
(* commitment to the wrapper of its list, `entry' maps <<commit, pos>> to  *)
(* a doubly linked entry.  A list of one position has no entries.          *)
(*                                                                         *)
(* An element is a record with a field `pos'.  Every operation returns     *)
(* what the code returns (`ok', and `pos' for the popped element) with the *)
(* database it leaves; after an error the caller abandons its batch.       *)
(***************************************************************************)
EXTENDS Integers, Sequences, Functions, TLC

None == [tag |-> "none"]
Empty == [list |-> <<>>, entry |-> <<>>]

Single(x) == [tag |-> "Single", pos |-> x]
Multi(h, t) == [tag |-> "Multi", head |-> h, tail |-> t]

Head_(x, next) == [tag |-> "Head", pos |-> x, next |-> next]
Tail_(x, prev) == [tag |-> "Tail", pos |-> x, prev |-> prev]
Middle(x, next, prev) == [tag |-> "Middle", pos |-> x, next |-> next, prev |-> prev]

get_list(db, c) == IF c \in DOMAIN db.list THEN db.list[c] ELSE None
get_entry(db, c, p) == IF <<c, p>> \in DOMAIN db.entry THEN db.entry[<<c, p>>] ELSE None

put_list(db, c, l) == [db EXCEPT !.list = (c :> l) @@ @]
put_entry(db, c, e) == [db EXCEPT !.entry = (<<c, e.pos.pos>> :> e) @@ @]
delete_list(db, c) == [db EXCEPT !.list = Restrict(@, DOMAIN @ \ {c})]
delete_entry(db, c, x) == [db EXCEPT !.entry = Restrict(@, DOMAIN @ \ {<<c, x.pos>>})]

Ok(db, x) == [ok |-> TRUE, db |-> db, pos |-> x]
Err(db) == [ok |-> FALSE, db |-> db, pos |-> None]

\* The newest element, None for an empty list
peek_pos(db, c) ==
    LET l == get_list(db, c)
        e == get_entry(db, c, l.head)
    IN  CASE l.tag = "none" -> Ok(db, None)
          [] l.tag = "Single" -> Ok(db, l.pos)
          [] l.tag = "Multi" -> IF e.tag = "Head" THEN Ok(db, e.pos) ELSE Err(db)

push_pos(db, c, x) ==
    LET l == get_list(db, c)
        e == get_entry(db, c, l.head)
    IN  CASE l.tag = "none" -> Ok(put_list(db, c, Single(x)), None)
          [] l.tag = "Single" ->
                IF x.pos <= l.pos.pos THEN Err(db)
                ELSE Ok(put_list(put_entry(put_entry(db, c, Head_(x, l.pos.pos)),
                                           c, Tail_(l.pos, x.pos)),
                                 c, Multi(x.pos, l.pos.pos)), None)
          [] l.tag = "Multi" ->
                IF x.pos <= l.head \/ e.tag # "Head" THEN Err(db)
                ELSE Ok(put_list(put_entry(put_entry(db, c, Head_(x, e.pos.pos)),
                                           c, Middle(e.pos, e.next, x.pos)),
                                 c, Multi(x.pos, l.tail)), None)

\* Of the two entries of a list of two only the popped one is deleted; the other
\* stays behind when the list goes back to a single position.
pop_pos(db, c) ==
    LET l == get_list(db, c)
        e == get_entry(db, c, l.head)
        n == get_entry(db, c, e.next)
        rest == delete_entry(db, c, e.pos)
    IN  CASE l.tag = "none" -> Ok(db, None)
          [] l.tag = "Single" -> Ok(delete_list(db, c), l.pos)
          [] l.tag = "Multi" ->
                CASE e.tag # "Head" -> Err(db)
                  [] e.tag = "Head" ->
                        CASE n.tag = "Middle" ->
                                Ok(put_list(put_entry(rest, c, Head_(n.pos, n.next)),
                                            c, Multi(n.pos.pos, l.tail)), e.pos)
                          [] n.tag = "Tail" -> Ok(put_list(rest, c, Single(n.pos)), e.pos)
                          [] OTHER -> Err(db)

pop_pos_back(db, c) ==
    LET l == get_list(db, c)
        e == get_entry(db, c, l.tail)
        p == get_entry(db, c, e.prev)
        rest == delete_entry(db, c, e.pos)
    IN  CASE l.tag = "none" -> Ok(db, None)
          [] l.tag = "Single" -> Ok(delete_list(db, c), l.pos)
          [] l.tag = "Multi" ->
                CASE e.tag # "Tail" -> Err(db)
                  [] e.tag = "Tail" ->
                        CASE p.tag = "Middle" ->
                                Ok(put_list(put_entry(rest, c, Tail_(p.pos, p.prev)),
                                            c, Multi(l.head, p.pos.pos)), e.pos)
                          [] p.tag = "Head" -> Ok(put_list(rest, c, Single(p.pos)), e.pos)
                          [] OTHER -> Err(db)

\* Pops as long as the newest position is above rewind_pos
RECURSIVE rewind(_, _, _)
rewind(db, c, rewind_pos) ==
    LET top == peek_pos(db, c)
        popped == pop_pos(db, c)
    IN  IF ~ top.ok THEN Err(db)
        ELSE IF top.pos = None THEN Ok(db, None)
        ELSE IF top.pos.pos <= rewind_pos THEN Ok(db, None)
        ELSE IF ~ popped.ok THEN Err(db)
        ELSE rewind(popped.db, c, rewind_pos)

clear(db) == Empty
=============================================================================
