---------------------------- MODULE PageHistory -----------------------------
(***************************************************************************)
(* The LinkedList of pages of project4 (LinkedList.h, LinkedList.cpp), as  *)
(* a sequence from Head to Tail.                                           *)
(***************************************************************************)
EXTENDS Integers, SequencesExt

NoPage == -1   \* EMPTY, NOT_FOUND, and RemoveTail's answer for no list

AddToHead(list, page) == <<page>> \o list

(* Mutation: the newest page is returned.                                  *)
HeadPage(list) == IF list = <<>> THEN NoPage ELSE Head(list)

(* RemoveTail returns the last page, but takes it off only if it is not    *)
(* the only one.                                                           *)
TailPage(list) == IF list = <<>> THEN NoPage ELSE Last(list)
WithoutTail(list) == IF Len(list) > 1 THEN Front(list) ELSE list

(* Remove(page) has no end when page is not in a list that is not empty:   *)
(* at the last node, the loop stays where it is.                           *)
RemoveEnds(list, page) == list # <<>> => Contains(list, page)

(* Mutation: MoveToHead forgets to put the page back in front.             *)
MovedNowhere(list, page) == list

(* MoveToHead(page), when its Remove ends.                                 *)
MoveToHead(list, page) ==
  IF list = <<>> \/ Head(list) = page
  THEN list
  ELSE AddToHead(RemoveFirst(list, page), page)

MoveToHeadEnds(list, page) ==
  list = <<>> \/ Head(list) = page \/ RemoveEnds(list, page)
=============================================================================
