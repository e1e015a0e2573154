------------------------------ MODULE MCPaging ------------------------------
(* Paging with reference strings of bounded length over a few pages.       *)
(* Pages are model values and only compared, so they are symmetric.        *)
EXTENDS Paging

PageSymmetry == Permutations(Pages)
=============================================================================
