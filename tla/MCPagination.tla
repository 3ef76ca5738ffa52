---------------------------- MODULE MCPagination ----------------------------
(***************************************************************************)
(* Pagination for TLC: collections of up to four items on pages of one or  *)
(* two, so that last pages are full, short or empty, and max_pages is less *)
(* than, equal to and more than the pages there are.                       *)
(***************************************************************************)
EXTENDS Pagination

MCKinds == {"paginator", "inventory", "calls", "faxes", "page"}
=============================================================================
