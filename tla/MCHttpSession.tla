----------------------------- MODULE MCHttpSession -----------------------------
(* Small instances of HttpSession. *)
EXTENDS HttpSession

\* After the request line, a header that ends in the first block, or later; a body of none, less than a block, and more.
ShortAndLong == {1, 2}
NoneShortLong == {0, 1, 3}

=============================================================================
