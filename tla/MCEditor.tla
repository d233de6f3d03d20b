------------------------------ MODULE MCEditor ------------------------------
(***************************************************************************)
(* Small texts for Editor.                                                 *)
(***************************************************************************)
EXTENDS Editor

CONSTANTS a

\* No file, and a file of two lines that fits.
FilesThatFit == {<<>>, <<a, NL, Space>>}

\* Texts of one and of three bytes in the place of others.
StrayTexts == {<<Space>>, <<a, NL, a>>}

\* A file that ends its last possible line with a line feed, and one as long as
\* what is saved.
FilesAtLimits == {<<a, NL, a, NL>>, <<a, a, NL, a>>}
=============================================================================
