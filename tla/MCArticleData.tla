--------------------------- MODULE MCArticleData ----------------------------
(* A file of three chunks of two bytes.  Its articles lie within a chunk, or *)
(* across two or three of them, end on a boundary, overlap or are the same.  *)
EXTENDS ArticleData

Article(offset, size) == [offset |-> offset, size |-> size]

\* The last index has an article that ends where the last chunk does.
MCIndices ==
    {<<Article(0, 1), Article(1, 4), Article(2, 2)>>,
     <<Article(1, 4), Article(0, 2), Article(1, 4)>>,
     <<Article(4, 1), Article(0, 5), Article(5, 1)>>}
=============================================================================
