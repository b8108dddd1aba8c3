------------------------------ MODULE DzHeader ------------------------------
(***************************************************************************)
(* How dictData opens a dictionary file (dictziplib.cpp): the header of a  *)
(* dictzip file, a gzip file whose extra field holds the lengths of its    *)
(* chunks, and where each chunk is.  ArticleData begins where this ends.   *)
(*                                                                         *)
(* A file is a sequence of bytes; places in it are counted from 0.         *)
(***************************************************************************)
EXTENDS Integers, Sequences

\* The bits of flags, GZ_RND_S1 and GZ_RND_S2, and places in a header.
FHCRC == 2
FEXTRA == 4
FNAME == 8
COMMENT == 16
RND_S1 == 82
RND_S2 == 65
FLG == 3
XLEN == 10
SI1 == 12
CHUNKLEN == 18
CHUNKCNT == 20
RNDDATA == 22

\* The place that names and comments are read to, whatever their length.
BUFFERSIZE == 10240

NUL == 0
EOF == -1

getc(file, p) == IF p < Len(file) THEN file[p + 1] ELSE EOF
Int16(file, p) == getc(file, p) + 256 * getc(file, p + 1)
Int32(file, p) == Int16(file, p) + 65536 * Int16(file, p + 2)
IsSet(flags, bit) == (flags \div bit) % 2 = 1

\* The length of the string at p: up to NUL or the end of the file.
StringLength(file, p) ==
    CHOOSE n \in 0 .. Len(file) :
        /\ getc(file, p + n) \in {NUL, EOF}
        /\ \A k \in 0 .. n - 1 : getc(file, p + k) \notin {NUL, EOF}

\* The extra field: where the file is after it, and the lengths of the chunks if
\* it is the table.  Any other one is skipped, but for its last byte.
ExtraField(file) ==
    LET isTable == getc(file, SI1) = RND_S1 \/ getc(file, SI1 + 1) = RND_S2
        n == Int16(file, CHUNKCNT)
    IN IF ~IsSet(getc(file, FLG), FEXTRA)
       THEN [type |-> "gzip", at |-> XLEN, length |-> 0, chunks |-> <<>>]
       ELSE IF isTable
       THEN [type |-> "dzip", at |-> RNDDATA + 2 * n, length |-> Int16(file, XLEN) + 2,
             chunks |-> [i \in 1 .. n |-> Int16(file, RNDDATA + 2 * (i - 1))]]
       ELSE [type |-> "gzip", at |-> XLEN - 1 + Int16(file, XLEN) + 2,
             length |-> Int16(file, XLEN) + 2, chunks |-> <<>>]

\* Mutant: the NUL after a string is not counted.
SkipStringShort(file, h, flag) ==
    LET n == StringLength(file, h.at)
    IN IF ~IsSet(getc(file, FLG), flag) THEN h
       ELSE [h EXCEPT !.at = @ + n + 1, !.length = @ + n]

\* A file name or a comment.
SkipString(file, h, flag) ==
    LET n == StringLength(file, h.at)
    IN IF ~IsSet(getc(file, FLG), flag) THEN h
       ELSE [h EXCEPT !.at = @ + n + 1, !.length = @ + n + 1]

SkipCRC(file, h) == IF IsSet(getc(file, FLG), FHCRC) THEN [h EXCEPT !.length = @ + 2] ELSE h

\* Where each chunk begins, the first one at start.
Offsets(chunks, start) ==
    LET After[i \in 0 .. Len(chunks)] == IF i = 0 THEN start ELSE After[i - 1] + chunks[i]
    IN [i \in 1 .. Len(chunks) |-> After[i - 1]]

\* read_header: headerLength is the place of the last byte of the header.
read_header(file) ==
    LET extra == ExtraField(file)
        h == SkipCRC(file, SkipString(file, SkipString(file, extra, FNAME), COMMENT))
        headerLength == XLEN - 1 + h.length
    IN IF getc(file, 0) # 31 \/ getc(file, 1) # 139
       THEN [ok |-> TRUE, type |-> "text", length |-> Len(file)]
       ELSE IF extra.type = "dzip" /\ extra.chunks = <<>> THEN [ok |-> FALSE]
       ELSE [ok |-> TRUE, type |-> extra.type, length |-> Int32(file, Len(file) - 4),
             chunkLength |-> Int16(file, CHUNKLEN),
             chunks |-> extra.chunks, offsets |-> Offsets(extra.chunks, headerLength + 1)]

\* The files of a directory that can be opened: regular ones with such a header.
open(files, fname) ==
    IF fname \notin DOMAIN files \/ ~read_header(files[fname]).ok THEN [ok |-> FALSE]
    ELSE [header |-> read_header(files[fname]), map |-> files[fname], ok |-> TRUE]
=============================================================================
