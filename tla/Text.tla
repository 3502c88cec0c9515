-------------------------------- MODULE Text --------------------------------
(***************************************************************************)
(* Names (src/mydvb_text.c): decoded from the bytes of a descriptor into   *)
(* unicode, written as UTF-8.  A text is a sequence of codes; a missing    *)
(* text and an empty one are both <<>>, for both are written as nothing.   *)
(***************************************************************************)
EXTENDS Integers, Sequences, SequencesExt

(* The upper half, from 0xA0, of pages 0 to 4, which are all the same; 0   *)
(* where a byte has no character.                                          *)
Latin ==
  <<\h00a0,\h00a1,\h00a2,\h00a3,\h20ac,\h00a5,0,\h00a7,\h00a4,\h2018,\h201c,\h00ab,
    \h2190,\h2191,\h2192,\h2193,\h00b0,\h00b1,\h00b2,\h00b3,\h00d7,\h00b5,\h00b6,
    \h00b7,\h00f7,\h2019,\h201d,\h00bb,\h00bc,\h00bd,\h00be,\h00bf,0,\h0300,\h0301,
    \h0302,\h0303,\h0304,\h0306,\h0307,\h0308,0,\h030a,\h0327,0,\h030b,\h0328,\h030c,
    \h2015,\h00b9,\h00ae,\h00a9,\h2122,\h266a,\h00ac,\h00a6,0,0,0,0,\h215b,\h215c,
    \h215d,\h215e,\h2126,\h00c6,\h0110,\h00aa,\h0126,0,\h0132,\h013f,\h0141,\h00d8,
    \h0152,\h00ba,\h00de,\h0166,\h014a,\h0149,\h0138,\h00e6,\h0111,\h03b4,\h0127,
    \h0131,\h0133,\h0140,\h0142,\h00f8,\h0153,\h00df,\h00fe,\h0167,\h014b,\h00ad>>

(* Page 5 is that of ISO 8859-9. *)
Turkish == [b \in {\hd0, \hdd, \hde, \hf0, \hfd, \hfe} |->
  CASE b = \hd0 -> \h011e [] b = \hdd -> \h0130 [] b = \hde -> \h015e
    [] b = \hf0 -> \h011f [] b = \hfd -> \h0131 [] b = \hfe -> \h015f]

(* _mydvb_text_table_pages *)
Page(page, b) ==
  CASE b < 127 -> b
    [] b = 127 -> 0
    [] b >= 160 /\ page < 5 -> Latin[b - 159]
    [] b >= 160 /\ page = 5 -> IF b \in DOMAIN Turkish THEN Turkish[b] ELSE b

Printable(b) == b >= 32 /\ (b < 128 \/ b > 159)

(* mydvb_text_create: a first byte that is a control code chooses the page; *)
(* the text of a page that is not implemented is empty.                     *)
TextCreate(buf) ==
  LET page == IF buf # <<>> /\ buf[1] < 32 THEN buf[1] ELSE 0
      upTo[i \in 0..Len(buf)] ==
        IF i = 0 THEN <<>>
        ELSE IF Printable(buf[i]) THEN Append(upTo[i - 1], Page(page, buf[i]))
        ELSE upTo[i - 1]
  IN  IF page > 5 THEN <<>> ELSE upTo[Len(buf)]

-----------------------------------------------------------------------------
(* _unicode_to_utf8 goes over the codes twice: for the size of the buffer  *)
(* and for the bytes.                                                      *)

Utf8Size_mutant(u) == IF u <= \h7f THEN 1 ELSE 2  \* as if all were Latin-1
Utf8Size(u) ==
  CASE u <= \h7f -> 1
    [] u > \h7f /\ u <= \h7ff -> 2
    [] u > \h7ff /\ u <= \hffff -> 3
    [] u > \hffff /\ u <= \h10ffff -> 4
    [] u > \h10ffff -> 3

Utf8(u) ==
  CASE u <= \h7f -> <<u>>
    [] u > \h7f /\ u <= \h7ff -> <<\hc0 + u \div 64, \h80 + (u % 64)>>
    [] u > \h7ff /\ u <= \hffff ->
         <<\he0 + u \div 4096, \h80 + ((u \div 64) % 64), \h80 + (u % 64)>>
    [] u > \hffff /\ u <= \h10ffff ->
         <<\hf0 + u \div 262144, \h80 + ((u \div 4096) % 64),
           \h80 + ((u \div 64) % 64), \h80 + (u % 64)>>
    [] u > \h10ffff -> <<\hef, \hbf, \hbd>>

(* malloc (ut8_len + 1) and what is written there, its end included *)
Allocated(text) ==
  LET upTo[i \in 0..Len(text)] ==
        IF i = 0 THEN 1 ELSE upTo[i - 1] + Utf8Size(text[i])
  IN  upTo[Len(text)]
Written(text)   == FlattenSeq([i \in DOMAIN text |-> Utf8(text[i])]) \o <<0>>

(* What a reader of the C string sees: a byte without character ends it.   *)
ToUtf8(text) ==
  LET bytes == Written(text)
  IN  SubSeq(bytes, 1, (CHOOSE n \in DOMAIN bytes :
                          bytes[n] = 0 /\ \A m \in 1..n - 1 : bytes[m] # 0) - 1)

Ascii(text) == \A i \in DOMAIN text : text[i] \in 32..126
=============================================================================
