--------------------------- MODULE CookiePayload ----------------------------
(***************************************************************************)
(* What CookieJar.cpp does to cookies on their way to and from a client:   *)
(* serialize puts each cookie on a line, a checksum guards the lines and   *)
(* compress puts their size before them; Unpack takes all that back.       *)
(* Characters are bytes, and the module builds cookies one character at a  *)
(* time.  zlib, encryption and base64 are libraries: what they make of     *)
(* bytes is a value of its own kind, which only their inverse takes apart. *)
(***************************************************************************)
EXTENDS Integers, Sequences, SequencesExt

CONSTANTS
    checksum(_),  \* crc_checksum
    Letters,      \* characters of cookies other than the line feed
    MaxText       \* bound: characters in all cookies together

LF == 10

(* A size, and one up to twice as large, is put together in an int.        *)
ASSUME PayloadAssumption ==
    MaxText \in Nat /\ MaxText <= 1073741823 /\ Letters \subseteq 0..255 \ {LF}

Characters == Letters \cup {LF}

(* A cyclic redundancy check of 16 bits tells texts apart that differ in   *)
(* one byte, whatever their length.                                        *)
ASSUME ChecksumAssumption ==
    \A n \in 0..MaxText : \A text \in [1..n -> Characters] :
        \A i \in 1..n : \A c \in Characters \ {text[i]} :
            checksum([text EXCEPT ![i] = c]) # checksum(text)

VARIABLE texts    \* a vector of cookies

-----------------------------------------------------------------------------
serialize(cs) == FlattenSeq([i \in DOMAIN cs |-> Append(cs[i], LF)])

Line(acc, c) ==
    IF c # LF THEN [acc EXCEPT !.line = Append(@, c)]
    ELSE [done |-> IF acc.line = <<>> THEN acc.done ELSE Append(acc.done, acc.line),
          line |-> <<>>]

NoLine == [done |-> <<>>, line |-> <<>>]
Read(text) == FoldLeft(Line, NoLine, text)

(* getline until the end of the text, without the lines that are empty.    *)
deserialize(text) ==
    IF Read(text).line = <<>> THEN Read(text).done
    ELSE Append(Read(text).done, Read(text).line)

-----------------------------------------------------------------------------
(* The size, most significant byte first, before what zlib makes of them.  *)
Header(n) == <<(n \div 16777216) % 256, (n \div 65536) % 256, (n \div 256) % 256, n % 256>>
deflate(text) == <<[deflated |-> text]>>
compress(text) ==
    IF text = <<>> THEN Header(0) ELSE Header(Len(text)) \o deflate(text)

expectedSize(data) == data[1] * 16777216 + data[2] * 65536 + data[3] * 256 + data[4]

(* The room for n characters: what is there first, doubled until zlib is   *)
(* content, which it is with the only such number from n up to 2 * n.      *)
Room(first, n) ==
    IF first >= n THEN first
    ELSE Max({first} \cup {m \in n..(2 * n - 1) : \E k \in 1..n : m = first * 2^k})

Zeros(n) == [i \in 1..n |-> 0]
Inflated(data, room) == data[5].deflated \o Zeros(room - Len(data[5].deflated))

(* Faulty form: room for a zero at the end, as strings in C have it.       *)
uncompressWithZero(data) ==
    IF Len(data) <= 4 THEN <<>>
    ELSE Inflated(data, Room(Max({expectedSize(data), 1}) + 1, Len(data[5].deflated)))

(* What the lines do not fill of the room stays zero.                      *)
uncompress(data) ==
    IF Len(data) <= 4 THEN <<>>
    ELSE Inflated(data, Room(Max({expectedSize(data), 1}), Len(data[5].deflated)))

toBase64(bytes) == [base64 |-> bytes]
fromBase64(text) == text.base64
Encrypt(bytes) == [encrypted |-> bytes]
Decrypt(bytes) == bytes.encrypted

Pack(cs) ==
    [checksum |-> checksum(serialize(cs)),
     payload |-> toBase64(Encrypt(compress(serialize(cs))))]

(* Nothing a text gives: no character is 256.                              *)
Refused == <<<<256>>>>

Unpack(sum, payload) ==
    LET serialized == uncompress(Decrypt(fromBase64(payload)))
    IN  IF checksum(serialized) = sum THEN deserialize(serialized) ELSE Refused

-----------------------------------------------------------------------------
PayloadInit == texts = <<>>

(* The browser has one cookie more, or a cookie one character more.        *)
NewCookie ==
    /\ Len(serialize(texts)) < MaxText
    /\ texts' = Append(texts, <<>>)

Character ==
    /\ texts # <<>> /\ Len(serialize(texts)) < MaxText
    /\ \E c \in Characters : texts' = [texts EXCEPT ![Len(texts)] = Append(@, c)]

PayloadNext == NewCookie \/ Character

-----------------------------------------------------------------------------
Clean(c) == c # <<>> /\ \A i \in DOMAIN c : c[i] # LF

(* The characters of a text that are not line feeds.                       *)
Keep(kept, c) == IF c = LF THEN kept ELSE Append(kept, c)
Feedless(text) == FoldLeft(Keep, <<>>, text)

Survive(back) ==
    /\ (\A i \in DOMAIN texts : Clean(texts[i])) => back = texts
    /\ \A i \in DOMAIN back : Clean(back[i])
    /\ FlattenSeq(back) = Feedless(FlattenSeq(texts))

(* Cookies survive packing and unpacking if none is empty or has a line    *)
(* feed in it; whatever they are, unpacking gives no other characters than *)
(* they have and no empty cookie (Survive).  Lines of which one character  *)
(* was changed on the way are refused.  A size that was changed, which the *)
(* checksum does not cover, changes no cookie: at worst there is one of    *)
(* zeros behind them, if the checksum does not see it (Pack, Unpack).      *)
RoundTrip ==
    LET sent == Pack(texts)
        text == serialize(texts)
        back == Unpack(sent.checksum, sent.payload)
        With(bytes) == Unpack(sent.checksum, toBase64(Encrypt(bytes)))
    IN  /\ Survive(back)
        /\ \A i \in DOMAIN text : \A c \in Characters \ {text[i]} :
              With(compress([text EXCEPT ![i] = c])) = Refused
        /\ text # <<>> => \A n \in 0..(2 * MaxText) :
              \/ With(Header(n) \o deflate(text)) \in {back, Refused}
              \/ \E m \in 1..(2 * MaxText) :
                    With(Header(n) \o deflate(text)) = Append(back, Zeros(m))
=============================================================================
