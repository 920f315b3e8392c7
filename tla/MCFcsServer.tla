---------------------------- MODULE MCFcsServer ----------------------------
EXTENDS FcsServer, TLC

CONSTANTS c1, c2

OneConn == {c1}
TwoConns == {c1, c2}
Symmetry == Permutations(Conns)

head(id, code, length) ==
  [client |-> 1, id |-> id, res1 |-> 0, length |-> length, res2 |-> 0, code |-> code]
ask(header, body) == [size |-> 4 + 4 * Len(body), header |-> header, body |-> body]

\* The payload of the second is the first: what a split makes a request of.
chipId == ask(head(1, getChipId, 0), <<>>)
mailbox == ask(head(2, mctp, 1), <<toUint32(chipId.header)>>)

OneAsk == {mailbox}
FewAsks == {chipId, mailbox}

Streams == UNION {[1 .. n -> Asks] : n \in 1 .. MaxAsked}
Flat(s) == LET f[k \in 0 .. Len(s)] == IF k = 0 THEN <<>> ELSE f[k - 1] \o WordsOf(s[k])
           IN f[Len(s)]

\* Whatever recv may take out of such streams, and one word more.
Taken ==
  {assemble(w) : w \in
     {v \in UNION {{SubSeq(Flat(s), i, j) : i \in 1 .. Len(Flat(s)), j \in 1 .. Len(Flat(s))}
                     : s \in Streams} : Len(v) \in 1 .. MaxWords + 1}}

\* By name, so that TLC evaluates the set only once.
AllTaken == Taken

=============================================================================
