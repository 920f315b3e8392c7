-------------------------- MODULE MCMessageHandler --------------------------
EXTENDS MessageHandler

\* Two senders; every known code, one nobody knows, and lengths that match a
\* size below or not.
TwoHeaders ==
  {[client |-> s.client, id |-> s.id, res1 |-> s.bit, length |-> n, res2 |-> s.bit,
    code |-> c] : s \in {[client |-> 9, id |-> 5, bit |-> 1], [client |-> 0, id |-> 3, bit |-> 0]},
                  n \in 0 .. 3, c \in Known \cup {17}}

\* 35 does not fit five bits, 357 not eight.
SomeWords == {SIGMA_TEARDOWN_MAGIC, 35, 357}

\* Below a header, a bare header, and up to three words, also cut inside a word.
SomeRequests ==
  Message(0, {EmptyHeader}, {}) \cup Message(3, {EmptyHeader}, {})
    \cup UNION {Message(n, TwoHeaders, SomeWords) : n \in {4, 5, 8, 12, 15, 16}}

\* One sender, for the runs that end in a counterexample.
CertificateRequests ==
  Message(8, {h \in TwoHeaders : h.client = 9 /\ h.length = 1}, SomeWords)

\* Within the code field, cut by it (to 0 and to 1), and negative: -1 is what
\* sendIoctl puts there.
SomeStatuses == {-2048, -1, 0, 1, 2047, 2048, 2049}
\* Nothing, a word, not whole words, and around the limits.
SomeRspSizes == {0, 4, 6, 820, 824, 4092, 4096, 4100}

=============================================================================
