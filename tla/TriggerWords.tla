---------------------------- MODULE TriggerWords ----------------------------
(***************************************************************************)
(* The trigger words of BDX-MINI, as triggerDataBDXmini_factory decodes    *)
(* them: pairs (mask of the triggers, time) up to a pair of MAGIC words,   *)
(* and then blocks of four words for the channels that fired, a mask and a *)
(* time of two words each, the lower one first.  One step reads one pair   *)
(* or one block.                                                           *)
(*                                                                         *)
(* A word has WordBits bits (32 in the code), and there are WordBits       *)
(* triggers and 2*WordBits channels.  The time of a block is two words     *)
(* wide and signed.                                                        *)
(***************************************************************************)
EXTENDS Integers, Sequences, FiniteSets, SequencesExt

CONSTANTS
    WordBits,                  \* bits of a word
    MAGIC_TRG_WORD,
    chanTimeMin, chanTimeMax,  \* BDXMINI:TRG_MIN_TIME and TRG_MAX_TIME
    Sent                       \* what the DAQ may send, see Format

Radix == 2^WordBits          \* how many values a word has
Word  == 0..(Radix - 1)

\* The second conjunct is there for the provers, which know no powers.
ASSUME TriggerWordsAssumption ==
    /\ WordBits \in Nat \ {0}
    /\ Radix \in Nat \ {0}
    /\ MAGIC_TRG_WORD \in Word
    /\ chanTimeMin \in Int /\ chanTimeMax \in Int

nTriggersMAX == WordBits
nChansMAX    == 2 * WordBits

VARIABLES
    sent,         \* what the DAQ has sent, in its own terms
    triggerWords, \* eventData::triggerWords, made of it
    stage,        \* "off", "pairs", "blocks" or "decoded"
    ii, jj,       \* the pair and the block that is next
    trgTimes,     \* the times of each trigger
    channels, channelsTRG

wordVars == <<sent, triggerWords, stage, ii, jj, trgTimes, channels, channelsTRG>>

\* The words of an event: its pairs, the two MAGIC words unless they are
\* missing, its blocks, and up to three words more.
Format(s) ==
    LET pairs  == 2 * Len(s.pairs)
        magic  == IF s.magic THEN pairs + 2 ELSE pairs
        blocks == magic + 4 * Len(s.blocks)
    IN  [i \in 1..(blocks + Len(s.rest)) |->
            IF i <= pairs  THEN s.pairs[(i + 1) \div 2][2 - (i % 2)]         ELSE
            IF i <= magic  THEN MAGIC_TRG_WORD                               ELSE
            IF i <= blocks THEN s.blocks[(i - magic + 3) \div 4][((i - magic - 1) % 4) + 1]
                           ELSE s.rest[i - blocks]]

\* What the format relies on: no pair is made of two MAGIC words, and where
\* the MAGIC words are missing, no two words with a block behind them look
\* like them.
ASSUME SentAssumption ==
    \A s \in Sent :
        /\ s.pairs \in Seq(Word \X Word) /\ s.magic \in BOOLEAN
        /\ s.blocks \in Seq(Word \X Word \X Word \X Word)
        /\ s.rest \in Seq(Word) /\ Len(s.rest) <= 3
        /\ LET w == Format(s)
           IN  \A i \in 0..(Len(w) \div 2 - 1) :
                 w[2 * i + 1] = MAGIC_TRG_WORD /\ w[2 * i + 2] = MAGIC_TRG_WORD =>
                     /\ i >= Len(s.pairs)
                     /\ s.magic \/ Len(w) - 2 * (i + 1) < 4

Nothing == [pairs |-> << >>, magic |-> TRUE, blocks |-> << >>, rest |-> << >>]

NoTimes == [k \in 0..(nTriggersMAX - 1) |-> << >>]

InitWords ==
    /\ sent = Nothing /\ triggerWords = << >> /\ stage = "off"
    /\ ii = 0 /\ jj = 0
    /\ trgTimes = NoTimes /\ channels = {} /\ channelsTRG = {}

Bit(w, k) == (w \div 2^k) % 2 = 1

\* A word kept as an int.
AsInt(w) == IF w >= Radix \div 2 THEN w - Radix ELSE w

\* triggerWords[i]; indices start at 0.
At(i) == triggerWords[i + 1]

\* evnt up to the loop over the pairs.
StartDecoding ==
    /\ stage = "off"
    /\ \E s \in Sent : sent' = s /\ triggerWords' = Format(s)
    /\ stage' = "pairs" /\ ii' = 0 /\ jj' = 0
    /\ trgTimes' = NoTimes /\ channels' = {} /\ channelsTRG' = {}

MagicPair ==
    At(2 * ii) = MAGIC_TRG_WORD /\ At(2 * ii + 1) = MAGIC_TRG_WORD

\* The loop goes on to the end of the words or to the MAGIC pair.
MorePairs == ii < Len(triggerWords) \div 2 /\ ~MagicPair

DecodePair ==
    /\ stage = "pairs" /\ MorePairs
    /\ trgTimes' = [k \in DOMAIN trgTimes |->
                       IF Bit(At(2 * ii), k)
                       THEN Append(trgTimes[k], AsInt(At(2 * ii + 1)))
                       ELSE trgTimes[k]]
    /\ ii' = ii + 1
    /\ UNCHANGED <<sent, triggerWords, stage, jj, channels, channelsTRG>>

\* ii++: past the MAGIC pair.
EndPairs ==
    /\ stage = "pairs" /\ ~MorePairs
    /\ ii' = ii + 1
    /\ stage' = "blocks"
    /\ UNCHANGED <<sent, triggerWords, jj, trgTimes, channels, channelsTRG>>

\* nwords: the blocks of four that remain.  Without a MAGIC pair ii is past
\* the end and the remainder is -2 or -1, which C++ divides by 4 to 0.
nwords ==
    LET left == Len(triggerWords) - 2 * ii
    IN  IF left < 0 THEN -((-left) \div 4) ELSE left \div 4

\* As ChanTime, without the sign.
ChanTime_Unsigned(lo, hi) == hi * Radix + lo

\* Two words as a signed integer of twice the width.
ChanTime(lo, hi) ==
    LET u == hi * Radix + lo
    IN  IF u >= Radix * (Radix \div 2) THEN u - Radix * Radix ELSE u

Fired(lo, hi) == {k \in 0..(nChansMAX - 1) : Bit(hi * Radix + lo, k)}

DecodeBlock ==
    /\ stage = "blocks" /\ jj < nwords
    /\ LET at    == 2 * ii + 4 * jj
           fired == Fired(At(at), At(at + 1))
           time  == ChanTime(At(at + 2), At(at + 3))
       IN  /\ channels' = channels \cup fired
           /\ channelsTRG' = IF time >= chanTimeMin /\ time <= chanTimeMax
                             THEN channelsTRG \cup fired ELSE channelsTRG
    /\ jj' = jj + 1
    /\ UNCHANGED <<sent, triggerWords, stage, ii, trgTimes>>

\* The object is made of what was read, and published.
EndBlocks ==
    /\ stage = "blocks" /\ jj >= nwords
    /\ stage' = "decoded"
    /\ UNCHANGED <<sent, triggerWords, ii, jj, trgTimes, channels, channelsTRG>>

DecodeStep == DecodePair \/ EndPairs \/ DecodeBlock \/ EndBlocks

\* The objects of the event are deleted when it is done (JFactory::Reset).
ForgetWords ==
    /\ sent' = Nothing /\ triggerWords' = << >> /\ stage' = "off"
    /\ ii' = 0 /\ jj' = 0
    /\ trgTimes' = NoTimes /\ channels' = {} /\ channelsTRG' = {}

WordsTypeOK ==
    /\ triggerWords \in Seq(Word)
    /\ stage \in {"off", "pairs", "blocks", "decoded"}
    /\ ii \in 0..(Len(triggerWords) \div 2 + 1)
    /\ jj \in 0..(Len(triggerWords) \div 4)
    /\ trgTimes \in [0..(nTriggersMAX - 1) -> Seq(Int)]
    /\ channels \in SUBSET (0..(nChansMAX - 1))
    /\ channelsTRG \in SUBSET channels

-----------------------------------------------------------------------------
(***************************************************************************)
(* Properties.                                                             *)
(***************************************************************************)

\* The times the DAQ has sent for trigger k, in their order: those of the
\* pairs with its bit.
TimesSent(times, k) ==
    \E from \in [1..Len(times) -> DOMAIN sent.pairs] :
        /\ \A i, j \in 1..Len(times) : i < j => from[i] < from[j]
        /\ \A p \in DOMAIN sent.pairs :
              Bit(sent.pairs[p][1], k) <=> \E i \in 1..Len(times) : from[i] = p
        /\ \A i \in 1..Len(times) : times[i] = AsInt(sent.pairs[from[i]][2])

BlocksSent == IF sent.magic THEN ToSet(sent.blocks) ELSE {}

\* The time of a block as the DAQ means it: a channel fires before the
\* trigger or after it.
TimeSent(b) == IF b[4] >= Radix \div 2
               THEN b[3] - Radix * (Radix - b[4])
               ELSE b[3] + Radix * b[4]

\* The decoded object says what the DAQ has sent.  With the MAGIC words between
\* pairs and blocks: for each trigger its times in order, and the channels of
\* all blocks; as channels in time with the trigger those of the blocks with a
\* time in the window, before or after it; words left over at the end change
\* nothing.  Without the MAGIC words there are no channels at all, and nothing
\* is claimed of the times: the loop over the pairs then takes the words of
\* the blocks for pairs.
WordsDecoded ==
    stage = "decoded" =>
        /\ sent.magic => \A k \in DOMAIN trgTimes : TimesSent(trgTimes[k], k)
        /\ channels = UNION {Fired(b[1], b[2]) : b \in BlocksSent}
        /\ channelsTRG = UNION {Fired(b[1], b[2]) : b \in
              {c \in BlocksSent : TimeSent(c) \in chanTimeMin..chanTimeMax}}
=============================================================================
