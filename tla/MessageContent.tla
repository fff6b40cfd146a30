---------------------------- MODULE MessageContent ----------------------------
(***************************************************************************)
(* What the pipeline detects in a message: the text and mention helpers of *)
(* message_pipeline.py, IntentRouter.detect, PassiveIntentDetector.detect  *)
(* and the filters of KleeCoreRepeatService.add_message.                   *)
(*                                                                         *)
(* An event carries a sequence of segments.  Of a segment the model keeps  *)
(* its type, its text if it is one, whom it mentions, which URL patterns   *)
(* match its text, card or CQ code, and whether that is longer than a      *)
(* repeat may be.  raw_message is the segments' CQ codes in order, as      *)
(* NapCat writes them, so it holds every URL that a segment holds.         *)
(***************************************************************************)
EXTENDS Naturals, Sequences, FiniteSetsExt

CONSTANTS
    Texts,               \* the texts of text segments
    Blank,               \* one without a word
    Prefixed,            \* those that begin with # or /
    Keywords,            \* those whose first word is in bq.json
    Spaced,              \* those that are short once their blanks are collapsed
    Rules                \* _regex_rules, in the order of routes.yaml

Marks == {"url", "bilibili", "douyin", "xiaohongshu", "video"}

MediaTypes == {"image", "record", "video"}

RichCardTypes == {"json", "xml", "share", "video"}

ASSUME ContentAssumption ==
    /\ Blank \in Texts
    /\ Prefixed \cup Keywords \cup Spaced \subseteq Texts \ {Blank}
    /\ \A i \in DOMAIN Rules : Rules[i].matches \subseteq Texts

-----------------------------------------------------------------------------
(* Text, mentions and command rules *)

SegmentsOf(e) == {e.segments[i] : i \in DOMAIN e.segments}

\* A text segment of blanks.
IsBlank(s) == s.type = "text" /\ s.text = Blank

\* The first segment that strip() leaves something of, 0 if there is none.
FirstWord(e) ==
    LET words == {i \in DOMAIN e.segments : ~IsBlank(e.segments[i])}
    IN  IF words = {} THEN 0 ELSE Min(words)

\* The text of the text segments, stripped (a message has one with words).
NormalizedText(e) ==
    LET words == {s.text : s \in {t \in SegmentsOf(e) : t.type = "text"}} \ {Blank}
    IN  IF words = {} THEN Blank ELSE CHOOSE text \in words : TRUE

MentionsBot(e) == \E s \in SegmentsOf(e) : s.type = "at" /\ s.to \in {"all", e.bot}

Matching(e) ==
    {i \in DOMAIN Rules : /\ NormalizedText(e) \in Rules[i].matches
                          /\ Rules[i].mention => MentionsBot(e)}

\* detect: the keywords, then the first rule that matches.
DetectIntent(e) ==
    IF NormalizedText(e) = Blank THEN "none"
    ELSE IF NormalizedText(e) \in Keywords THEN "yunzai"
    ELSE IF Matching(e) = {} THEN "none" ELSE Rules[Min(Matching(e))].handler

-----------------------------------------------------------------------------
(* Passive intents *)

\* Every pattern is searched for in all text, raw_message included.
AllMarks(e) == UNION {s.marks : s \in SegmentsOf(e)}

Cards(e) == {s \in SegmentsOf(e) : s.type \in RichCardTypes}

\* A video has its URL in a field that is not looked at here.
CardMarks(e) == UNION {s.marks : s \in {t \in Cards(e) : t.type # "video"}}

LinkIntents == {"url", "bilibili_link", "douyin_link", "xiaohongshu_link", "video_link"}

CardIntents == {"rich_card", "bilibili_card", "douyin_card", "xiaohongshu_card"}

LinkIntentsOf(e) ==
    LET found == AllMarks(e) IN
    {i \in LinkIntents :
       \/ i = "url" /\ "url" \in found
       \/ i = "bilibili_link" /\ "bilibili" \in found
       \/ i = "douyin_link" /\ "douyin" \in found
       \/ i = "xiaohongshu_link" /\ "xiaohongshu" \in found
       \/ i = "video_link" /\ "video" \in found /\ found \cap {"bilibili", "douyin"} # {}}

CardIntentsOf(e) ==
    {i \in CardIntents :
       /\ Cards(e) # {}
       /\ \/ i = "rich_card"
          \/ i = "bilibili_card" /\ "bilibili" \in CardMarks(e)
          \/ i = "douyin_card" /\ "douyin" \in CardMarks(e)
          \/ i = "xiaohongshu_card" /\ "xiaohongshu" \in CardMarks(e)}

RawIsPrefixed(e) ==
    /\ FirstWord(e) # 0
    /\ LET s == e.segments[FirstWord(e)] IN s.type = "text" /\ s.text \in Prefixed

IsMediaOnly(e) == Len(e.segments) = 1 /\ e.segments[1].type \in MediaTypes

\* _is_repeat_candidate
IsRepeatCandidate(e) ==
    /\ LinkIntentsOf(e) \cup CardIntentsOf(e) = {}
    /\ FirstWord(e) # 0 /\ ~RawIsPrefixed(e)
    /\ ~IsMediaOnly(e)

HasLink(e) ==
    LinkIntentsOf(e) \cap {"bilibili_link", "douyin_link", "xiaohongshu_link", "url"} # {}

HasCard(e) == CardIntentsOf(e) # {}

-----------------------------------------------------------------------------
(* Repeat filters.  min_length is 1: what has a word is long enough. *)

\* Mutant: a picture on its own is not looked for.
Body_NoMedia(e) ==
    IF FirstWord(e) = 0 \/ RawIsPrefixed(e) \/ \E s \in SegmentsOf(e) : s.long
    THEN "other" ELSE "text"

\* What the router's filter sees of the message apart from links and cards.
Body(e) ==
    IF IsMediaOnly(e) THEN "media"
    ELSE IF FirstWord(e) = 0 \/ RawIsPrefixed(e) \/ \E s \in SegmentsOf(e) : s.long
         THEN "other" ELSE "text"

\* add_message keeps the message: its length is that of the collapsed text.
KeptByCache(e, command) ==
    /\ ~command /\ ~RawIsPrefixed(e)
    /\ LinkIntentsOf(e) = {} /\ CardIntentsOf(e) = {}
    /\ ~IsMediaOnly(e)
    /\ FirstWord(e) # 0
    /\ \A s \in SegmentsOf(e) : s.long => s.type = "text" /\ s.text \in Spaced

\* The message as the router and the pipeline look at it.
Read(e) ==
    [group |-> e.group, bot |-> e.bot, handler |-> DetectIntent(e),
     mentions |-> MentionsBot(e), link |-> HasLink(e), card |-> HasCard(e),
     body |-> Body(e), topics |-> e.topics, meaningless |-> e.meaningless, event |-> e]

=============================================================================
