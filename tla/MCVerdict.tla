----------------------------- MODULE MCVerdict -----------------------------
(***************************************************************************)
(* The verdict on a small set of facts. Limits are the defaults of the     *)
(* code; lengths and counts are at and next to them, and every record but  *)
(* the first of a set is the first with one or two facts changed. Bitrates *)
(* are in half megabits.                                                   *)
(***************************************************************************)
EXTENDS Verdict

CONSTANTS Title, Same, Near, Other   \* a title; the bodies of a source and the index

MCHard == {"minor", "political"}

MCLimits ==
    [minWidth |-> 640, minHeight |-> 360, blur |-> 100,
     minFps |-> 24, maxFps |-> 61, minBitrate |-> 3, maxSize |-> 500,
     title |-> <<25, 35>>, intro |-> <<80, 120>>, event |-> <<100, 200>>,
     summary |-> 150, faq |-> <<3, 5>>, facts |-> <<3, 7>>, tags |-> <<3, 5>>]

MCSimilar ==
    [p \in {Same, Near, Other} \X {Same, Near, Other} |->
        IF p[1] = p[2] THEN 10 ELSE IF Other \in {p[1], p[2]} THEN 2 ELSE 6]

Text(title, length, body, anchored) ==
    [title |-> title, length |-> length, body |-> body, anchored |-> anchored]
MCTexts == {Text(Title, 25, Same, TRUE), Text(Title, 36, Same, TRUE),
            Text(None, 30, Same, FALSE), Text(None, 0, Same, TRUE), Text(Title, 35, None, FALSE)}

MCCases ==
    [available : BOOLEAN, redlines : SUBSET MCHard, footguns : SUBSET MCHard,
     daily : SUBSET {"defamation", "private_pii"}, campus : BOOLEAN,
     source : BOOLEAN, claim : BOOLEAN]

Image(w, s) == [crawled |-> TRUE, readable |-> TRUE, width |-> w, height |-> 360, sharpness |-> s]
MCImages == {Image(640, 100), Image(639, 100), Image(800, 99), Image(800, None),
             [Image(640, 100) EXCEPT !.readable = FALSE], [Image(0, 0) EXCEPT !.crawled = FALSE]}

Video == [crawled |-> TRUE, size |-> 500, probed |-> TRUE, codec |-> "h264", fps |-> 61,
          bitrate |-> 3, width |-> 640, height |-> 360, black |-> 0, duration |-> 60]
MCVideos == {Video, [Video EXCEPT !.black = 12], [Video EXCEPT !.black = 13],
             [Video EXCEPT !.black = 1, !.duration = None], [Video EXCEPT !.black = None],
             [Video EXCEPT !.size = None], [Video EXCEPT !.fps = None]}

Entry(id, title, body) == [kind |-> "entry", id |-> id, title |-> title, body |-> body]
Lines == {Entry(1, Title, Other), Entry(1, None, Same), Entry(2, None, Same), Entry(2, None, Near),
          Entry(1, None, None), [kind |-> "blank"], [kind |-> "malformed"]}
MCIndexes == {None, <<>>} \cup {<<l>> : l \in Lines} \cup {<<k, l>> : k, l \in Lines}

Answer == [finish |-> "stop", blank |-> FALSE, intro |-> 80, event |-> 200,
           copied |-> FALSE, unsupported |-> {}]
MCAnswers == {Answer, [Answer EXCEPT !.finish = "length"], [Answer EXCEPT !.blank = TRUE],
              [Answer EXCEPT !.event = 0], [Answer EXCEPT !.intro = 79],
              [Answer EXCEPT !.copied = TRUE], [Answer EXCEPT !.unsupported = {"event"}]}

Copy == [finish |-> "stop", blank |-> FALSE, faq |-> 3, facts |-> 7, summary |-> 150, tags |-> 6,
         hyped |-> FALSE, captions |-> 1, category |-> "news", unsupported |-> {}]
MCCopies == {Copy, [Copy EXCEPT !.finish = "content_filter"], [Copy EXCEPT !.faq = 2],
             [Copy EXCEPT !.summary = 0], [Copy EXCEPT !.captions = 0],
             [Copy EXCEPT !.category = None], [Copy EXCEPT !.category = "gossip"],
             [Copy EXCEPT !.unsupported = {"captions"}], [Copy EXCEPT !.unsupported = {"questions"}],
             [Copy EXCEPT !.unsupported = {"summary"}, !.tags = 2]}

MCTemplates == {None, "news"}
MCConfigured == {{}, {"news"}}
=============================================================================
