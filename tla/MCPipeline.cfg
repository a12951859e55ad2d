SPECIFICATION Spec
CONSTANTS
  MaxFrames = 4
  MaxBody = 1
  Nil = Nil
CHECK_DEADLOCK FALSE
INVARIANTS TypeOK FrameSync ReplyIntact
PROPERTIES Answered EndsWhenGone
