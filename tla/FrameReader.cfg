SPECIFICATION Spec
CONSTANTS
  Frames <- MCFrames
  MaxFrames = 4
  connection_read_buffer_size = 9
  m_max_message_size = 6
  SizeT = 12
INVARIANTS TypeOK ChunksDoNotMatter MessageBounded TextValid
