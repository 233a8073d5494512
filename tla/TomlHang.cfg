SPECIFICATION FairSpec
CONSTANTS
  Topics = {"broken"}
  Width = 8
  MaxErrors = 6
  MaxDepth = 12
  Key <- Bytes
PROPERTY CommentsAreSkipped
