\* Five documents, every length of what reaches the file, six texts to parse.
SPECIFICATION Spec
CONSTANTS
  Names <- Words_
  Documents <- Documents_
  Inputs <- Inputs_
  AttributeNames = {"a"}
  AttributeValues <- Values_
  Null = Null
  MaxNodes = 2
  Devices <- Devices_
INVARIANTS RoundTrip ElementsWhole UploadReadsBack
